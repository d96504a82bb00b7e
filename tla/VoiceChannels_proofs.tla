------------------------- MODULE VoiceChannels_proofs -------------------------
(***************************************************************************)
(* Proofs about module VoiceChannels, for any sets of users, connections   *)
(* and channels and any limits; and about module VoiceMesh, for any        *)
(* clients, rooms, limits and numbers of joins.                            *)
(***************************************************************************)
EXTENDS VoiceChannels, VoiceMesh, FiniteSetTheorems, TLAPS

USE DEF VoicePC, Voices

(* Every step of the handlers keeps the shape of the state; an entry whose   *)
(* removal is pending names a channel.                                       *)
RemovalIsOfAChannel ==
  \A c \in Conns : pc[c] \in {"sweepRemove", "leaveRemove"} => removing[c] \in Channels

JoinIsOfAChannel ==
  \A c \in Conns : pc[c] = "joining" => target[c] \in Channels

TypeInv == TypeOK /\ RemovalIsOfAChannel /\ JoinIsOfAChannel

LEMMA TypeInvInit == Init => TypeInv
  BY DEF Init, TypeInv, TypeOK, RemovalIsOfAChannel, JoinIsOfAChannel

LEMMA TypeInvStep == TypeInv /\ [Next]_vars => TypeInv'
<1> SUFFICES ASSUME TypeInv, [Next]_vars PROVE TypeInv'
  OBVIOUS
<1> USE UserOfAssumption, NoChannelAssumption
    DEF TypeInv, TypeOK, RemovalIsOfAChannel, JoinIsOfAChannel
<1>1. ASSUME NEW c \in Conns, Connect(c) PROVE TypeInv'
  BY <1>1 DEF Connect
<1>2. ASSUME NEW c \in Conns, NEW ch \in Channels \cup {NoChannel}, StartSweep(c, ch)
      PROVE  TypeInv'
  BY <1>2 DEF StartSweep
<1>3. ASSUME NEW c \in Conns, NEW ch \in Channels, Leave(c, ch) PROVE TypeInv'
  BY <1>3 DEF Leave, DropUser
<1>4. ASSUME NEW c \in Conns, NEW ch \in Channels, SweepChannel(c, ch) PROVE TypeInv'
  BY <1>4 DEF SweepChannel, DropUser
<1>5. ASSUME NEW c \in Conns, SweepRemove(c) PROVE TypeInv'
  BY <1>5 DEF SweepRemove, RemoveRoom
<1>6. ASSUME NEW c \in Conns, SweepDone(c) PROVE TypeInv'
  BY <1>6 DEF SweepDone
<1>7. ASSUME NEW c \in Conns, Join(c) PROVE TypeInv'
  BY <1>7 DEF Join
<1>8. ASSUME NEW c \in Conns, LeaveRemove(c) PROVE TypeInv'
  BY <1>8 DEF LeaveRemove, RemoveRoom
<1>9. CASE UNCHANGED vars
  BY <1>9 DEF vars
<1> QED
  BY <1>1, <1>2, <1>3, <1>4, <1>5, <1>6, <1>7, <1>8, <1>9 DEF Next, Continue

(* The type invariant of the voice rooms.                                    *)
THEOREM TypeCorrect == Spec => []TypeOK
<1>1. TypeInv => TypeOK
  BY DEF TypeInv
<1> QED
  BY <1>1, TypeInvInit, TypeInvStep, PTL DEF Spec

-----------------------------------------------------------------------------
(* Who will take user out of room ch: a connection that is still to handle   *)
(* messages, or one whose final sweep has the room ahead of it.              *)
WillSweep(c, ch) ==
  \/ pc[c] \in {"live", "joining", "leaveRemove"}
  \/ pc[c] \in {"sweeping", "sweepRemove"} /\ (target[c] # NoChannel \/ ch \in todo[c])

RoomsHaveKeys ==
  \A ch \in Channels : participants[ch] # {} => ch \in keys

MembersAreSwept ==
  \A ch \in Channels : \A u \in participants[ch] :
    \E c \in Conns : UserOf[c] = u /\ WillSweep(c, ch)

GhostInv == TypeInv /\ RoomsHaveKeys /\ MembersAreSwept

(* What a step of one connection must do to keep GhostInv: nobody else's     *)
(* sweep changes, whoever was swept is swept or gone, and a room with        *)
(* members keeps its entry.                                                  *)
LEMMA GhostInvStep == GhostInv /\ TypeInv' /\ [Next]_vars => GhostInv'
<1> SUFFICES ASSUME GhostInv, TypeInv', [Next]_vars PROVE GhostInv'
  OBVIOUS
<1> USE UserOfAssumption, NoChannelAssumption
    DEF GhostInv, TypeInv, TypeOK, RemovalIsOfAChannel, JoinIsOfAChannel,
        RoomsHaveKeys, MembersAreSwept, WillSweep
<1>1. ASSUME NEW c \in Conns, Connect(c) PROVE GhostInv'
  BY <1>1 DEF Connect
<1>2. ASSUME NEW c \in Conns, NEW ch \in Channels \cup {NoChannel}, StartSweep(c, ch)
      PROVE  GhostInv'
  BY <1>2 DEF StartSweep
<1>3. ASSUME NEW c \in Conns, NEW ch \in Channels, Leave(c, ch) PROVE GhostInv'
  BY <1>3 DEF Leave, DropUser
<1>4. ASSUME NEW c \in Conns, NEW ch \in Channels, SweepChannel(c, ch) PROVE GhostInv'
  BY <1>4 DEF SweepChannel, DropUser
<1>5. ASSUME NEW c \in Conns, SweepRemove(c) PROVE GhostInv'
  BY <1>5 DEF SweepRemove, RemoveRoom
<1>6. ASSUME NEW c \in Conns, SweepDone(c) PROVE GhostInv'
  BY <1>6 DEF SweepDone
<1>7. ASSUME NEW c \in Conns, Join(c) PROVE GhostInv'
  BY <1>7 DEF Join
<1>8. ASSUME NEW c \in Conns, LeaveRemove(c) PROVE GhostInv'
  BY <1>8 DEF LeaveRemove, RemoveRoom
<1>9. CASE UNCHANGED vars
  BY <1>9 DEF vars
<1> QED
  BY <1>1, <1>2, <1>3, <1>4, <1>5, <1>6, <1>7, <1>8, <1>9 DEF Next, Continue

(* However many connections its members have and whatever races they run, a  *)
(* voice room never shows somebody all of whose connections are gone.        *)
THEOREM NoGhosts == Spec => []NoGhostParticipants
<1>1. Init => GhostInv
  BY TypeInvInit DEF Init, GhostInv, RoomsHaveKeys, MembersAreSwept
<1>2. GhostInv => NoGhostParticipants
  BY DEF GhostInv, MembersAreSwept, WillSweep, NoGhostParticipants
<1> QED
  BY <1>1, <1>2, TypeInvInit, TypeInvStep, GhostInvStep, PTL DEF Spec

-----------------------------------------------------------------------------
(* A connection that is gone does nothing more, and whoever spoke through it *)
(* alone is in no room.                                                      *)
LEMMA GoneIsOut ==
  ASSUME GhostInv, NEW c \in Conns, Alone(c), pc[c] = "gone"
  PROVE  /\ \A ch \in Channels : UserOf[c] \notin participants[ch]
         /\ [Next]_vars => pc'[c] = "gone"
<1>1. ASSUME NEW ch \in Channels PROVE UserOf[c] \notin participants[ch]
  BY UserOfAssumption DEF GhostInv, MembersAreSwept, WillSweep, Alone
<1>2. ASSUME [Next]_vars PROVE pc'[c] = "gone"
  <2>1. pc \in [Conns -> VoicePC] /\ pc[c] = "gone"
    BY DEF GhostInv, TypeInv, TypeOK
  <2>2. ASSUME NEW d \in Conns, d # c, NEW x, pc' = [pc EXCEPT ![d] = x]
        PROVE  pc'[c] = "gone"
    BY <2>1, <2>2
  <2>3. ASSUME NEW d \in Conns, Connect(d) \/ \E ch \in Channels \cup {NoChannel} : StartSweep(d, ch)
        PROVE  pc'[c] = "gone"
    BY <2>1, <2>2, <2>3 DEF Connect, StartSweep
  <2>4. ASSUME NEW d \in Conns, NEW ch \in Channels, SweepChannel(d, ch) \/ Leave(d, ch)
        PROVE  pc'[c] = "gone"
    BY <2>1, <2>2, <2>4 DEF SweepChannel, Leave
  <2>5. ASSUME NEW d \in Conns, SweepRemove(d) \/ LeaveRemove(d) \/ SweepDone(d) \/ Join(d)
        PROVE  pc'[c] = "gone"
    BY <2>1, <2>2, <2>5 DEF SweepRemove, LeaveRemove, RemoveRoom, SweepDone, Join
  <2> QED
    BY <1>2, <2>1, <2>3, <2>4, <2>5 DEF Next, Continue, vars
<1> QED
  BY <1>1, <1>2

Departs(c) == pc[c] \in {"sweeping", "sweepRemove"} /\ target[c] = NoChannel

(* The sweep of a connection that closed comes to its end: its loop is over  *)
(* a list that was collected before it, and nothing in it waits.             *)
SweepingSpec == Spec /\ \A c \in Conns : Departs(c) ~> pc[c] = "gone"

(* A disconnect takes a user with no other connection out of every room, for *)
(* good: once its sweep is over, no join, leave or removal of anybody, begun *)
(* before or after, brings the user back.                                    *)
THEOREM DepartedIsAlwaysOut == SweepingSpec => DepartedIsOut
<1> SUFFICES ASSUME NEW c \in Conns, Alone(c)
             PROVE  SweepingSpec =>
                      (Departs(c) ~> [](\A ch \in Channels : UserOf[c] \notin participants[ch]))
  BY DEF DepartedIsOut, Departs
<1> DEFINE Gone == pc[c] = "gone"
           Out == \A ch \in Channels : UserOf[c] \notin participants[ch]
<1>1. Init => GhostInv
  BY TypeInvInit DEF Init, GhostInv, RoomsHaveKeys, MembersAreSwept
<1>2. Spec => []GhostInv
  BY <1>1, TypeInvInit, TypeInvStep, GhostInvStep, PTL DEF Spec
<1>3. GhostInv /\ Gone /\ [Next]_vars => Gone'
  BY GoneIsOut
<1>4. GhostInv /\ Gone => Out
  BY GoneIsOut
<1>5. SweepingSpec => Spec /\ (Departs(c) ~> Gone)
  BY DEF SweepingSpec
<1>6. Spec /\ (Departs(c) ~> Gone) => (Departs(c) ~> []Out)
  <2> HIDE DEF Gone, Out
  <2> QED
    BY <1>2, <1>3, <1>4, PTL DEF Spec
<1> QED
  BY <1>5, <1>6

-----------------------------------------------------------------------------
(* A connection that is alone in speaking for its user has the user in no    *)
(* room but those ahead of its sweep: in none while it joins.                *)
Ahead(c, ch) ==
  \/ pc[c] \in {"live", "leaveRemove"}
  \/ pc[c] \in {"sweeping", "sweepRemove"} /\ ch \in todo[c]

MembersAreAhead ==
  \A c \in Conns : Alone(c) =>
    \A ch \in Channels : UserOf[c] \in participants[ch] => Ahead(c, ch)

SingleInv == TypeInv /\ RoomsHaveKeys /\ MembersAreAhead /\ OneChannelPerUser

LEMMA SingleInvStep ==
  ASSUME SingleInv, TypeInv', [Next]_vars PROVE SingleInv'
<1> USE UserOfAssumption, NoChannelAssumption
    DEF SingleInv, TypeInv, TypeOK, RemovalIsOfAChannel, JoinIsOfAChannel,
        RoomsHaveKeys, MembersAreAhead, Ahead, Alone, OneChannelPerUser
<1>1. ASSUME NEW c \in Conns, Connect(c) PROVE SingleInv'
  BY <1>1 DEF Connect
<1>2. ASSUME NEW c \in Conns, NEW ch \in Channels \cup {NoChannel}, StartSweep(c, ch)
      PROVE  SingleInv'
  BY <1>2 DEF StartSweep
<1>3. ASSUME NEW c \in Conns, NEW ch \in Channels, Leave(c, ch) PROVE SingleInv'
  BY <1>3 DEF Leave, DropUser
<1>4. ASSUME NEW c \in Conns, NEW ch \in Channels, SweepChannel(c, ch) PROVE SingleInv'
  <2>1. /\ pc[c] = "sweeping"
        /\ participants' = [participants EXCEPT ![ch] = @ \ {UserOf[c]}]
        /\ todo' = [todo EXCEPT ![c] = @ \ {ch}]
        /\ pc' \in {pc, [pc EXCEPT ![c] = "sweepRemove"]}
        /\ UNCHANGED <<target, keys>>
    BY <1>4 DEF SweepChannel, DropUser
  <2>2. \A place \in Channels : participants'[place] \subseteq participants[place]
    BY <2>1
  <2>3. RoomsHaveKeys'
    BY <2>1, <2>2
  <2>4. \A d \in Conns \ {c} : pc'[d] = pc[d] /\ todo'[d] = todo[d]
    BY <2>1
  <2>5. pc'[c] \in {"sweeping", "sweepRemove"} /\ todo'[c] = todo[c] \ {ch}
    BY <2>1
  <2>6. MembersAreAhead'
    BY <2>1, <2>2, <2>4, <2>5
  <2>7. OneChannelPerUser'
    BY <2>2
  <2> QED
    BY <2>3, <2>6, <2>7
<1>5. ASSUME NEW c \in Conns, SweepRemove(c) PROVE SingleInv'
  <2>1. /\ participants' = [participants EXCEPT ![removing[c]] = {}]
        /\ keys' = keys \ {removing[c]}
        /\ pc' = [pc EXCEPT ![c] = "sweeping"]
        /\ pc[c] = "sweepRemove" /\ UNCHANGED <<target, todo>>
    BY <1>5 DEF SweepRemove, RemoveRoom
  <2>2. \A ch \in Channels : participants'[ch] \subseteq participants[ch]
    BY <2>1
  <2>3. RoomsHaveKeys'
    BY <2>1
  <2>4. MembersAreAhead'
    BY <2>1, <2>2
  <2>5. OneChannelPerUser'
    BY <2>1, <2>2
  <2> QED
    BY <2>3, <2>4, <2>5
<1>6. ASSUME NEW c \in Conns, SweepDone(c) PROVE SingleInv'
  BY <1>6 DEF SweepDone
<1>7. ASSUME NEW c \in Conns, Join(c) PROVE SingleInv'
  <2>1. /\ pc[c] = "joining" /\ target[c] \in Channels
        /\ pc' = [pc EXCEPT ![c] = "live"]
        /\ keys' = keys \cup {target[c]} /\ UNCHANGED <<target, todo>>
        /\ participants' \in
             {participants, [participants EXCEPT ![target[c]] = @ \cup {UserOf[c]}]}
    BY <1>7 DEF Join
  <2>2. \A ch \in Channels :
          participants'[ch] \subseteq
            participants[ch] \cup (IF ch = target[c] THEN {UserOf[c]} ELSE {})
    BY <2>1
  <2>3. RoomsHaveKeys'
    BY <2>1, <2>2
  <2>4. MembersAreAhead'
    BY <2>1, <2>2
  <2>5. OneChannelPerUser'
    BY <2>1, <2>2
  <2> QED
    BY <2>3, <2>4, <2>5
<1>8. ASSUME NEW c \in Conns, LeaveRemove(c) PROVE SingleInv'
  <2>1. /\ participants' = [participants EXCEPT ![removing[c]] = {}]
        /\ keys' = keys \ {removing[c]}
        /\ pc' = [pc EXCEPT ![c] = "live"]
        /\ pc[c] = "leaveRemove" /\ UNCHANGED <<target, todo>>
    BY <1>8 DEF LeaveRemove, RemoveRoom
  <2>2. \A ch \in Channels : participants'[ch] \subseteq participants[ch]
    BY <2>1
  <2>3. RoomsHaveKeys'
    BY <2>1
  <2>4. MembersAreAhead'
    BY <2>1, <2>2
  <2>5. OneChannelPerUser'
    BY <2>1, <2>2
  <2> QED
    BY <2>3, <2>4, <2>5
<1>9. CASE UNCHANGED vars
  BY <1>9 DEF vars
<1> QED
  BY <1>1, <1>2, <1>3, <1>4, <1>5, <1>6, <1>7, <1>8, <1>9 DEF Next, Continue

(* The sweep before a join keeps the promise of signaling.rs:15 to whoever   *)
(* speaks through one connection, whatever the other users do.               *)
THEOREM OneChannel == Spec => []OneChannelPerUser
<1>1. Init => SingleInv
  BY TypeInvInit
     DEF Init, SingleInv, RoomsHaveKeys, MembersAreAhead, OneChannelPerUser
<1>2. SingleInv /\ TypeInv' /\ [Next]_vars => SingleInv'
  BY SingleInvStep
<1>3. SingleInv => OneChannelPerUser
  BY DEF SingleInv
<1> QED
  BY <1>1, <1>2, <1>3, TypeInvInit, TypeInvStep, PTL DEF Spec

-----------------------------------------------------------------------------
(* The members a room has within its limit.                                  *)
Entitled(ch) == participants[ch] \ unread[ch]

(* A room counted against its limit is a finite set that only Join extends,  *)
(* by one user, after it has looked at the count under the entry's guard.    *)
CapacityInv ==
  /\ TypeInv
  /\ \A ch \in Channels : IsFiniteSet(participants[ch])
  /\ CapacityRespected

(* One member more is at most one more to count.                             *)
LEMMA OneMore ==
  ASSUME NEW S, IsFiniteSet(S), NEW x
  PROVE  /\ IsFiniteSet(S \cup {x})
         /\ Cardinality(S \cup {x}) <= Cardinality(S) + 1
         /\ Cardinality(S) \in Nat
         /\ Cardinality(S \cup {x}) \in Nat
<1>1. /\ IsFiniteSet(S \cup {x})
      /\ Cardinality(S \cup {x}) = IF x \in S THEN Cardinality(S) ELSE Cardinality(S) + 1
  BY FS_AddElement
<1>2. Cardinality(S) \in Nat
  BY FS_CardinalityType
<1> QED
  BY <1>1, <1>2

LEMMA ShrinkingKeepsCapacity ==
  ASSUME CapacityInv, TypeInv',
         \A ch \in Channels :
           /\ participants'[ch] \subseteq participants[ch]
           /\ Entitled(ch)' \subseteq Entitled(ch)
  PROVE  CapacityInv'
<1> SUFFICES ASSUME NEW ch \in Channels
             PROVE  /\ IsFiniteSet(participants'[ch])
                    /\ Limit[ch] > 0 => Cardinality(Entitled(ch)') <= Limit[ch]
  BY DEF CapacityInv, CapacityRespected, Entitled
<1>1. IsFiniteSet(participants'[ch])
  BY FS_Subset DEF CapacityInv
<1>2. IsFiniteSet(Entitled(ch))
  BY FS_Subset DEF CapacityInv, Entitled
<1>3. /\ IsFiniteSet(Entitled(ch)')
      /\ Cardinality(Entitled(ch)') <= Cardinality(Entitled(ch))
  BY <1>2, FS_Subset
<1>4. /\ Cardinality(Entitled(ch)) \in Nat
      /\ Cardinality(Entitled(ch)') \in Nat
      /\ Limit[ch] \in Nat
  BY <1>2, <1>3, FS_CardinalityType, LimitAssumption
<1>5. Limit[ch] > 0 => Cardinality(Entitled(ch)) <= Limit[ch]
  BY DEF CapacityInv, CapacityRespected, Entitled
<1> HIDE DEF Entitled
<1> QED
  BY <1>1, <1>3, <1>4, <1>5

(* No interleaving of joins fills a room beyond its max_participants, but by *)
(* those for whom it could not be read.                                      *)
THEOREM Capacity == Spec => []CapacityRespected
<1>1. Init => CapacityInv
  <2> SUFFICES ASSUME Init PROVE CapacityInv
    OBVIOUS
  <2>1. \A ch \in Channels : participants[ch] = {} /\ participants[ch] \ unread[ch] = {}
    BY DEF Init
  <2>2. \A ch \in Channels : Limit[ch] \in Nat
    BY LimitAssumption
  <2> QED
    BY <2>1, <2>2, TypeInvInit, FS_EmptySet DEF CapacityInv, CapacityRespected
<1>2. CapacityInv /\ TypeInv' /\ [Next]_vars => CapacityInv'
  <2> SUFFICES ASSUME CapacityInv, TypeInv', [Next]_vars PROVE CapacityInv'
    OBVIOUS
  <2> USE DEF TypeInv, TypeOK, RemovalIsOfAChannel
  <2> TypeInv
    BY DEF CapacityInv
  <2>1. ASSUME NEW c \in Conns, Join(c) PROVE CapacityInv'
    <3>1. PICK place \in Channels : place = target[c]
      BY <2>1 DEF Join, JoinIsOfAChannel
    <3> DEFINE before == participants[place]
               after == before \cup {UserOf[c]}
    <3>2. /\ IsFiniteSet(after)
          /\ Cardinality(after) <= Cardinality(before) + 1
          /\ Cardinality(before) \in Nat
          /\ Cardinality(after) \in Nat
      <4>1. IsFiniteSet(before)
        BY <3>1 DEF CapacityInv
      <4> QED
        BY <4>1, OneMore
    <3>3. CASE UNCHANGED <<participants, unread>>
      BY <3>3, ShrinkingKeepsCapacity DEF Entitled
    <3>4. CASE ~ UNCHANGED <<participants, unread>>
      <4>1. /\ participants' = [participants EXCEPT ![place] = @ \cup {UserOf[c]}]
            /\ unread' = [unread EXCEPT ![place] =
                            IF Full(place) THEN @ \cup {UserOf[c]} ELSE @ \ {UserOf[c]}]
        BY <2>1, <3>1, <3>4 DEF Join
      <4>2. /\ participants'[place] = after
            /\ \A ch \in Channels \ {place} :
                 participants'[ch] = participants[ch] /\ Entitled(ch)' = Entitled(ch)
        BY <3>1, <4>1 DEF Entitled
      <4>3. Limit[place] > 0 => Cardinality(Entitled(place)') <= Limit[place]
        <5>1. CASE Full(place)
          <6>1. Entitled(place)' = Entitled(place) \ {UserOf[c]}
            BY <3>1, <4>1, <5>1 DEF Entitled
          <6>2. IsFiniteSet(Entitled(place))
            BY <3>1, FS_Subset DEF CapacityInv, Entitled
          <6>3. /\ Cardinality(Entitled(place)') <= Cardinality(Entitled(place))
                /\ IsFiniteSet(Entitled(place)')
            BY <6>1, <6>2, FS_Subset
          <6>4. Cardinality(Entitled(place)) \in Nat /\ Cardinality(Entitled(place)') \in Nat
            BY <6>2, <6>3, FS_CardinalityType
          <6>5. Limit[place] > 0 => Cardinality(Entitled(place)) <= Limit[place]
            BY <3>1 DEF CapacityInv, CapacityRespected, Entitled
          <6>6. Limit[place] \in Nat
            BY <3>1, LimitAssumption
          <6> HIDE DEF Entitled
          <6> QED
            BY <6>3, <6>4, <6>5, <6>6
        <5>2. CASE ~Full(place)
          <6>1. Entitled(place)' \subseteq after
            BY <4>2 DEF Entitled
          <6>2. /\ IsFiniteSet(Entitled(place)')
                /\ Cardinality(Entitled(place)') <= Cardinality(after)
            BY <3>2, <6>1, FS_Subset
          <6>3. Cardinality(Entitled(place)') \in Nat
            BY <6>2, FS_CardinalityType
          <6>4. Limit[place] \in Nat /\ (Limit[place] > 0 => Cardinality(before) < Limit[place])
            BY <3>1, <3>2, <5>2, LimitAssumption DEF Full
          <6> HIDE DEF Entitled, before, after
          <6> QED
            BY <3>2, <6>2, <6>3, <6>4
        <5> QED
          BY <5>1, <5>2
      <4>4. ASSUME NEW ch \in Channels, Limit[ch] > 0
            PROVE  Cardinality(Entitled(ch)') <= Limit[ch]
        <5>1. CASE ch = place
          BY <4>3, <4>4, <5>1
        <5>2. CASE ch # place
          BY <4>2, <4>4, <5>2 DEF CapacityInv, CapacityRespected, Entitled
        <5> QED
          BY <5>1, <5>2
      <4>5. \A ch \in Channels : IsFiniteSet(participants'[ch])
        BY <3>2, <4>2 DEF CapacityInv
      <4> QED
        BY <4>4, <4>5 DEF CapacityInv, CapacityRespected, Entitled
    <3> QED
      BY <3>3, <3>4
  <2>2. ASSUME NEW c \in Conns, NEW ch \in Channels, Leave(c, ch) \/ SweepChannel(c, ch)
        PROVE  CapacityInv'
    BY <2>2, ShrinkingKeepsCapacity, UserOfAssumption
       DEF Leave, SweepChannel, DropUser, Entitled
  <2>3. ASSUME NEW c \in Conns, SweepRemove(c) \/ LeaveRemove(c) PROVE CapacityInv'
    BY <2>3, ShrinkingKeepsCapacity DEF SweepRemove, LeaveRemove, RemoveRoom, Entitled
  <2>4. ASSUME UNCHANGED <<participants, unread>> PROVE CapacityInv'
    BY <2>4, ShrinkingKeepsCapacity DEF Entitled
  <2> QED
    BY <2>1, <2>2, <2>3, <2>4
       DEF Next, Continue, Connect, StartSweep, SweepDone, vars
<1>3. CapacityInv => CapacityRespected
  BY DEF CapacityInv
<1> QED
  BY <1>1, <1>2, <1>3, TypeInvInit, TypeInvStep, PTL DEF Spec

-----------------------------------------------------------------------------
(* Module VoiceMesh.                                                         *)

(* The peers a client offers to, in some order.                              *)
LEMMA PeersInOrder ==
  ASSUME NEW S, IsFiniteSet(S)
  PROVE  SetToSeq(S) \in [1..Cardinality(S) -> S] /\ Cardinality(S) \in Nat
<1>1. Cardinality(S) \in Nat /\ ExistsBijection(1..Cardinality(S), S)
  BY FS_CardinalityType
<1>2. PICK f \in Bijection(1..Cardinality(S), S) : TRUE
  BY <1>1 DEF ExistsBijection
<1>3. f \in [1..Cardinality(S) -> S] /\ IsInjective(f)
  BY <1>2 DEF Bijection, Injection, IsInjective
<1> QED
  BY <1>1, <1>3 DEF SetToSeq

(* Their offers.                                                             *)
LEMMA OffersAre ==
  ASSUME NEW u \in Clients, NEW who \in SUBSET Clients
  PROVE  OffersTo(u, who) \in Seq([type : {"offer"}, channel : {Nowhere}, to : Clients])
<1> DEFINE S == {v \in who : ShouldOffer(u, v)}
           n == Cardinality(S)
           q == SetToSeq(S)
           offers == [type : {"offer"}, channel : {Nowhere}, to : Clients]
<1>1. IsFiniteSet(S)
  BY ClientsAssumption, FS_Subset
<1>2. q \in [1..n -> S] /\ n \in Nat
  BY <1>1, PeersInOrder
<1>3. OffersTo(u, who) = [i \in 1..n |-> Signal("offer", q[i])]
  BY <1>2 DEF OffersTo
<1>4. \A i \in 1..n : q[i] \in Clients
  BY <1>2
<1>5. \A i \in 1..n : Signal("offer", q[i]) \in offers
  BY <1>4 DEF Signal
<1> HIDE DEF q, n, offers
<1>6. OffersTo(u, who) \in [1..n -> offers]
  BY <1>3, <1>5
<1>7. OffersTo(u, who) \in Seq(offers)
  BY <1>2, <1>6
<1> QED
  BY <1>7 DEF offers

(* The first message is taken, or some are put at the end.                   *)
LEMMA Taken ==
  ASSUME NEW T, NEW q \in Seq(T), q # <<>>
  PROVE  /\ Len(q) \in Nat \ {0} /\ DOMAIN q = 1..Len(q) /\ Head(q) = q[1] /\ q[1] \in T
         /\ Tail(q) \in Seq(T) /\ Len(Tail(q)) = Len(q) - 1 /\ DOMAIN Tail(q) = 1..(Len(q) - 1)
         /\ \A k \in 1..(Len(q) - 1) : Tail(q)[k] = q[k + 1]
  OBVIOUS

LEMMA Grown ==
  ASSUME NEW T, NEW q \in Seq(T), NEW r \in Seq(T)
  PROVE  /\ q \o r \in Seq(T) /\ Len(q) \in Nat /\ Len(r) \in Nat /\ Len(q \o r) = Len(q) + Len(r)
         /\ DOMAIN q = 1..Len(q) /\ DOMAIN r = 1..Len(r) /\ DOMAIN (q \o r) = 1..(Len(q) + Len(r))
         /\ \A k \in 1..Len(q) : (q \o r)[k] = q[k]
         /\ \A k \in 1..Len(r) : (q \o r)[Len(q) + k] = r[k]
  OBVIOUS

LEMMA Appended ==
  ASSUME NEW T, NEW q \in Seq(T), NEW e \in T
  PROVE  /\ Append(q, e) \in Seq(T) /\ Len(q) \in Nat /\ Len(Append(q, e)) = Len(q) + 1
         /\ DOMAIN q = 1..Len(q) /\ DOMAIN Append(q, e) = 1..(Len(q) + 1)
         /\ \A k \in 1..Len(q) : Append(q, e)[k] = q[k]
         /\ Append(q, e)[Len(q) + 1] = e
  OBVIOUS

(* What a client adds to its requests is one of these.                       *)
Signals == [type : {"offer", "answer"}, channel : {Nowhere}, to : Clients]
Departures == [type : {"leave"}, channel : {Nowhere}, to : {0}]

LEMMA RequestSets ==
  /\ Signals \subseteq Request /\ Departures \subseteq Request
  /\ \A ch \in Rooms : JoinRequest(ch) \in Request
  /\ \A u : LeaveRequest(u) \in Departures
  /\ \A v \in Clients : Signal("answer", v) \in Signals /\ Signal("offer", v) \in Signals
  BY DEF Signals, Departures, Request, JoinRequest, LeaveRequest, Signal

LEMMA Wider == ASSUME NEW S, NEW T, S \subseteq T, NEW q \in Seq(S) PROVE q \in Seq(T)
<1>1. q \in [1..Len(q) -> T] /\ Len(q) \in Nat
  OBVIOUS
<1> QED
  BY <1>1

LEMMA OffersAreSignals ==
  ASSUME NEW u \in Clients, NEW who \in SUBSET Clients
  PROVE  OffersTo(u, who) \in Seq(Signals) /\ OffersTo(u, who) \in Seq(Request)
<1>1. /\ [type : {"offer"}, channel : {Nowhere}, to : Clients] \subseteq Signals
      /\ Signals \subseteq Request
  BY RequestSets DEF Signals
<1> QED
  BY <1>1, OffersAre, Wider

(* Each part of the state keeps its type: first what the steps do to one     *)
(* client's part.                                                            *)
LEMMA FarewellIs == \A u \in Clients : Farewell(u) \in Seq(Departures) /\ Farewell(u) \in Seq(Request)
  BY RequestSets DEF Farewell

LEMMA CreatedIs ==
  ASSUME NEW u \in Clients, NEW old \in [Clients -> LinkStates], NEW who
  PROVE  Created(u, old, who) \in [Clients -> LinkStates]
  BY DEF Created, LinkStates

(* What is sent reaches the server, or nothing does.                         *)
LEMMA SentIs ==
  ASSUME NEW T, NEW r \in Seq(T), NEW u \in Clients, Sent(u, r)
  PROVE  \E s \in Seq(T) :
           /\ outbox' = [outbox EXCEPT ![u] = @ \o s]
           /\ wire[u] => s = r
           /\ ~wire[u] => s = <<>>
<1> DEFINE s == IF wire[u] THEN r ELSE <<>>
<1>1. s \in Seq(T)
  OBVIOUS
<1>2. outbox' = [outbox EXCEPT ![u] = @ \o s]
  BY DEF Sent
<1> QED
  BY <1>1, <1>2

(* What a step does to the messages of its client, and to no other's.        *)
LEMMA Sends ==
  ASSUME MeshTypeOK, NEW u \in Clients, NEW r \in Seq(Request),
         outbox' = [outbox EXCEPT ![u] = @ \o r]
  PROVE  /\ outbox' \in [Clients -> Seq(Request)]
         /\ outbox'[u] = outbox[u] \o r
         /\ \A v \in Clients : v # u => outbox'[v] = outbox[v]
<1>1. outbox \in [Clients -> Seq(Request)]
  BY DEF MeshTypeOK
<1> QED
  BY <1>1, Grown

LEMMA WorksOff ==
  ASSUME MeshTypeOK, NEW u \in Clients, outbox[u] # <<>>, Done(u)
  PROVE  /\ outbox' \in [Clients -> Seq(Request)]
         /\ outbox'[u] = Tail(outbox[u])
         /\ \A v \in Clients : v # u => outbox'[v] = outbox[v]
<1>1. outbox \in [Clients -> Seq(Request)] /\ outbox' = [outbox EXCEPT ![u] = Tail(@)]
  BY DEF MeshTypeOK, Done
<1> QED
  BY <1>1, Taken

LEMMA Hears ==
  ASSUME MeshTypeOK, NEW u \in Clients, inbox[u] # <<>>, inbox' = [inbox EXCEPT ![u] = Tail(@)]
  PROVE  /\ inbox' \in [Clients -> Seq(VoiceEvent)]
         /\ Head(inbox[u]) \in VoiceEvent /\ Head(inbox[u]) = inbox[u][1]
         /\ inbox'[u] = Tail(inbox[u])
         /\ \A v \in Clients : v # u => inbox'[v] = inbox[v]
<1>1. inbox \in [Clients -> Seq(VoiceEvent)]
  BY DEF MeshTypeOK
<1> QED
  BY <1>1, Taken

LEMMA Tells ==
  ASSUME MeshTypeOK, NEW who, NEW e \in VoiceEvent, Notify(who, e)
  PROVE  /\ inbox' \in [Clients -> Seq(VoiceEvent)]
         /\ \A v \in Clients : inbox'[v] = inbox[v] \/ inbox'[v] = Append(inbox[v], e)
<1>1. inbox \in [Clients -> Seq(VoiceEvent)]
  BY DEF MeshTypeOK
<1>2. \A v \in Clients : Append(inbox[v], e) \in Seq(VoiceEvent)
  BY <1>1, Appended
<1> QED
  BY <1>1, <1>2 DEF Notify

LEMMA EventsAre ==
  /\ \A u \in Clients, kind \in {"joined", "left", "offer", "answer"} : Event(kind, u) \in VoiceEvent
  /\ \A others \in SUBSET Clients : Response(others) \in VoiceEvent
  BY DEF Event, Response, VoiceEvent

(* A setup changes.                                                          *)
LEMMA SetupChanges ==
  ASSUME MeshTypeOK, NEW u \in Clients, NEW n, NEW x \in Setup,
         setup' = [setup EXCEPT ![u][n] = x]
  PROVE  /\ setup' \in [Clients -> [Setups -> Setup]]
         /\ \A v \in Clients, m \in Setups : v # u \/ m # n => setup'[v][m] = setup[v][m]
         /\ n \in Setups => setup'[u][n] = x
<1>1. setup \in [Clients -> [Setups -> Setup]]
  BY DEF MeshTypeOK
<1> HIDE DEF Setup, Setups
<1> QED
  BY <1>1

LEMMA LinksChange ==
  ASSUME MeshTypeOK, NEW u \in Clients, NEW n \in Setups, NEW x \in [Clients -> LinkStates],
         links' = [links EXCEPT ![u][n] = x]
  PROVE  /\ links' \in [Clients -> [Setups -> [Clients -> LinkStates]]]
         /\ links'[u][n] = x
         /\ \A v \in Clients, m \in Setups : v # u \/ m # n => links'[v][m] = links[v][m]
  BY DEF MeshTypeOK

LEMMA LinkChanges ==
  ASSUME MeshTypeOK, NEW u \in Clients, NEW n \in Setups, NEW v \in Clients, NEW x \in LinkStates,
         links' = [links EXCEPT ![u][n][v] = x]
  PROVE  /\ links' \in [Clients -> [Setups -> [Clients -> LinkStates]]]
         /\ \A w, y \in Clients, m \in Setups :
              links'[w][m][y] = IF w = u /\ m = n /\ y = v THEN x ELSE links[w][m][y]
<1>1. links \in [Clients -> [Setups -> [Clients -> LinkStates]]]
  BY DEF MeshTypeOK
<1>2. links' = [links EXCEPT ![u] = [links[u] EXCEPT ![n] = [links[u][n] EXCEPT ![v] = x]]]
  BY <1>1
<1>3. [links[u][n] EXCEPT ![v] = x] \in [Clients -> LinkStates]
  BY <1>1
<1>4. [links[u] EXCEPT ![n] = [links[u][n] EXCEPT ![v] = x]] \in [Setups -> [Clients -> LinkStates]]
  BY <1>1, <1>3
<1>5. links' \in [Clients -> [Setups -> [Clients -> LinkStates]]]
  BY <1>1, <1>2, <1>4
<1> QED
  BY <1>1, <1>2, <1>5

LEMMA CleanUpIs ==
  ASSUME MeshTypeOK, NEW u \in Clients, CleanUp(u)
  PROVE  /\ manager' \in [Clients -> Setups \cup {0}]
         /\ setup' \in [Clients -> [Setups -> Setup]]
         /\ links' \in [Clients -> [Setups -> [Clients -> LinkStates]]]
         /\ manager'[u] = 0 /\ \A v \in Clients : v # u => manager'[v] = manager[v]
         /\ \A v \in Clients, m \in Setups :
              \/ setup'[v][m] = setup[v][m]
              \/ v = u /\ m = manager[u] /\ m # 0 /\ setup'[v][m] = Spent
         /\ \A v, w \in Clients, m \in Setups : links'[v][m][w] \in {links[v][m][w], "none"}
<1>1. Spent \in Setup /\ NoLinks \in [Clients -> LinkStates]
  BY DEF Spent, Setup, NoLinks, LinkStates
<1>2. manager \in [Clients -> Setups \cup {0}]
  BY DEF MeshTypeOK
<1>3. manager' = [manager EXCEPT ![u] = 0]
  BY DEF CleanUp
<1>4. /\ manager' \in [Clients -> Setups \cup {0}]
      /\ manager'[u] = 0 /\ \A v \in Clients : v # u => manager'[v] = manager[v]
  BY <1>2, <1>3
<1>5. /\ setup' \in [Clients -> [Setups -> Setup]]
      /\ \A v \in Clients, m \in Setups :
           \/ setup'[v][m] = setup[v][m]
           \/ v = u /\ m = manager[u] /\ m # 0 /\ setup'[v][m] = Spent
  <2>1. CASE UNCHANGED setup
    BY <2>1 DEF MeshTypeOK
  <2>2. CASE manager[u] # 0 /\ setup' = [setup EXCEPT ![u][manager[u]] = Spent]
    <3>1. /\ setup' \in [Clients -> [Setups -> Setup]]
          /\ manager[u] \in Setups => setup'[u][manager[u]] = Spent
          /\ \A v \in Clients, m \in Setups : v # u \/ m # manager[u] => setup'[v][m] = setup[v][m]
      <4>1. setup \in [Clients -> [Setups -> Setup]]
        BY DEF MeshTypeOK
      <4> QED
        BY <1>1, <2>2, <4>1
    <3> QED
      BY <1>2, <2>2, <3>1
  <2>3. UNCHANGED setup \/ (manager[u] # 0 /\ setup' = [setup EXCEPT ![u][manager[u]] = Spent])
    BY DEF CleanUp
  <2> QED
    BY <2>1, <2>2, <2>3
<1>6. /\ links' \in [Clients -> [Setups -> [Clients -> LinkStates]]]
      /\ \A v, w \in Clients, m \in Setups : links'[v][m][w] \in {links[v][m][w], "none"}
  <2>1. CASE UNCHANGED links
    BY <2>1 DEF MeshTypeOK
  <2>2. CASE manager[u] # 0 /\ links' = [links EXCEPT ![u][manager[u]] = NoLinks]
    <3>1. manager[u] \in Setups
      BY <1>2, <2>2
    <3>2. \A w \in Clients : NoLinks[w] = "none"
      BY DEF NoLinks
    <3>3. /\ links' \in [Clients -> [Setups -> [Clients -> LinkStates]]]
          /\ links'[u][manager[u]] = NoLinks
          /\ \A v \in Clients, m \in Setups : v # u \/ m # manager[u] => links'[v][m] = links[v][m]
      <4>1. links \in [Clients -> [Setups -> [Clients -> LinkStates]]]
        BY DEF MeshTypeOK
      <4> QED
        BY <1>1, <2>2, <3>1, <4>1
    <3> QED
      BY <3>2, <3>3
  <2> QED
    BY <2>1, <2>2 DEF CleanUp
<1> QED
  BY <1>4, <1>5, <1>6

(* A handler works on the first request of its client, which is to join.     *)
Working(u) == handler[u].step # "idle" =>
  /\ outbox[u] # <<>> /\ outbox[u][1].type = "join"
  /\ outbox[u][1].channel = handler[u].channel /\ handler[u].channel \in Rooms

AtWork == \A u \in Clients : Working(u)

(* The two halves of the type invariant.                                     *)
ProtocolOK ==
  /\ room \in [Rooms -> SUBSET Clients]
  /\ handler \in [Clients -> Handling]
  /\ outbox \in [Clients -> Seq(Request)]
  /\ inbox \in [Clients -> Seq(VoiceEvent)]
  /\ chan \in [Clients -> Rooms \cup {Nowhere}]
  /\ roster \in [Clients -> SUBSET Clients]
  /\ setup \in [Clients -> [Setups -> Setup]]
  /\ manager \in [Clients -> Setups \cup {0}]
  /\ links \in [Clients -> [Setups -> [Clients -> LinkStates]]]

LuckOK ==
  /\ wire \in [Clients -> BOOLEAN] /\ astray \subseteq Clients /\ mishaps \in 0..Mishaps
  /\ joinsLeft \in [Clients -> Nat] /\ leavesLeft \in [Clients -> Nat]

LEMMA LuckStep == MeshTypeOK /\ [MeshNext]_meshVars => LuckOK'
<1> SUFFICES ASSUME MeshTypeOK, [MeshNext]_meshVars PROVE LuckOK'
  OBVIOUS
<1>1. LuckOK
  BY DEF MeshTypeOK, LuckOK
<1>2. CASE UNCHANGED luck
  BY <1>1, <1>2 DEF luck, bounds, LuckOK
<1>3. GoesWrong => mishaps' \in 0..Mishaps
  BY <1>1, MishapsAssumption DEF GoesWrong, LuckOK
<1>4. ASSUME NEW u \in Clients, astray' \subseteq astray \cup {u},
             UNCHANGED wire \/ \E x \in BOOLEAN : wire' = [wire EXCEPT ![u] = x],
             UNCHANGED mishaps \/ GoesWrong, UNCHANGED bounds
      PROVE  LuckOK'
  BY <1>1, <1>3, <1>4 DEF bounds, LuckOK
<1>5. ASSUME NEW u \in Clients, UNCHANGED <<wire, astray, mishaps>>,
             \/ joinsLeft[u] > 0 /\ joinsLeft' = [joinsLeft EXCEPT ![u] = @ - 1] /\ UNCHANGED leavesLeft
             \/ leavesLeft[u] > 0 /\ leavesLeft' = [leavesLeft EXCEPT ![u] = @ - 1] /\ UNCHANGED joinsLeft
      PROVE  LuckOK'
  <2>1. joinsLeft' \in [Clients -> Nat] /\ leavesLeft' \in [Clients -> Nat]
    BY <1>1, <1>5 DEF LuckOK
  <2> QED
    BY <1>1, <1>5, <2>1 DEF LuckOK
<1>6. ASSUME NEW u \in Clients, ServerStep(u) PROVE LuckOK'
  <2>1. CASE Refuse(u) \/ Reply(u) \/ LeaveRoom(u) \/ Relay(u)
    BY <1>2, <2>1 DEF Refuse, Reply, LeaveRoom, Relay
  <2>2. CASE LookUpFails(u) \/ Sweep(u) \/ Enter(u)
    BY <1>4, <2>2 DEF LookUpFails, Sweep, Enter
  <2> QED
    BY <1>6, <2>1, <2>2 DEF ServerStep
<1>7. ASSUME NEW u \in Clients, ClientStep(u) PROVE LuckOK'
  <2>1. CASE UNCHANGED luck
    BY <1>2, <2>1
  <2>2. ASSUME NEW n \in Setups, AudioFails(u, n) \/ MicDenied(u, n) PROVE LuckOK'
    BY <1>4, <2>2 DEF AudioFails, MicDenied
  <2>3. UNCHANGED luck \/ \E n \in Setups : AudioFails(u, n) \/ MicDenied(u, n)
    BY <1>7 DEF ClientStep, Ignore, OnResponse, OnJoined, OnLeft, OnOffer, OnAnswer, AudioReady, MicReady
  <2> QED
    BY <2>1, <2>2, <2>3
<1>8. ASSUME NEW u \in Clients, UserStep(u) PROVE LuckOK'
  BY <1>5, <1>8 DEF UserStep, JoinVoice, LeaveVoice
<1>9. ASSUME NEW u \in Clients, Mishap(u) PROVE LuckOK'
  BY <1>4, <1>9 DEF Mishap, SocketLost, SocketBack, IceFails, PeerGone
<1>10. CASE UNCHANGED meshVars
  BY <1>2, <1>10 DEF meshVars, luck, bounds
<1> QED
  BY <1>6, <1>7, <1>8, <1>9, <1>10 DEF MeshNext

LEMMA MeshTypeStep == MeshTypeOK /\ AtWork /\ [MeshNext]_meshVars => MeshTypeOK'
<1> SUFFICES ASSUME MeshTypeOK, AtWork, [MeshNext]_meshVars PROVE ProtocolOK'
  BY LuckStep DEF MeshTypeOK, ProtocolOK, LuckOK
<1> USE DEF server, view, call, ProtocolOK
<1>1. ASSUME NEW u \in Clients, Sweep(u) PROVE ProtocolOK'
  <2>1. outbox[u] # <<>> /\ Head(outbox[u]) \in Request
    BY <1>1, Taken DEF Sweep, Reading, MeshTypeOK
  <2>2. Head(outbox[u]).channel \in Rooms \cup {Nowhere}
    BY <2>1 DEF Request
  <2>3. handler' \in [Clients -> Handling]
    BY <1>1, <2>2 DEF Sweep, MeshTypeOK, Handling
  <2>4. inbox' \in [Clients -> Seq(VoiceEvent)]
    BY <1>1, Tells, EventsAre DEF Sweep
  <2>5. room' \in [Rooms -> SUBSET Clients]
    BY <1>1 DEF Sweep, MeshTypeOK
  <2> QED
    BY <1>1, <2>3, <2>4, <2>5 DEF Sweep, MeshTypeOK
<1>2. ASSUME NEW u \in Clients, Enter(u) PROVE ProtocolOK'
  <2>1. handler' \in [Clients -> Handling]
    <3> DEFINE h == [handler[u] EXCEPT !.step = "entered", !.others = room[handler[u].channel] \ {u}]
    <3>1. handler' = [handler EXCEPT ![u] = h]
      BY <1>2 DEF Enter, MeshTypeOK
    <3>2. handler[u].channel \in Rooms /\ handler[u] \in Handling
      BY <1>2 DEF MeshTypeOK, AtWork, Working, Enter
    <3>3. h \in Handling
      BY <3>2 DEF Handling, MeshTypeOK
    <3> QED
      BY <3>1, <3>3 DEF MeshTypeOK
  <2>2. room' \in [Rooms -> SUBSET Clients]
    BY <1>2 DEF Enter, MeshTypeOK
  <2> QED
    BY <1>2, <2>1, <2>2 DEF Enter, MeshTypeOK
<1>3. ASSUME NEW u \in Clients, Refuse(u) \/ Reply(u) PROVE ProtocolOK'
  <2>1. outbox' \in [Clients -> Seq(Request)]
    BY <1>3, WorksOff DEF Refuse, Reply, AtWork, Working
  <2>2. NoRequest \in Handling
    BY DEF NoRequest, Handling
  <2>3. handler' \in [Clients -> Handling]
    BY <1>3, <2>2 DEF Refuse, Reply, MeshTypeOK
  <2>4. inbox' \in [Clients -> Seq(VoiceEvent)]
    <3>1. CASE Refuse(u)
      BY <3>1 DEF Refuse, MeshTypeOK
    <3>2. CASE Reply(u)
      <4>1. handler[u].others \in SUBSET Clients
        BY DEF MeshTypeOK, Handling
      <4>2. /\ Response(handler[u].others) \in VoiceEvent /\ Event("joined", u) \in VoiceEvent
            /\ \A v \in Clients : inbox[v] \in Seq(VoiceEvent)
        BY <4>1, EventsAre DEF MeshTypeOK
      <4> QED
        BY <3>2, <4>2, Appended DEF Reply
    <3> QED
      BY <1>3, <3>1, <3>2
  <2> QED
    BY <1>3, <2>1, <2>3, <2>4 DEF Refuse, Reply, MeshTypeOK
<1>4. ASSUME NEW u \in Clients, LeaveRoom(u) PROVE ProtocolOK'
  <2>1. outbox' \in [Clients -> Seq(Request)]
    BY <1>4, WorksOff DEF LeaveRoom, Reading
  <2>2. inbox' \in [Clients -> Seq(VoiceEvent)]
    BY <1>4, Tells, EventsAre DEF LeaveRoom
  <2>3. room' \in [Rooms -> SUBSET Clients]
    BY <1>4 DEF LeaveRoom, MeshTypeOK
  <2> QED
    BY <1>4, <2>1, <2>2, <2>3 DEF LeaveRoom, MeshTypeOK
<1>5. ASSUME NEW u \in Clients, Relay(u) PROVE ProtocolOK'
  <2>1. outbox' \in [Clients -> Seq(Request)]
    BY <1>5, WorksOff DEF Relay, Reading
  <2>2. inbox' \in [Clients -> Seq(VoiceEvent)]
    BY <1>5, Tells, EventsAre DEF Relay, Reading
  <2> QED
    BY <1>5, <2>1, <2>2 DEF Relay, MeshTypeOK
<1>6. ASSUME NEW u \in Clients, NEW ch \in Rooms \cup {Nowhere}, NEW r \in Seq(Request),
             chan' = [chan EXCEPT ![u] = ch], roster' = [roster EXCEPT ![u] = {}],
             outbox' = [outbox EXCEPT ![u] = @ \o r], CleanUp(u), UNCHANGED <<room, handler, inbox>>
      PROVE  ProtocolOK'
  <2>1. outbox' \in [Clients -> Seq(Request)]
    BY <1>6, Sends
  <2>2. /\ manager' \in [Clients -> Setups \cup {0}] /\ setup' \in [Clients -> [Setups -> Setup]]
        /\ links' \in [Clients -> [Setups -> [Clients -> LinkStates]]]
    BY <1>6, CleanUpIs
  <2>3. /\ chan' \in [Clients -> Rooms \cup {Nowhere}]
        /\ roster' \in [Clients -> SUBSET Clients]
    BY <1>6 DEF MeshTypeOK
  <2> QED
    BY <1>6, <2>1, <2>2, <2>3 DEF MeshTypeOK
<1>7. ASSUME NEW u \in Clients, LeaveVoice(u) PROVE ProtocolOK'
  <2>1. <<LeaveRequest(u)>> \o Farewell(u) \in Seq(Request)
    BY RequestSets, FarewellIs, Grown
  <2>2. PICK s \in Seq(Request) : outbox' = [outbox EXCEPT ![u] = @ \o s]
    BY <1>7, <2>1, SentIs DEF LeaveVoice
  <2> QED
    BY <1>6, <1>7, <2>2 DEF LeaveVoice
<1>8. ASSUME NEW u \in Clients, NEW ch \in Rooms, JoinVoice(u, ch) PROVE ProtocolOK'
  <2>1. <<JoinRequest(ch)>> \o Farewell(u) \in Seq(Request)
    BY RequestSets, FarewellIs, Grown
  <2>2. PICK s \in Seq(Request) : outbox' = [outbox EXCEPT ![u] = @ \o s]
    BY <1>8, <2>1, SentIs DEF JoinVoice
  <2> QED
    BY <1>6, <1>8, <2>2 DEF JoinVoice
<1>9. ASSUME NEW u \in Clients, NEW n, NEW x \in Setup, setup' = [setup EXCEPT ![u][n] = x],
             inbox' \in {inbox, [inbox EXCEPT ![u] = Tail(@)]}, inbox' # inbox => inbox[u] # <<>>,
             UNCHANGED <<server, outbox, view, manager, links>>
      PROVE  ProtocolOK'
  <2>1. inbox' \in [Clients -> Seq(VoiceEvent)]
    BY <1>9, Hears DEF MeshTypeOK
  <2>2. setup' \in [Clients -> [Setups -> Setup]]
    BY <1>9, SetupChanges
  <2> QED
    BY <1>9, <2>1, <2>2 DEF MeshTypeOK
<1>10. ASSUME NEW u \in Clients, Ignore(u) PROVE ProtocolOK'
  <2>1. CASE UNCHANGED setup
    BY <1>10, <2>1, Hears DEF Ignore, MeshTypeOK
  <2>2. Spent \in Setup
    BY DEF Spent, Setup
  <2> QED
    BY <1>9, <1>10, <2>1, <2>2 DEF Ignore
<1>11. ASSUME NEW u \in Clients, OnResponse(u) PROVE ProtocolOK'
  <2>1. Head(inbox[u]) \in VoiceEvent
    BY <1>11, Hears DEF OnResponse, Arrives
  <2>2. [NoSetup EXCEPT !.stage = "init", !.known = Head(inbox[u]).known] \in Setup
    BY <2>1 DEF NoSetup, VoiceEvent, Setup
  <2> QED
    BY <1>9, <1>11, <2>2 DEF OnResponse, Arrives
<1>12. ASSUME NEW u \in Clients, NEW n \in Setups, AudioReady(u, n) PROVE ProtocolOK'
  <2>1. setup[u][n] \in Setup
    BY DEF MeshTypeOK
  <2>2. [setup[u][n] EXCEPT !.stage = "mic"] \in Setup /\ setup[u][n].known \subseteq Clients
    BY <2>1 DEF Setup
  <2>3. setup' = [setup EXCEPT ![u][n] = [setup[u][n] EXCEPT !.stage = "mic"]]
    BY <1>12 DEF AudioReady, MeshTypeOK
  <2>4. setup' \in [Clients -> [Setups -> Setup]]
    BY <2>2, <2>3, SetupChanges
  <2>5. roster' \in [Clients -> SUBSET Clients] /\ manager' \in [Clients -> Setups \cup {0}]
    BY <1>12, <2>2 DEF AudioReady, MeshTypeOK
  <2> QED
    BY <1>12, <2>4, <2>5 DEF AudioReady, MeshTypeOK
<1>13. ASSUME NEW u \in Clients, NEW n \in Setups, MicReady(u, n) PROVE ProtocolOK'
  <2> DEFINE known == setup[u][n].known \ {u}
  <2>1. known \in SUBSET Clients
    BY DEF MeshTypeOK, Setup
  <2>2. [stage |-> "open", known |-> {}] \in Setup
    BY DEF Setup
  <2>3. setup' \in [Clients -> [Setups -> Setup]]
    BY <1>13, <2>2, SetupChanges DEF MicReady
  <2>4. outbox' \in [Clients -> Seq(Request)]
    <3>1. OffersTo(u, known) \in Seq(Request) /\ Sent(u, OffersTo(u, known))
      BY <1>13, <2>1, OffersAreSignals DEF MicReady
    <3>2. PICK s \in Seq(Request) : outbox' = [outbox EXCEPT ![u] = @ \o s]
      BY <3>1, SentIs
    <3> QED
      BY <3>2, Sends
  <2>5. links[u][n] \in [Clients -> LinkStates] /\ links' = [links EXCEPT ![u][n] = Created(u, links[u][n], known)]
    BY <1>13 DEF MicReady, MeshTypeOK
  <2>6. links' \in [Clients -> [Setups -> [Clients -> LinkStates]]]
    BY <2>5, CreatedIs, LinksChange
  <2> QED
    BY <1>13, <2>3, <2>4, <2>6 DEF MicReady, MeshTypeOK
<1>14. ASSUME NEW u \in Clients, NEW n \in Setups, MicDenied(u, n) \/ AudioFails(u, n)
       PROVE  ProtocolOK'
  <2>1. [stage |-> "denied", known |-> {}] \in Setup
    BY DEF Setup
  <2>2. setup[u][n] \in Setup
    BY DEF MeshTypeOK
  <2>3. [setup[u][n] EXCEPT !.stage = "failed"] \in Setup
    BY <2>2 DEF Setup
  <2>4. \E x \in Setup : setup' = [setup EXCEPT ![u][n] = x]
    <3>1. CASE MicDenied(u, n)
      BY <2>1, <3>1 DEF MicDenied
    <3>2. CASE AudioFails(u, n)
      <4>1. setup' = [setup EXCEPT ![u][n] = [setup[u][n] EXCEPT !.stage = "failed"]]
        BY <3>2 DEF AudioFails, MeshTypeOK
      <4> QED
        BY <2>3, <4>1
    <3> QED
      BY <1>14, <3>1, <3>2
  <2>5. /\ UNCHANGED <<room, handler, outbox, inbox, chan, roster, manager, links,
                       wire, astray, joinsLeft, leavesLeft>>
        /\ GoesWrong
    BY <1>14 DEF MicDenied, AudioFails, bounds
  <2>6. setup' \in [Clients -> [Setups -> Setup]]
    BY <2>4, SetupChanges
  <2> QED
    BY <2>5, <2>6 DEF MeshTypeOK
<1>15. ASSUME NEW u \in Clients, OnJoined(u) PROVE ProtocolOK'
  <2> DEFINE v == Head(inbox[u]).from
             n == manager[u]
  <2>1. v \in Clients /\ inbox' \in [Clients -> Seq(VoiceEvent)]
    BY <1>15, Hears DEF OnJoined, Arrives, VoiceEvent
  <2>2. roster' \in [Clients -> SUBSET Clients]
    BY <1>15, <2>1 DEF OnJoined, MeshTypeOK
  <2>3. CASE UNCHANGED <<links, outbox>>
    BY <1>15, <2>1, <2>2, <2>3 DEF OnJoined, MeshTypeOK
  <2>4. CASE n # 0 /\ links' = [links EXCEPT ![u][n] = Created(u, @, {v})]
             /\ Sent(u, OffersTo(u, {v}))
    <3>1. n \in Setups
      BY <2>4 DEF MeshTypeOK
    <3>2. links[u][n] \in [Clients -> LinkStates] /\ links' = [links EXCEPT ![u][n] = Created(u, links[u][n], {v})]
      BY <2>4, <3>1 DEF MeshTypeOK
    <3>3. links' \in [Clients -> [Setups -> [Clients -> LinkStates]]]
      BY <3>1, <3>2, CreatedIs, LinksChange
    <3>4. outbox' \in [Clients -> Seq(Request)]
      <4>1. OffersTo(u, {v}) \in Seq(Request)
        BY <2>1, OffersAreSignals
      <4>2. PICK s \in Seq(Request) : outbox' = [outbox EXCEPT ![u] = @ \o s]
        BY <2>4, <4>1, SentIs
      <4> QED
        BY <4>2, Sends
    <3> QED
      BY <1>15, <2>1, <2>2, <3>3, <3>4 DEF OnJoined, MeshTypeOK
  <2> QED
    BY <1>15, <2>3, <2>4 DEF OnJoined
<1>16. ASSUME NEW u \in Clients, OnLeft(u) \/ OnOffer(u) \/ OnAnswer(u) PROVE ProtocolOK'
  <2> DEFINE v == Head(inbox[u]).from
             n == manager[u]
  <2>1. v \in Clients /\ inbox' \in [Clients -> Seq(VoiceEvent)]
    BY <1>16, Hears DEF OnLeft, OnOffer, OnAnswer, Arrives, VoiceEvent
  <2>2. links' \in [Clients -> [Setups -> [Clients -> LinkStates]]]
    <3>1. CASE UNCHANGED links
      BY <3>1 DEF MeshTypeOK
    <3>2. CASE n # 0 /\ \E x \in LinkStates : links' = [links EXCEPT ![u][n][v] = x]
      <4>1. n \in Setups
        BY <3>2 DEF MeshTypeOK
      <4>2. PICK x \in LinkStates : links' = [links EXCEPT ![u][n][v] = x]
        BY <3>2
      <4> HIDE DEF v, n
      <4> QED
        BY <2>1, <4>1, <4>2, LinkChanges
    <3>3. "none" \in LinkStates /\ "stable" \in LinkStates
      BY DEF LinkStates
    <3>4. \/ UNCHANGED links
          \/ n # 0 /\ links' = [links EXCEPT ![u][n][v] = "none"]
          \/ n # 0 /\ links' = [links EXCEPT ![u][n][v] = "stable"]
      BY <1>16 DEF OnLeft, OnOffer, OnAnswer
    <3> QED
      BY <3>1, <3>2, <3>3, <3>4
  <2>3. outbox' \in [Clients -> Seq(Request)]
    <3>1. <<Signal("answer", v)>> \in Seq(Request)
      BY <2>1, RequestSets
    <3>2. UNCHANGED outbox \/ Sent(u, <<Signal("answer", v)>>)
      BY <1>16 DEF OnLeft, OnOffer, OnAnswer
    <3>3. UNCHANGED outbox \/ \E s \in Seq(Request) : outbox' = [outbox EXCEPT ![u] = @ \o s]
      BY <3>1, <3>2, SentIs
    <3> QED
      BY <3>3, Sends DEF MeshTypeOK
  <2>4. roster' \in [Clients -> SUBSET Clients]
    <3>1. UNCHANGED roster \/ roster' = [roster EXCEPT ![u] = roster[u] \ {v}]
      BY <1>16 DEF OnLeft, OnOffer, OnAnswer, MeshTypeOK
    <3>2. roster \in [Clients -> SUBSET Clients]
      BY DEF MeshTypeOK
    <3> HIDE DEF v
    <3>3. CASE UNCHANGED roster
      BY <3>2, <3>3
    <3>4. CASE roster' = [roster EXCEPT ![u] = roster[u] \ {v}]
      <4>1. roster[u] \ {v} \in SUBSET Clients
        BY <3>2
      <4> QED
        BY <3>2, <3>4, <4>1
    <3> QED
      BY <3>1, <3>3, <3>4
  <2> QED
    BY <1>16, <2>1, <2>2, <2>3, <2>4 DEF OnLeft, OnOffer, OnAnswer, MeshTypeOK
<1>17. CASE UNCHANGED meshVars
  BY <1>17 DEF meshVars, MeshTypeOK
<1>18. ASSUME NEW u \in Clients, LookUpFails(u) PROVE ProtocolOK'
  <2>1. outbox' \in [Clients -> Seq(Request)]
    BY <1>18, WorksOff DEF LookUpFails, Reading
  <2> QED
    BY <1>18, <2>1 DEF LookUpFails, MeshTypeOK
<1>19. ASSUME NEW u \in Clients, SocketLost(u) PROVE ProtocolOK'
  <2>1. outbox' \in [Clients -> Seq(Request)] /\ room' \in [Rooms -> SUBSET Clients]
    BY <1>19 DEF SocketLost, MeshTypeOK
  <2>2. /\ Event("left", u) \in VoiceEvent /\ <<>> \in Seq(VoiceEvent)
        /\ \A v \in Clients : inbox[v] \in Seq(VoiceEvent)
    BY EventsAre DEF MeshTypeOK
  <2>3. inbox' \in [Clients -> Seq(VoiceEvent)]
    BY <1>19, <2>2, Appended DEF SocketLost
  <2> QED
    BY <1>19, <2>1, <2>3 DEF SocketLost, MeshTypeOK
<1>20. ASSUME NEW u \in Clients, SocketBack(u) PROVE ProtocolOK'
  BY <1>20 DEF SocketBack, MeshTypeOK
<1>21. ASSUME NEW u \in Clients, NEW n \in Setups, NEW v \in Clients, IceFails(u, n, v) \/ PeerGone(u, n, v)
       PROVE  ProtocolOK'
  <2>1. \E x \in {"none", "restarting"} : links' = [links EXCEPT ![u][n][v] = x]
    BY <1>21 DEF IceFails, PeerGone
  <2>2. links' \in [Clients -> [Setups -> [Clients -> LinkStates]]]
    <3>1. PICK x \in {"none", "restarting"} : links' = [links EXCEPT ![u][n][v] = x]
      BY <2>1
    <3>2. x \in LinkStates
      BY DEF LinkStates
    <3> QED
      BY <3>1, <3>2, LinkChanges
  <2>3. <<Signal("offer", v)>> \in Seq(Request)
    BY RequestSets
  <2>4. UNCHANGED outbox \/ \E s \in Seq(Request) : outbox' = [outbox EXCEPT ![u] = @ \o s]
    <3>1. UNCHANGED outbox \/ Sent(u, <<Signal("offer", v)>>)
      BY <1>21 DEF IceFails, PeerGone
    <3> QED
      BY <2>3, <3>1, SentIs
  <2>5. outbox' \in [Clients -> Seq(Request)]
    BY <2>4, Sends DEF MeshTypeOK
  <2> QED
    BY <1>21, <2>2, <2>5 DEF IceFails, PeerGone, MeshTypeOK
<1> QED
  BY <1>1, <1>2, <1>3, <1>4, <1>5, <1>7, <1>8, <1>10, <1>11, <1>12, <1>13, <1>14, <1>15, <1>16, <1>17,
     <1>18, <1>19, <1>20, <1>21
     DEF MeshNext, ServerStep, ClientStep, UserStep, Mishap

-----------------------------------------------------------------------------
(* The room a client is in.                                                  *)

JoinAt(q, k) == q[k].type = "join"
NoJoin(q) == \A k \in DOMAIN q : ~JoinAt(q, k)

(* The sweep before a join has taken the client out of all rooms; then it is *)
(* in the one it has entered.                                                *)
InOneRoom(u) == \A ch \in Rooms :
  /\ handler[u].step = "swept" => u \notin room[ch]
  /\ handler[u].step = "entered" => (u \in room[ch] <=> ch = handler[u].channel)

(* A request to join names a channel, and a request to leave none.           *)
RequestsName(u) == \A k \in DOMAIN outbox[u] :
  /\ JoinAt(outbox[u], k) => outbox[u][k].channel \in Rooms
  /\ outbox[u][k].type = "leave" => outbox[u][k].channel = Nowhere

(* The last join on its way is for the channel the client is in ...          *)
LastJoinNames(u) == chan[u] # Nowhere => \A k \in DOMAIN outbox[u] :
  JoinAt(outbox[u], k) /\ (\A j \in DOMAIN outbox[u] : j > k => ~JoinAt(outbox[u], j))
    => outbox[u][k].channel = chan[u]

(* ... and when none is and none has failed, the server has the client there *)
(* or, if the channel has a limit, nowhere.                                  *)
Placed(u) == chan[u] # Nowhere => \A ch \in Rooms :
  IF ch = chan[u] THEN u \in room[ch] \/ Seats[ch] > 0 ELSE u \notin room[ch]

(* A client without a socket has nothing on its way.                         *)
Down(u) == ~wire[u] => u \in astray /\ outbox[u] = <<>>

Following(u) ==
  /\ Working(u) /\ InOneRoom(u) /\ RequestsName(u) /\ LastJoinNames(u) /\ Down(u)
  /\ NoJoin(outbox[u]) /\ u \notin astray => Placed(u)

RoomInv == MeshTypeOK /\ \A u \in Clients : Following(u)

(* The steps of others leave a client where it is.                           *)
LEMMA OthersFollow ==
  ASSUME NEW u \in Clients, Following(u), outbox'[u] = outbox[u], handler'[u] = handler[u],
         chan'[u] = chan[u], \A ch \in Rooms : u \in room'[ch] <=> u \in room[ch],
         u \in astray' <=> u \in astray, wire'[u] \/ ~wire[u]
  PROVE  Following(u)'
  BY DEF Following, Working, InOneRoom, RequestsName, LastJoinNames, NoJoin, JoinAt, Placed, Down

(* A request is worked off.                                                  *)
LEMMA FollowsTaken ==
  ASSUME MeshTypeOK, NEW u \in Clients, Following(u), outbox[u] # <<>>,
         outbox'[u] = Tail(outbox[u]), chan'[u] = chan[u]
  PROVE  /\ RequestsName(u)' /\ LastJoinNames(u)'
         /\ NoJoin(outbox'[u]) /\ ~JoinAt(outbox[u], 1) => NoJoin(outbox[u])
         /\ NoJoin(outbox'[u]) /\ JoinAt(outbox[u], 1) /\ chan[u] # Nowhere
              => outbox[u][1].channel = chan[u]
<1> DEFINE q == outbox[u]
           t == outbox'[u]
<1>1. /\ Len(q) \in Nat \ {0} /\ DOMAIN q = 1..Len(q) /\ DOMAIN t = 1..(Len(q) - 1)
      /\ \A k \in 1..(Len(q) - 1) : t[k] = q[k + 1]
  BY Taken DEF MeshTypeOK
<1>2. \A k \in DOMAIN t : k + 1 \in DOMAIN q /\ t[k] = q[k + 1]
  BY <1>1
<1>3. \A j \in DOMAIN q : j = 1 \/ (j - 1 \in DOMAIN t /\ q[j] = t[j - 1])
  BY <1>1
<1>4. RequestsName(u)'
  BY <1>2 DEF Following, RequestsName, JoinAt
<1>5. ASSUME NEW k \in DOMAIN t, \A j \in DOMAIN t : j > k => ~JoinAt(t, j)
      PROVE  \A j \in DOMAIN q : j > k + 1 => ~JoinAt(q, j)
  <2> SUFFICES ASSUME NEW j \in DOMAIN q, j > k + 1 PROVE ~JoinAt(q, j)
    OBVIOUS
  <2>1. k \in Int /\ j \in Int /\ j # 1
    BY <1>1
  <2>2. j - 1 \in DOMAIN t /\ q[j] = t[j - 1] /\ j - 1 > k
    BY <1>3, <2>1
  <2> QED
    BY <1>5, <2>2 DEF JoinAt
<1>6. LastJoinNames(u)'
  <2> SUFFICES ASSUME chan[u] # Nowhere, NEW k \in DOMAIN t, JoinAt(t, k),
                      \A j \in DOMAIN t : j > k => ~JoinAt(t, j)
               PROVE  t[k].channel = chan[u]
    BY DEF LastJoinNames
  <2>1. /\ k + 1 \in DOMAIN q /\ JoinAt(q, k + 1) /\ t[k] = q[k + 1]
        /\ \A j \in DOMAIN q : j > k + 1 => ~JoinAt(q, j)
    BY <1>2, <1>5 DEF JoinAt
  <2> QED
    BY <2>1 DEF Following, LastJoinNames
<1>7. ASSUME NoJoin(t) PROVE \A j \in DOMAIN q : j # 1 => ~JoinAt(q, j)
  BY <1>3, <1>7 DEF NoJoin, JoinAt
<1>8. 1 \in DOMAIN q /\ \A j \in DOMAIN q : j > 1 => j # 1
  BY <1>1
<1> QED
  BY <1>4, <1>6, <1>7, <1>8 DEF Following, LastJoinNames, NoJoin

(* Requests are sent, none to join.                                          *)
LEMMA FollowsSent ==
  ASSUME MeshTypeOK, NEW u \in Clients, Following(u), NEW r \in Seq(Request),
         outbox'[u] = outbox[u] \o r, handler'[u] = handler[u], room' = room,
         chan'[u] \in {chan[u], Nowhere}, UNCHANGED <<astray, wire>>, wire[u] \/ r = <<>>,
         \A k \in DOMAIN r : r[k].type # "join" /\ (r[k].type = "leave" => r[k].channel = Nowhere)
  PROVE  Following(u)'
<1> DEFINE q == outbox[u]
           t == outbox'[u]
<1>1. /\ Len(q) \in Nat /\ Len(r) \in Nat /\ DOMAIN q = 1..Len(q) /\ DOMAIN r = 1..Len(r)
      /\ DOMAIN t = 1..(Len(q) + Len(r))
      /\ \A k \in 1..Len(q) : t[k] = q[k]
      /\ \A k \in 1..Len(r) : t[Len(q) + k] = r[k]
  BY Grown DEF MeshTypeOK
<1>2. \A k \in DOMAIN t : k \in DOMAIN q \/ (k - Len(q) \in DOMAIN r /\ t[k] = r[k - Len(q)])
  BY <1>1
<1>3. \A k \in DOMAIN q : k \in DOMAIN t /\ t[k] = q[k]
  BY <1>1
<1>4. \A k \in DOMAIN t : JoinAt(t, k) => k \in DOMAIN q
  BY <1>2 DEF JoinAt
<1>5. RequestsName(u)'
  BY <1>2, <1>3 DEF Following, RequestsName, JoinAt
<1>6. LastJoinNames(u)'
  BY <1>3, <1>4 DEF Following, LastJoinNames, JoinAt
<1>7. NoJoin(t) => NoJoin(q)
  BY <1>3 DEF NoJoin, JoinAt
<1>8. q # <<>> => t # <<>> /\ t[1] = q[1]
  <2>1. q # <<>> => 1 \in DOMAIN q
    BY <1>1, Taken DEF MeshTypeOK
  <2> QED
    BY <1>3, <2>1
<1>9. Working(u)' /\ InOneRoom(u)'
  BY <1>8 DEF Following, Working, InOneRoom
<1>10. Down(u)'
  <2>1. <<>> \o <<>> = <<>>
    OBVIOUS
  <2> QED
    BY <2>1 DEF Following, Down
<1> QED
  BY <1>5, <1>6, <1>7, <1>9, <1>10 DEF Following, Placed

LEMMA RoomInit == MeshInit => RoomInv
<1> SUFFICES ASSUME MeshInit PROVE RoomInv
  OBVIOUS
<1>1. NoRequest \in Handling /\ NoSetup \in Setup /\ NoLinks \in [Clients -> LinkStates]
  BY DEF NoRequest, Handling, NoSetup, Setup, NoLinks, LinkStates
<1>2. <<>> \in Seq(Request) /\ <<>> \in Seq(VoiceEvent)
  OBVIOUS
<1>3. MeshTypeOK
  BY <1>1, <1>2, JoinsAssumption, LeavesAssumption, MishapsAssumption DEF MeshInit, MeshTypeOK
<1>4. ASSUME NEW u \in Clients PROVE Following(u)
  <2>1. outbox[u] = <<>> /\ handler[u].step = "idle" /\ chan[u] = Nowhere /\ wire[u]
    BY DEF MeshInit, NoRequest
  <2> QED
    BY <2>1 DEF Following, Working, InOneRoom, RequestsName, LastJoinNames, NoJoin, Placed, Down
<1> QED
  BY <1>3, <1>4 DEF RoomInv

LEMMA RoomStep == RoomInv /\ [MeshNext]_meshVars => RoomInv'
<1> SUFFICES ASSUME RoomInv, [MeshNext]_meshVars PROVE RoomInv'
  OBVIOUS
<1> USE DEF server, view, call
<1>1. MeshTypeOK /\ MeshTypeOK' /\ AtWork /\ \A u \in Clients : Following(u)
  BY MeshTypeStep DEF RoomInv, Following, AtWork
<1>2. ASSUME NEW u \in Clients, Following(u)',
             \A v \in Clients : v # u =>
               /\ outbox'[v] = outbox[v] /\ handler'[v] = handler[v] /\ chan'[v] = chan[v]
               /\ \A ch \in Rooms : v \in room'[ch] <=> v \in room[ch]
               /\ v \in astray' <=> v \in astray
               /\ wire'[v] \/ ~wire[v]
      PROVE  RoomInv'
  BY <1>1, <1>2, OthersFollow DEF RoomInv
<1>3. ASSUME NEW u \in Clients, Sweep(u) PROVE RoomInv'
  <2>1. outbox[u] # <<>> /\ outbox[u][1].type = "join" /\ Head(outbox[u]) = outbox[u][1] /\ 1 \in DOMAIN outbox[u]
    BY <1>1, <1>3, Taken DEF Sweep, Reading, MeshTypeOK
  <2>2. /\ handler'[u].step = "swept" /\ handler'[u].channel = outbox[u][1].channel
        /\ UNCHANGED <<outbox, chan, wire>> /\ \A ch \in Rooms : u \notin room'[ch]
        /\ \A v \in Clients : v # u => (v \in astray' <=> v \in astray)
    BY <1>1, <1>3, <2>1 DEF Sweep, MeshTypeOK
  <2>3. ~NoJoin(outbox[u]) /\ outbox[u][1].channel \in Rooms
    BY <1>1, <2>1 DEF Following, NoJoin, JoinAt, RequestsName
  <2>4. Following(u)'
    BY <1>1, <2>1, <2>2, <2>3 DEF Following, Working, InOneRoom, RequestsName, LastJoinNames, Down
  <2>5. \A v \in Clients : v # u => handler'[v] = handler[v] /\ \A ch \in Rooms : v \in room'[ch] <=> v \in room[ch]
    BY <1>1, <1>3 DEF Sweep, MeshTypeOK
  <2> QED
    BY <1>2, <2>2, <2>4, <2>5
<1>4. ASSUME NEW u \in Clients, Enter(u) PROVE RoomInv'
  <2> DEFINE ch == handler[u].channel
  <2>1. /\ handler[u].step = "swept" /\ ch \in Rooms /\ outbox[u] # <<>> /\ outbox[u][1].type = "join"
        /\ outbox[u][1].channel = ch
    BY <1>1, <1>4 DEF Enter, AtWork, Working
  <2>2. 1 \in DOMAIN outbox[u]
    BY <1>1, <2>1, Taken DEF MeshTypeOK
  <2>3. /\ handler'[u].step = "entered" /\ handler'[u].channel = ch
        /\ UNCHANGED <<outbox, chan, wire, astray>>
    BY <1>1, <1>4 DEF Enter, MeshTypeOK, Handling
  <2>4. room' = [room EXCEPT ![ch] = @ \cup {u}] /\ room \in [Rooms -> SUBSET Clients]
    BY <1>1, <1>4 DEF Enter, MeshTypeOK
  <2>5. \A x \in Rooms : /\ u \in room'[x] <=> x = ch \/ u \in room[x]
                         /\ \A v \in Clients : v # u => (v \in room'[x] <=> v \in room[x])
    BY <2>1, <2>4
  <2>6. \A x \in Rooms : u \in room'[x] <=> x = ch
    BY <1>1, <2>1, <2>5 DEF Following, InOneRoom
  <2>7. ~NoJoin(outbox[u])
    BY <2>1, <2>2 DEF NoJoin, JoinAt
  <2>8. Following(u)'
    BY <1>1, <2>1, <2>3, <2>6, <2>7 DEF Following, Working, InOneRoom, RequestsName, LastJoinNames, Down
  <2>9. \A v \in Clients : v # u => handler'[v] = handler[v]
    BY <1>1, <1>4 DEF Enter, MeshTypeOK
  <2> QED
    BY <1>2, <2>3, <2>5, <2>8, <2>9
<1>5. ASSUME NEW u \in Clients, Refuse(u) \/ Reply(u) PROVE RoomInv'
  <2> DEFINE ch == handler[u].channel
  <2>1. /\ handler[u].step \in {"swept", "entered"} /\ ch \in Rooms /\ outbox[u] # <<>>
        /\ outbox[u][1].type = "join" /\ outbox[u][1].channel = ch
    BY <1>1, <1>5 DEF Refuse, Reply, AtWork, Working
  <2>2. /\ outbox'[u] = Tail(outbox[u]) /\ \A v \in Clients : v # u => outbox'[v] = outbox[v]
        /\ UNCHANGED <<room, chan, wire, astray>>
    <3>1. Done(u)
      BY <1>5 DEF Refuse, Reply
    <3>2. UNCHANGED <<room, chan, wire, astray>>
      BY <1>5 DEF Refuse, Reply, luck
    <3> QED
      BY <1>1, <2>1, <3>1, <3>2, WorksOff
  <2>3. handler'[u].step = "idle" /\ \A v \in Clients : v # u => handler'[v] = handler[v]
    <3>1. handler' = [handler EXCEPT ![u] = NoRequest] /\ handler \in [Clients -> Handling]
      BY <1>1, <1>5 DEF Refuse, Reply, MeshTypeOK
    <3> QED
      BY <3>1 DEF NoRequest
  <2>4. /\ RequestsName(u)' /\ LastJoinNames(u)'
        /\ NoJoin(outbox'[u]) /\ chan[u] # Nowhere => ch = chan[u]
    BY <1>1, <2>1, <2>2, FollowsTaken DEF JoinAt
  <2>5. /\ \A x \in Rooms : x # ch => u \notin room[x]
        /\ u \in room[ch] \/ Seats[ch] > 0
    BY <1>1, <1>5, <2>1 DEF Following, InOneRoom, Refuse, Reply, IsFull
  <2>6. Following(u)'
    <3>1. Down(u)'
      BY <1>1, <2>1, <2>2 DEF Following, Down
    <3> QED
      BY <2>1, <2>2, <2>3, <2>4, <2>5, <3>1 DEF Following, Working, InOneRoom, Placed
  <2> QED
    BY <1>2, <2>2, <2>3, <2>6
<1>6. ASSUME NEW u \in Clients, LeaveRoom(u) \/ Relay(u) PROVE RoomInv'
  <2>1. /\ outbox[u] # <<>> /\ Head(outbox[u]) = outbox[u][1] /\ 1 \in DOMAIN outbox[u]
        /\ outbox[u][1].type # "join" /\ handler[u].step = "idle"
    BY <1>1, <1>6, Taken DEF LeaveRoom, Relay, Reading, MeshTypeOK
  <2>2. /\ outbox'[u] = Tail(outbox[u]) /\ \A v \in Clients : v # u => outbox'[v] = outbox[v]
        /\ UNCHANGED <<handler, chan, wire, astray>>
    BY <1>1, <1>6, <2>1, WorksOff DEF LeaveRoom, Relay, luck
  <2>3. \A x \in Rooms : room'[x] = room[x]
    <3>1. CASE Relay(u)
      BY <3>1 DEF Relay
    <3>2. CASE LeaveRoom(u)
      <4>1. outbox[u][1].channel = Nowhere
        BY <1>1, <2>1, <3>2 DEF Following, RequestsName, LeaveRoom, Reading
      <4> QED
        BY <2>1, <3>2, <4>1, RoomsAssumption DEF LeaveRoom
    <3> QED
      BY <1>6, <3>1, <3>2
  <2>4. RequestsName(u)' /\ LastJoinNames(u)' /\ (NoJoin(outbox'[u]) => NoJoin(outbox[u]))
    BY <1>1, <2>1, <2>2, FollowsTaken DEF JoinAt
  <2>5. Following(u)'
    <3>1. Down(u)'
      BY <1>1, <2>1, <2>2 DEF Following, Down
    <3> QED
      BY <1>1, <2>1, <2>2, <2>3, <2>4, <3>1 DEF Following, Working, InOneRoom, Placed
  <2> QED
    BY <1>2, <2>2, <2>3, <2>5
<1>7. ASSUME NEW u \in Clients, NEW r \in Seq(Request), outbox' = [outbox EXCEPT ![u] = @ \o r],
             UNCHANGED <<room, handler, wire, astray>>, wire[u] \/ r = <<>>,
             chan' \in {chan, [chan EXCEPT ![u] = Nowhere]},
             \A k \in DOMAIN r : r[k].type # "join" /\ (r[k].type = "leave" => r[k].channel = Nowhere)
      PROVE  RoomInv'
  <2>1. outbox'[u] = outbox[u] \o r /\ \A v \in Clients : v # u => outbox'[v] = outbox[v]
    BY <1>1, <1>7, Sends
  <2>2. chan'[u] \in {chan[u], Nowhere} /\ \A v \in Clients : v # u => chan'[v] = chan[v]
    BY <1>1, <1>7 DEF MeshTypeOK
  <2>3. Following(u)'
    BY <1>1, <1>7, <2>1, <2>2, FollowsSent
  <2> QED
    BY <1>2, <1>7, <2>1, <2>2, <2>3
<1>8. ASSUME UNCHANGED <<room, handler, outbox, chan, wire, astray>> PROVE RoomInv'
  BY <1>1, <1>8, OthersFollow DEF RoomInv
<1>9. ASSUME NEW u \in Clients, LeaveVoice(u) PROVE RoomInv'
  <2> DEFINE r == <<LeaveRequest(u)>> \o Farewell(u)
  <2>1. r \in Seq(Departures) /\ Sent(u, r)
    BY <1>9, RequestSets, FarewellIs, Grown DEF LeaveVoice
  <2> HIDE DEF r
  <2>2. PICK s \in Seq(Departures) : /\ outbox' = [outbox EXCEPT ![u] = @ \o s]
                                    /\ (wire[u] \/ s = <<>>)
    BY <2>1, SentIs
  <2>3. \A k \in DOMAIN s : s[k] \in Departures
    OBVIOUS
  <2>4. \A k \in DOMAIN s : s[k].type = "leave" /\ s[k].channel = Nowhere
    BY <2>3 DEF Departures
  <2>5. s \in Seq(Request)
    BY RequestSets, Wider
  <2> QED
    BY <1>7, <1>9, <2>2, <2>4, <2>5 DEF LeaveVoice
<1>10. ASSUME NEW u \in Clients, NEW r \in Seq(Signals), Sent(u, r),
              UNCHANGED <<room, handler, chan, wire, astray>>
       PROVE  RoomInv'
  <2>1. PICK s \in Seq(Signals) : /\ outbox' = [outbox EXCEPT ![u] = @ \o s]
                                  /\ (wire[u] \/ s = <<>>)
    BY <1>10, SentIs
  <2>2. \A k \in DOMAIN s : s[k] \in Signals
    OBVIOUS
  <2>3. \A k \in DOMAIN s : s[k].type # "join" /\ s[k].type # "leave"
    BY <2>2 DEF Signals
  <2>4. s \in Seq(Request)
    BY RequestSets, Wider
  <2> QED
    BY <1>7, <1>10, <2>1, <2>3, <2>4
<1>11. ASSUME NEW u \in Clients, ClientStep(u) PROVE RoomInv'
  <2>1. CASE \/ Ignore(u) \/ OnResponse(u) \/ OnLeft(u) \/ OnAnswer(u)
             \/ \E n \in Setups : AudioReady(u, n) \/ AudioFails(u, n) \/ MicDenied(u, n)
    BY <1>8, <2>1 DEF Ignore, OnResponse, OnLeft, OnAnswer, AudioReady, AudioFails, MicDenied, luck
  <2>2. ASSUME NEW n \in Setups, MicReady(u, n) PROVE RoomInv'
    <3>1. OffersTo(u, setup[u][n].known \ {u}) \in Seq(Signals)
      BY <1>1, OffersAreSignals DEF MeshTypeOK, Setup
    <3> QED
      BY <1>10, <2>2, <3>1 DEF MicReady, luck
  <2>3. ASSUME OnJoined(u) \/ OnOffer(u) PROVE Head(inbox[u]).from \in Clients
    BY <1>1, <2>3, Hears DEF OnJoined, OnOffer, Arrives, VoiceEvent
  <2>4. CASE OnJoined(u)
    <3>1. OffersTo(u, {Head(inbox[u]).from}) \in Seq(Signals)
      BY <2>3, <2>4, OffersAreSignals
    <3> QED
      BY <1>8, <1>10, <2>4, <3>1 DEF OnJoined, luck
  <2>5. CASE OnOffer(u)
    <3>1. <<Signal("answer", Head(inbox[u]).from)>> \in Seq(Signals)
      BY <2>3, <2>5, RequestSets
    <3> QED
      BY <1>8, <1>10, <2>5, <3>1 DEF OnOffer, luck
  <2> QED
    BY <1>11, <2>1, <2>2, <2>4, <2>5 DEF ClientStep
<1>12. ASSUME NEW u \in Clients, NEW ch \in Rooms, JoinVoice(u, ch) PROVE RoomInv'
  <2> DEFINE r == <<JoinRequest(ch)>> \o Farewell(u)
             q == outbox[u]
             t == outbox'[u]
  <2>1. /\ Farewell(u) \in Seq(Departures) /\ Farewell(u) \in Seq(Request)
        /\ <<JoinRequest(ch)>> \in Seq(Request) /\ r \in Seq(Request)
    BY RequestSets, FarewellIs, Grown
  <2>2. /\ r[1] = JoinRequest(ch) /\ Len(r) \in Nat \ {0} /\ DOMAIN r = 1..Len(r)
        /\ \A k \in DOMAIN r : k # 1 => r[k] \in Departures
    <3> HIDE DEF JoinRequest, Request
    <3> QED
      BY <2>1, Grown
  <2>3. t = q \o r /\ \A v \in Clients : v # u => outbox'[v] = outbox[v]
    <3>1. outbox' = [outbox EXCEPT ![u] = @ \o r]
      <4> HIDE DEF r
      <4>1. Sent(u, r) /\ wire[u]
        BY <1>12 DEF JoinVoice, r
      <4> QED
        BY <2>1, <4>1, SentIs
    <3> QED
      BY <1>1, <2>1, <3>1, Sends
  <2>4. /\ UNCHANGED <<room, handler, wire, astray>> /\ wire[u]
        /\ chan'[u] = ch /\ \A v \in Clients : v # u => chan'[v] = chan[v]
    BY <1>1, <1>12 DEF JoinVoice, MeshTypeOK
  <2>5. /\ Len(q) \in Nat /\ DOMAIN q = 1..Len(q) /\ DOMAIN t = 1..(Len(q) + Len(r))
        /\ \A k \in 1..Len(q) : t[k] = q[k]
        /\ \A k \in 1..Len(r) : t[Len(q) + k] = r[k]
    <3> HIDE DEF r
    <3> QED
      BY <1>1, <2>1, <2>2, <2>3, Grown DEF MeshTypeOK
  <2> DEFINE l == Len(q) + 1
  <2> HIDE DEF r, t, q
  <2>6. /\ 1 \in 1..Len(r) /\ l \in DOMAIN t /\ t[l] = r[1]
        /\ \A k \in DOMAIN q : k < l /\ k \in DOMAIN t
    BY <2>2, <2>5
  <2>7. l \in DOMAIN t /\ t[l] = JoinRequest(ch) /\ \A k \in DOMAIN q : k < l /\ k \in DOMAIN t /\ t[k] = q[k]
    BY <2>2, <2>5, <2>6
  <2>8. \A k \in DOMAIN t : k \in DOMAIN q \/ k = l \/ (k > l /\ t[k] \in Departures)
    <3> SUFFICES ASSUME NEW k \in DOMAIN t, k \notin DOMAIN q, k # l
                 PROVE  k > l /\ t[k] \in Departures
      OBVIOUS
    <3>1. k - Len(q) \in 1..Len(r) /\ k - Len(q) # 1 /\ k > l /\ k = Len(q) + (k - Len(q))
      BY <2>5
    <3>2. t[k] = r[k - Len(q)]
      BY <2>5, <3>1
    <3> QED
      BY <2>2, <3>1, <3>2
  <2> HIDE DEF l
  <2>9. JoinAt(t, l) /\ t[l].channel = ch /\ t[l].type # "leave"
    BY <2>7 DEF JoinAt, JoinRequest
  <2>10. \A k \in DOMAIN t : t[k] \in Departures => ~JoinAt(t, k) /\ t[k].channel = Nowhere
    BY DEF Departures, JoinAt
  <2>11. RequestsName(u)'
    BY <1>1, <2>7, <2>8, <2>9, <2>10 DEF Following, RequestsName, JoinAt, t, q
  <2>12. LastJoinNames(u)'
    BY <2>4, <2>7, <2>8, <2>9, <2>10 DEF LastJoinNames, JoinAt, t, q
  <2>13. ~NoJoin(t)
    BY <2>7, <2>9 DEF NoJoin
  <2>14. q # <<>> => t # <<>> /\ t[1] = q[1]
    <3>1. q # <<>> => 1 \in DOMAIN q
      BY <1>1, Taken DEF MeshTypeOK, q
    <3>2. DOMAIN <<>> = {}
      OBVIOUS
    <3> QED
      BY <2>7, <3>1, <3>2
  <2>15. Working(u)' /\ InOneRoom(u)'
    BY <1>1, <2>4, <2>14 DEF Following, Working, InOneRoom, t, q
  <2>16. Following(u)'
    BY <2>4, <2>11, <2>12, <2>13, <2>15 DEF Following, Down, t
  <2> QED
    BY <1>2, <2>3, <2>4, <2>16
<1>13. CASE UNCHANGED meshVars
  BY <1>8, <1>13 DEF meshVars
<1>14. ASSUME NEW u \in Clients, LookUpFails(u) PROVE RoomInv'
  <2>1. outbox[u] # <<>> /\ handler[u].step = "idle"
    BY <1>14 DEF LookUpFails, Reading
  <2>2. /\ outbox'[u] = Tail(outbox[u]) /\ \A v \in Clients : v # u => outbox'[v] = outbox[v]
        /\ UNCHANGED <<room, handler, chan, wire>> /\ astray' = astray \cup {u}
    BY <1>1, <1>14, <2>1, WorksOff DEF LookUpFails
  <2>3. RequestsName(u)' /\ LastJoinNames(u)'
    BY <1>1, <2>1, <2>2, FollowsTaken
  <2>4. Following(u)'
    BY <1>1, <2>1, <2>2, <2>3 DEF Following, Working, InOneRoom, Down
  <2> QED
    BY <1>2, <2>2, <2>4
(* What is lost with the socket of a client counts for nothing until it joins*)
(* again.                                                                    *)
<1>15. ASSUME NEW u \in Clients, SocketLost(u) PROVE RoomInv'
  <2>1. /\ outbox'[u] = <<>> /\ \A v \in Clients : v # u => outbox'[v] = outbox[v] /\ wire'[v] = wire[v]
        /\ \A ch \in Rooms : \A v \in Clients : v # u => (v \in room'[ch] <=> v \in room[ch])
        /\ UNCHANGED <<handler, chan>> /\ handler[u].step = "idle" /\ astray' = astray \cup {u}
    BY <1>1, <1>15 DEF SocketLost, MeshTypeOK
  <2>2. Following(u)'
    BY <2>1 DEF Following, Working, InOneRoom, RequestsName, LastJoinNames, Down
  <2> QED
    BY <1>2, <2>1, <2>2
<1>16. ASSUME NEW u \in Clients, SocketBack(u) PROVE RoomInv'
  <2>1. UNCHANGED <<room, handler, outbox, chan, astray>> /\ \A v \in Clients : wire'[v] \/ ~wire[v]
    BY <1>1, <1>16 DEF SocketBack, MeshTypeOK
  <2>2. Following(u)'
    BY <1>1, <2>1, OthersFollow
  <2> QED
    BY <1>2, <2>1, <2>2
<1>17. ASSUME NEW u \in Clients, NEW n \in Setups, NEW v \in Clients, IceFails(u, n, v) \/ PeerGone(u, n, v)
       PROVE  RoomInv'
  <2>1. <<Signal("offer", v)>> \in Seq(Signals)
    BY RequestSets
  <2> QED
    BY <1>8, <1>10, <1>17, <2>1 DEF IceFails, PeerGone
<1> QED
  BY <1>3, <1>4, <1>5, <1>6, <1>9, <1>11, <1>12, <1>13, <1>14, <1>15, <1>16, <1>17
     DEF MeshNext, ServerStep, UserStep, Mishap

(* Every message is one the protocol has, whatever the users do and however  *)
(* the server's tasks run.                                                   *)
THEOREM MeshTypeCorrect == MeshSpec => []MeshTypeOK
<1>1. RoomInv => MeshTypeOK
  BY DEF RoomInv
<1> QED
  BY <1>1, RoomInit, RoomStep, PTL DEF MeshSpec

(* However moves, leaves and joins of a client follow each other, and the    *)
(* leave requests of its clean-ups, the server ends with the client in the   *)
(* channel it shows, or outside if that has a limit, as long as it has not   *)
(* lost its socket, or a join to a failed look-up, since it last began one.  *)
THEOREM RoomAlwaysFollows == MeshSpec => []RoomFollowsClient
<1>1. RoomInv => RoomFollowsClient
  <2> SUFFICES ASSUME RoomInv, Quiet, NEW u \in Clients, u \notin astray PROVE Placed(u)
    BY DEF RoomFollowsClient, Placed
  <2>1. Following(u) /\ outbox[u] = <<>>
    BY DEF RoomInv, Quiet
  <2>2. NoJoin(outbox[u])
    BY <2>1 DEF NoJoin
  <2> QED
    BY <2>1, <2>2 DEF Following
<1> QED
  BY <1>1, RoomInit, RoomStep, PTL DEF MeshSpec

-----------------------------------------------------------------------------
(* Who offers to whom.                                                       *)

OffersFollowIds == \A u, v \in Clients, n \in Setups :
  links[u][n][v] = "have-local-offer" => ShouldOffer(u, v)

(* Only one of two clients should offer to the other, if only the smallest   *)
(* is without an id.                                                         *)
LEMMA OneOffers ==
  ASSUME \A u \in Nameless, v \in Clients : u <= v,
         NEW u \in Clients, NEW v \in Clients, u # v
  PROVE  ~ (ShouldOffer(u, v) /\ ShouldOffer(v, u))
  BY ClientsAssumption DEF ShouldOffer

LEMMA GlareStep ==
  RoomInv /\ OffersFollowIds /\ [MeshNext]_meshVars => OffersFollowIds'
<1> SUFFICES ASSUME RoomInv, OffersFollowIds, [MeshNext]_meshVars PROVE OffersFollowIds'
  OBVIOUS
<1> USE DEF server, view, call
<1>1. MeshTypeOK
  BY DEF RoomInv
<1>2. ASSUME UNCHANGED links PROVE OffersFollowIds'
  BY <1>2 DEF OffersFollowIds, ShouldOffer
<1>3. ASSUME NEW u \in Clients, NEW n \in Setups, NEW who,
             links' = [links EXCEPT ![u][n] = Created(u, @, who)]
      PROVE  OffersFollowIds'
  <2>1. links' = [links EXCEPT ![u][n] = Created(u, links[u][n], who)] /\ links[u][n] \in [Clients -> LinkStates]
    BY <1>1, <1>3 DEF MeshTypeOK
  <2>2. /\ links'[u][n] = Created(u, links[u][n], who)
        /\ \A v \in Clients, m \in Setups : v # u \/ m # n => links'[v][m] = links[v][m]
    <3>1. links \in [Clients -> [Setups -> [Clients -> LinkStates]]]
      BY <1>1 DEF MeshTypeOK
    <3> QED
      BY <2>1, <3>1
  <2>3. \A v \in Clients : links'[u][n][v] = "have-local-offer" =>
          ShouldOffer(u, v) \/ links[u][n][v] = "have-local-offer"
    BY <2>2 DEF Created
  <2> QED
    BY <2>2, <2>3 DEF OffersFollowIds, ShouldOffer
<1>4. ASSUME NEW u \in Clients, NEW n \in Setups, NEW v \in Clients, NEW x \in {"none", "stable", "restarting"},
             links' = [links EXCEPT ![u][n][v] = x]
      PROVE  OffersFollowIds'
  <2>1. x \in LinkStates /\ x # "have-local-offer"
    BY DEF LinkStates
  <2> QED
    BY <1>1, <1>4, <2>1, LinkChanges DEF OffersFollowIds, ShouldOffer
<1>5. ASSUME NEW u \in Clients, CleanUp(u) PROVE OffersFollowIds'
  <2>1. \A v, w \in Clients, m \in Setups : links'[v][m][w] \in {links[v][m][w], "none"}
    BY <1>1, <1>5, CleanUpIs
  <2> QED
    BY <2>1 DEF OffersFollowIds, ShouldOffer
<1>6. CASE UNCHANGED meshVars
  BY <1>2, <1>6 DEF meshVars
<1>7. ASSUME NEW u \in Clients, ServerStep(u) \/ UserStep(u) PROVE OffersFollowIds'
  BY <1>2, <1>5, <1>7
     DEF ServerStep, LookUpFails, Sweep, Enter, Refuse, Reply, LeaveRoom, Relay, UserStep,
         JoinVoice, LeaveVoice
<1>8. ASSUME NEW u \in Clients, ClientStep(u) PROVE OffersFollowIds'
  <2> DEFINE v == Head(inbox[u]).from
             n == manager[u]
  <2>1. CASE \/ Ignore(u) \/ OnResponse(u)
             \/ \E m \in Setups : AudioReady(u, m) \/ AudioFails(u, m) \/ MicDenied(u, m)
    BY <1>2, <2>1 DEF Ignore, OnResponse, AudioReady, AudioFails, MicDenied
  <2>2. ASSUME NEW m \in Setups, MicReady(u, m) PROVE OffersFollowIds'
    BY <1>3, <2>2 DEF MicReady
  <2>3. CASE OnJoined(u)
    <3>1. UNCHANGED links \/ (n # 0 /\ links' = [links EXCEPT ![u][n] = Created(u, @, {v})])
      BY <2>3 DEF OnJoined
    <3>2. n \in Setups \cup {0}
      BY <1>1 DEF MeshTypeOK
    <3> QED
      BY <1>2, <1>3, <3>1, <3>2
  <2>4. CASE OnLeft(u) \/ OnOffer(u) \/ OnAnswer(u)
    <3>1. v \in Clients
      BY <1>1, <2>4, Hears DEF OnLeft, OnOffer, OnAnswer, Arrives, VoiceEvent
    <3>2. \/ UNCHANGED links
          \/ n # 0 /\ links' = [links EXCEPT ![u][n][v] = "none"]
          \/ n # 0 /\ links' = [links EXCEPT ![u][n][v] = "stable"]
      BY <2>4 DEF OnLeft, OnOffer, OnAnswer
    <3>3. n \in Setups \cup {0}
      BY <1>1 DEF MeshTypeOK
    <3> HIDE DEF v, n
    <3> QED
      BY <1>2, <1>4, <3>1, <3>2, <3>3
  <2> QED
    BY <1>8, <2>1, <2>2, <2>3, <2>4 DEF ClientStep
(* A restart is an offer of its own kind.                                    *)
<1>9. ASSUME NEW u \in Clients, Mishap(u) PROVE OffersFollowIds'
  BY <1>2, <1>4, <1>9 DEF Mishap, SocketLost, SocketBack, IceFails, PeerGone
<1> QED
  BY <1>6, <1>7, <1>8, <1>9 DEF MeshNext

(* Two clients both wait for the answers to their offers to each other only  *)
(* if the connection of one has failed, wherever they move and whatever is   *)
(* still on its way, as long as only the one with the smallest id is without *)
(* one.                                                                      *)
THEOREM NeverGlare ==
  (\A u \in Nameless, v \in Clients : u <= v) => (MeshSpec => []NoGlare)
<1> SUFFICES ASSUME \A u \in Nameless, v \in Clients : u <= v PROVE MeshSpec => []NoGlare
  OBVIOUS
<1>1. MeshInit => OffersFollowIds
  BY DEF MeshInit, NoLinks, OffersFollowIds
<1>2. RoomInv /\ OffersFollowIds => NoGlare
  <2> SUFFICES ASSUME RoomInv, OffersFollowIds, NEW u \in Clients, NEW v \in Clients, u # v,
                      Awaits(u, v), Awaits(v, u), "restarting" \notin {LinkOf(u, v), LinkOf(v, u)}
               PROVE  FALSE
    BY DEF NoGlare
  <2>1. LinkOf(u, v) = "have-local-offer" /\ LinkOf(v, u) = "have-local-offer"
    BY DEF Awaits
  <2>2. /\ manager[u] # 0 /\ links[u][manager[u]][v] = "have-local-offer"
        /\ manager[v] # 0 /\ links[v][manager[v]][u] = "have-local-offer"
    BY <2>1 DEF LinkOf
  <2>3. manager[u] \in Setups /\ manager[v] \in Setups
    BY <2>2 DEF RoomInv, MeshTypeOK
  <2> QED
    BY <2>2, <2>3, OneOffers DEF OffersFollowIds
<1> QED
  BY <1>1, <1>2, RoomInit, RoomStep, GlareStep, PTL DEF MeshSpec

-----------------------------------------------------------------------------
(* What a client shows.                                                      *)

(* How many messages of a kind a queue holds.                                *)
LEMMA CountIs ==
  ASSUME NEW T, NEW q \in Seq(T), NEW kind
  PROVE  /\ IsFiniteSet({i \in DOMAIN q : q[i].type = kind})
         /\ Count(q, kind) = Cardinality({i \in DOMAIN q : q[i].type = kind}) /\ Count(q, kind) \in Nat
<1>1. IsFiniteSet(DOMAIN q)
  <2>1. DOMAIN q = 1..Len(q) /\ Len(q) \in Nat
    OBVIOUS
  <2> QED
    BY <2>1, FS_Interval
<1>2. IsFiniteSet({i \in DOMAIN q : q[i].type = kind})
  BY <1>1, FS_Subset
<1> QED
  BY <1>2, FS_CardinalityType DEF Count

LEMMA CountTaken ==
  ASSUME NEW T, NEW q \in Seq(T), q # <<>>, NEW kind
  PROVE  Count(Tail(q), kind) = IF q[1].type = kind THEN Count(q, kind) - 1 ELSE Count(q, kind)
<1> DEFINE A == {i \in DOMAIN q : q[i].type = kind}
           B == {i \in DOMAIN Tail(q) : Tail(q)[i].type = kind}
           f == [i \in B |-> i + 1]
<1>1. /\ Len(q) \in Nat \ {0} /\ DOMAIN q = 1..Len(q) /\ DOMAIN Tail(q) = 1..(Len(q) - 1)
      /\ \A k \in 1..(Len(q) - 1) : Tail(q)[k] = q[k + 1]
      /\ Tail(q) \in Seq(T)
  BY Taken
<1>2. IsFiniteSet(A) /\ IsFiniteSet(B) /\ Count(q, kind) = Cardinality(A) /\ Count(Tail(q), kind) = Cardinality(B)
  BY <1>1, CountIs
<1>3. \A i \in B : i \in Nat /\ i + 1 \in A \ {1}
  BY <1>1
<1>4. \A j \in A \ {1} : j - 1 \in B /\ j = (j - 1) + 1
  BY <1>1
<1> HIDE DEF A, B
<1>5. f \in Bijection(B, A \ {1})
  <2>1. f \in [B -> A \ {1}] /\ \A i \in B : f[i] = i + 1
    BY <1>3
  <2>2. \A i, j \in B : f[i] = f[j] => i = j
    BY <1>3, <2>1
  <2>3. \A j \in A \ {1} : \E i \in B : f[i] = j
    BY <1>4, <2>1
  <2> QED
    BY <2>1, <2>2, <2>3 DEF Bijection, Injection, Surjection, IsInjective
<1>6. Cardinality(B) = Cardinality(A \ {1})
  BY <1>2, <1>5, FS_Bijection DEF ExistsBijection
<1>7. 1 \in A <=> q[1].type = kind
  BY <1>1 DEF A
<1> QED
  BY <1>2, <1>6, <1>7, FS_RemoveElement

(* Messages are put at the end of which at most the first is of this kind.   *)
LEMMA CountGrown ==
  ASSUME NEW T, NEW q \in Seq(T), NEW r \in Seq(T), NEW kind,
         \A k \in DOMAIN r : r[k].type = kind => k = 1
  PROVE  /\ Count(q, kind) \in Nat /\ Count(q \o r, kind) \in Nat
         /\ Count(q \o r, kind) <= Count(q, kind) + 1
         /\ (\A k \in DOMAIN r : r[k].type # kind) => Count(q \o r, kind) = Count(q, kind)
<1> DEFINE t == q \o r
           A == {i \in DOMAIN q : q[i].type = kind}
           B == {i \in DOMAIN t : t[i].type = kind}
           l == Len(q) + 1
<1>1. /\ Len(q) \in Nat /\ Len(r) \in Nat /\ t \in Seq(T)
      /\ DOMAIN q = 1..Len(q) /\ DOMAIN r = 1..Len(r) /\ DOMAIN t = 1..(Len(q) + Len(r))
      /\ \A k \in 1..Len(q) : t[k] = q[k]
      /\ \A k \in 1..Len(r) : t[Len(q) + k] = r[k]
  BY Grown
<1>2. /\ IsFiniteSet(A) /\ IsFiniteSet(B) /\ Count(q, kind) = Cardinality(A) /\ Count(t, kind) = Cardinality(B)
      /\ Count(q, kind) \in Nat /\ Count(t, kind) \in Nat
  <2>1. \A s \in Seq(T) : LET C == {i \in DOMAIN s : s[i].type = kind}
          IN  IsFiniteSet(C) /\ Count(s, kind) = Cardinality(C) /\ Count(s, kind) \in Nat
    BY CountIs
  <2>2. IsFiniteSet(A) /\ Count(q, kind) = Cardinality(A) /\ Count(q, kind) \in Nat
    BY <2>1
  <2>3. IsFiniteSet(B) /\ Count(t, kind) = Cardinality(B) /\ Count(t, kind) \in Nat
    BY <1>1, <2>1
  <2> QED
    BY <2>2, <2>3
<1> HIDE DEF t
<1>3. ASSUME NEW k \in DOMAIN t, k \notin DOMAIN q
      PROVE  k - Len(q) \in DOMAIN r /\ t[k] = r[k - Len(q)] /\ (k - Len(q) = 1 => k = l)
  <2>1. k - Len(q) \in 1..Len(r) /\ k = Len(q) + (k - Len(q))
    BY <1>1, <1>3
  <2> QED
    BY <1>1, <2>1
<1>4. A \subseteq B
  BY <1>1
<1>5. B \subseteq A \cup {l}
  BY <1>1, <1>3
<1>6. (\A k \in DOMAIN r : r[k].type # kind) => B \subseteq A
  BY <1>1, <1>3
<1> HIDE DEF A, B, l
<1>7. Cardinality(B) <= Cardinality(A) + 1
  <2>1. IsFiniteSet(A \cup {l}) /\ Cardinality(A \cup {l}) \in {Cardinality(A), Cardinality(A) + 1}
    BY <1>2, FS_AddElement
  <2>2. Cardinality(B) <= Cardinality(A \cup {l})
    BY <1>5, <2>1, FS_Subset
  <2>3. Cardinality(A) \in Nat /\ Cardinality(B) \in Nat
    BY <1>2
  <2> QED
    BY <2>1, <2>2, <2>3
<1>8. B \subseteq A => A = B
  BY <1>4
<1> QED
  BY <1>2, <1>6, <1>7, <1>8 DEF t

LEMMA CountAppended ==
  ASSUME NEW T, NEW q \in Seq(T), NEW e \in T, NEW kind
  PROVE  /\ Count(q, kind) \in Nat /\ Count(Append(q, e), kind) \in Nat
         /\ Count(Append(q, e), kind) <= Count(q, kind) + 1
         /\ e.type # kind => Count(Append(q, e), kind) = Count(q, kind)
<1> DEFINE r == <<e>>
<1>1. Append(q, e) = q \o r /\ r \in Seq(T) /\ \A k \in DOMAIN r : k = 1 /\ r[k] = e
  OBVIOUS
<1> HIDE DEF r
<1> QED
  BY <1>1, CountGrown

(* What the server sends to a client, at most one event in a step: the       *)
(* answer to its own join, or something of another client.                   *)
LEMMA News ==
  ASSUME RoomInv, NEW w \in Clients, ServerStep(w), NEW u \in Clients
  PROVE  \/ inbox'[u] = inbox[u]
         \/ \E e \in VoiceEvent :
              /\ inbox'[u] = Append(inbox[u], e)
              /\ e.type = "response" => u = w /\ Reply(w)
              /\ e.type = "left" => e.from = w /\ Sweep(w)
<1> USE DEF luck
<1>1. MeshTypeOK /\ Following(w)
  BY DEF RoomInv
<1>2. inbox \in [Clients -> Seq(VoiceEvent)]
  BY <1>1 DEF MeshTypeOK
<1>3. CASE Enter(w) \/ Refuse(w) \/ LookUpFails(w)
  BY <1>3 DEF Enter, Refuse, LookUpFails
<1>4. CASE Sweep(w)
  <2>1. inbox'[u] = inbox[u] \/ inbox'[u] = Append(inbox[u], Event("left", w))
    BY <1>1, <1>4, Tells, EventsAre DEF Sweep
  <2>2. Event("left", w) \in VoiceEvent /\ Event("left", w).type = "left" /\ Event("left", w).from = w
    BY EventsAre DEF Event
  <2> QED
    BY <1>4, <2>1, <2>2
<1>5. CASE LeaveRoom(w)
  <2>1. /\ outbox[w] # <<>> /\ Head(outbox[w]) = outbox[w][1] /\ 1 \in DOMAIN outbox[w]
        /\ outbox[w][1].type = "leave"
    BY <1>1, <1>5, Taken DEF LeaveRoom, Reading, MeshTypeOK
  <2>2. {Head(outbox[w]).channel} \cap Rooms = {}
    BY <1>1, <2>1, RoomsAssumption DEF Following, RequestsName
  <2>3. inbox'[u] = inbox[u]
    BY <1>2, <1>5, <2>2 DEF LeaveRoom, Notify
  <2> QED
    BY <2>3
<1>6. CASE Relay(w)
  <2> DEFINE e == Event(Head(outbox[w]).type, w)
  <2>1. Head(outbox[w]).type \in {"offer", "answer"}
    BY <1>6 DEF Relay, Reading
  <2>2. e \in VoiceEvent /\ e.type \in {"offer", "answer"}
    BY <2>1, EventsAre DEF Event
  <2>3. inbox'[u] = inbox[u] \/ inbox'[u] = Append(inbox[u], e)
    BY <1>1, <1>6, <2>2, Tells DEF Relay
  <2> QED
    BY <2>2, <2>3
<1>7. CASE Reply(w)
  <2>1. handler[w].others \in SUBSET Clients
    BY <1>1 DEF MeshTypeOK, Handling
  <2>2. /\ Response(handler[w].others) \in VoiceEvent /\ Response(handler[w].others).type = "response"
        /\ Event("joined", w) \in VoiceEvent /\ Event("joined", w).type = "joined"
    BY <2>1, EventsAre DEF Response, Event
  <2>3. \/ u = w /\ inbox'[u] = Append(inbox[u], Response(handler[w].others))
        \/ inbox'[u] = Append(inbox[u], Event("joined", w))
        \/ inbox'[u] = inbox[u]
    BY <1>7 DEF Reply
  <2> QED
    BY <1>7, <2>2, <2>3
<1> QED
  BY <1>3, <1>4, <1>5, <1>6, <1>7 DEF ServerStep

(* The setups of a client that no answer has taken yet; the joins whose      *)
(* answers are still to take one, those it may yet begin included.           *)
Free(u) == {n \in 1..Joins[u] : setup[u][n].stage = "none"}
Due(u) == Count(outbox[u], "join") + Count(inbox[u], "response") + joinsLeft[u]

(* The manager is of a setup that has begun.                                 *)
Begun(u) == manager[u] # 0 => setup[u][manager[u]].stage \notin {"none", "init"}

(* There is a setup for every answer.                                        *)
SetupInv == \A u \in Clients : Due(u) <= Cardinality(Free(u)) /\ Begun(u)

LEMMA DueIs ==
  ASSUME MeshTypeOK, NEW u \in Clients
  PROVE  /\ Count(outbox[u], "join") \in Nat /\ Count(inbox[u], "response") \in Nat
         /\ outbox[u] \in Seq(Request) /\ inbox[u] \in Seq(VoiceEvent)
         /\ joinsLeft[u] \in Nat /\ IsFiniteSet(Free(u)) /\ Cardinality(Free(u)) \in Nat
         /\ 1..Joins[u] \subseteq Setups
<1>1. outbox[u] \in Seq(Request) /\ inbox[u] \in Seq(VoiceEvent) /\ joinsLeft[u] \in Nat
  BY DEF MeshTypeOK
<1>2. Joins[u] \in Nat
  BY JoinsAssumption
<1>3. IsFiniteSet(Free(u))
  <2>1. IsFiniteSet(1..Joins[u])
    BY <1>2, FS_Interval
  <2> QED
    BY <2>1, FS_Subset DEF Free
<1> QED
  BY <1>1, <1>3, CountIs, FS_CardinalityType DEF Setups

(* A setup changes that was taken before.                                    *)
LEMMA FreeStays ==
  ASSUME MeshTypeOK, NEW u \in Clients,
         \A m \in Setups : \/ setup'[u][m] = setup[u][m]
                           \/ setup[u][m].stage # "none" /\ setup'[u][m].stage # "none"
  PROVE  Free(u)' = Free(u)
  BY DueIs DEF Free

(* The answer to a join takes one.                                           *)
LEMMA AnswerTakes ==
  ASSUME MeshTypeOK, SetupInv, NEW u \in Clients, inbox[u] # <<>>, Head(inbox[u]).type = "response",
         inbox' = [inbox EXCEPT ![u] = Tail(@)], outbox' = outbox, manager' = manager,
         joinsLeft' = joinsLeft, NEW x \in Setup, x.stage # "none", setup' = [setup EXCEPT ![u][NextSetup(u)] = x]
  PROVE  /\ NextSetup(u) \in Setups /\ setup[u][NextSetup(u)].stage = "none"
         /\ SetupInv'
<1> DEFINE n == NextSetup(u)
<1>1. /\ Count(Tail(inbox[u]), "response") = Count(inbox[u], "response") - 1
      /\ Count(inbox[u], "response") \in Nat /\ Count(outbox[u], "join") \in Nat
      /\ Count(Tail(inbox[u]), "response") \in Nat /\ joinsLeft[u] \in Nat
      /\ IsFiniteSet(Free(u)) /\ Cardinality(Free(u)) \in Nat /\ 1..Joins[u] \subseteq Setups
  <2> DEFINE q == inbox[u]
  <2>1. q \in Seq(VoiceEvent) /\ q # <<>>
    BY DueIs
  <2> HIDE DEF q
  <2>2. Tail(q) \in Seq(VoiceEvent) /\ q[1] = Head(q)
    BY <2>1, Taken
  <2>3. Count(Tail(q), "response") \in Nat
    BY <2>2, CountIs
  <2>4. Count(Tail(q), "response") = IF q[1].type = "response" THEN Count(q, "response") - 1
                                                               ELSE Count(q, "response")
    BY <2>1, CountTaken
  <2> QED
    BY <2>2, <2>3, <2>4, DueIs DEF q
<1>2. Due(u) <= Cardinality(Free(u)) /\ Due(u) >= 1 /\ Due(u) \in Nat
  <2>1. Count(inbox[u], "response") # 0
    <3>1. Count(inbox[u], "response") - 1 \in Nat
      BY <1>1
    <3> QED
      BY <1>1, <3>1
  <2> QED
    BY <1>1, <2>1 DEF SetupInv, Due
<1>3. Free(u) # {}
  <2>1. Cardinality(Free(u)) # 0
    BY <1>1, <1>2
  <2> QED
    BY <1>1, <2>1, FS_EmptySet
<1>4. n \in Free(u)
  BY <1>3 DEF Free, NextSetup
<1>5. n \in Setups /\ setup[u][n].stage = "none"
  BY <1>1, <1>4 DEF Free
<1> HIDE DEF n
<1>6. /\ setup'[u][n] = x
      /\ \A v \in Clients, m \in Setups : v # u \/ m # n => setup'[v][m] = setup[v][m]
  BY <1>5, SetupChanges DEF n
<1>7. Free(u)' = Free(u) \ {n}
  BY <1>1, <1>4, <1>5, <1>6 DEF Free
<1>8. Due(u)' <= Cardinality(Free(u)')
  <2>1. Cardinality(Free(u) \ {n}) = Cardinality(Free(u)) - 1
    BY <1>1, <1>4, FS_RemoveElement
  <2>2. inbox'[u] = Tail(inbox[u])
    BY Hears
  <2> QED
    BY <1>1, <1>2, <1>7, <2>1, <2>2 DEF Due
<1>9. Begun(u)'
  <2>1. manager[u] # 0 => manager[u] \in Setups /\ manager[u] # n
    BY <1>5 DEF SetupInv, Begun, MeshTypeOK
  <2> QED
    BY <1>6, <2>1 DEF SetupInv, Begun
<1>10. ASSUME NEW v \in Clients, v # u PROVE Due(v)' <= Cardinality(Free(v)') /\ Begun(v)'
  <2>1. Free(v)' = Free(v)
    BY <1>6, <1>10, FreeStays
  <2>2. inbox'[v] = inbox[v]
    BY <1>10, Hears
  <2>3. Begun(v)'
    BY <1>6, <1>10 DEF SetupInv, Begun, MeshTypeOK
  <2> QED
    BY <2>1, <2>2, <2>3 DEF SetupInv, Due
<1> QED
  BY <1>5, <1>8, <1>9, <1>10 DEF SetupInv, n

(* The other steps take no setup, and add no join without one.               *)
LEMMA SetupKept ==
  ASSUME MeshTypeOK, MeshTypeOK', NEW u \in Clients, Due(u) <= Cardinality(Free(u)), Begun(u),
         Count(outbox'[u], "join") + Count(inbox'[u], "response") + joinsLeft'[u] <= Due(u),
         \A m \in Setups : \/ setup'[u][m] = setup[u][m]
                           \/ setup[u][m].stage # "none" /\ setup'[u][m].stage \notin {"none", "init"},
         manager'[u] \in {manager[u], 0}
  PROVE  Due(u)' <= Cardinality(Free(u)') /\ Begun(u)'
<1>1. Free(u)' = Free(u)
  BY FreeStays
<1>2. Due(u) \in Nat /\ Cardinality(Free(u)) \in Nat /\ Due(u)' \in Nat
  <2>1. /\ Count(outbox[u], "join") \in Nat /\ Count(inbox[u], "response") \in Nat
        /\ joinsLeft[u] \in Nat /\ Cardinality(Free(u)) \in Nat
    BY DueIs
  <2>2. outbox'[u] \in Seq(Request) /\ inbox'[u] \in Seq(VoiceEvent) /\ joinsLeft'[u] \in Nat
    BY DEF MeshTypeOK
  <2>3. Count(outbox'[u], "join") \in Nat /\ Count(inbox'[u], "response") \in Nat
    BY <2>2, CountIs
  <2>4. Due(u) \in Nat
    BY <2>1 DEF Due
  <2>5. Due(u)' \in Nat
    BY <2>2, <2>3 DEF Due
  <2> QED
    BY <2>1, <2>4, <2>5
<1>3. Due(u)' <= Due(u)
  BY DEF Due
<1>4. manager'[u] # 0 => manager[u] \in Setups /\ manager'[u] = manager[u]
  BY DEF MeshTypeOK
<1> QED
  BY <1>1, <1>2, <1>3, <1>4 DEF Begun

(* The requests a client adds to do not ask to join.                         *)
LEMMA SignalsCount ==
  ASSUME NEW q \in Seq(Request), NEW r \in Seq(Request), \A k \in DOMAIN r : r[k].type # "join"
  PROVE  Count(q \o r, "join") = Count(q, "join")
  BY CountGrown

(* The server takes a join out when it sends the response.                   *)
LEMMA ServerCounts ==
  ASSUME RoomInv, NEW w \in Clients, ServerStep(w), NEW u \in Clients
  PROVE  Count(outbox'[u], "join") + Count(inbox'[u], "response") + joinsLeft'[u] <= Due(u)
<1> USE DEF server, view, call, luck, bounds
<1> DEFINE q == outbox[u]
           i == inbox[u]
<1>1. MeshTypeOK /\ q \in Seq(Request) /\ i \in Seq(VoiceEvent) /\ AtWork
  BY DueIs DEF RoomInv, Following, AtWork
<1>2. /\ Count(q, "join") \in Nat /\ Count(i, "response") \in Nat
      /\ joinsLeft[u] \in Nat /\ joinsLeft' = joinsLeft
  <2>1. joinsLeft' = joinsLeft
    BY DEF ServerStep, LookUpFails, Sweep, Enter, Refuse, Reply, LeaveRoom, Relay
  <2> QED
    BY <1>1, <2>1, CountIs, DueIs
<1>3. \/ outbox'[u] = q /\ ~(u = w /\ Reply(w))
      \/ u = w /\ q # <<>> /\ outbox'[u] = Tail(q) /\ (Reply(w) => q[1].type = "join")
  <2>1. CASE Sweep(w) \/ Enter(w)
    BY <1>1, <2>1 DEF Sweep, Enter, Reading, Reply, AtWork, Working
  <2>2. CASE Refuse(w) \/ Reply(w)
    BY <1>1, <2>2, WorksOff DEF Refuse, Reply, AtWork, Working
  <2>3. CASE LeaveRoom(w) \/ Relay(w) \/ LookUpFails(w)
    BY <1>1, <2>3, WorksOff DEF LeaveRoom, Relay, LookUpFails, Reading, Reply
  <2> QED
    BY <2>1, <2>2, <2>3 DEF ServerStep
<1>4. \/ inbox'[u] = i
      \/ \E e \in VoiceEvent : inbox'[u] = Append(i, e) /\ (e.type = "response" => u = w /\ Reply(w))
  BY News
<1> HIDE DEF q, i
<1>5. /\ Count(outbox'[u], "join") \in Nat /\ Count(outbox'[u], "join") <= Count(q, "join")
      /\ u = w /\ Reply(w) => Count(outbox'[u], "join") = Count(q, "join") - 1
  <2>1. CASE outbox'[u] = q /\ ~(u = w /\ Reply(w))
    BY <1>2, <2>1
  <2>2. CASE u = w /\ q # <<>> /\ outbox'[u] = Tail(q) /\ (Reply(w) => q[1].type = "join")
    <3>1. Tail(q) \in Seq(Request)
      BY <1>1, <2>2, Taken
    <3>2. Count(Tail(q), "join") \in Nat
      BY <3>1, CountIs
    <3>3. Count(Tail(q), "join") = IF q[1].type = "join" THEN Count(q, "join") - 1 ELSE Count(q, "join")
      BY <1>1, <2>2, CountTaken
    <3> QED
      BY <1>2, <2>2, <3>2, <3>3
  <2> QED
    BY <1>3, <2>1, <2>2
<1>6. /\ Count(inbox'[u], "response") \in Nat /\ Count(inbox'[u], "response") <= Count(i, "response") + 1
      /\ ~(u = w /\ Reply(w)) => Count(inbox'[u], "response") = Count(i, "response")
  <2>1. CASE inbox'[u] = i
    BY <1>2, <2>1
  <2>2. ASSUME NEW e \in VoiceEvent, inbox'[u] = Append(i, e), e.type = "response" => u = w /\ Reply(w)
        PROVE  /\ Count(inbox'[u], "response") \in Nat
               /\ Count(inbox'[u], "response") <= Count(i, "response") + 1
               /\ ~(u = w /\ Reply(w)) => Count(inbox'[u], "response") = Count(i, "response")
    BY <1>1, <1>2, <2>2, CountAppended
  <2> QED
    BY <1>4, <2>1, <2>2
<1>7. Due(u) = Count(q, "join") + Count(i, "response") + joinsLeft[u]
  BY DEF Due, q, i
<1> QED
  BY <1>2, <1>5, <1>6, <1>7

LEMMA SetupInit == MeshInit => SetupInv
<1> SUFFICES ASSUME MeshInit, NEW u \in Clients PROVE Due(u) <= Cardinality(Free(u)) /\ Begun(u)
  BY DEF SetupInv
<1>1. MeshTypeOK /\ outbox[u] = <<>> /\ inbox[u] = <<>> /\ manager[u] = 0
  BY RoomInit DEF RoomInv, MeshInit
<1>2. Free(u) = 1..Joins[u]
  BY <1>1, DueIs DEF MeshInit, NoSetup, Free
<1>3. Cardinality(Free(u)) = Joins[u] /\ joinsLeft[u] = Joins[u] /\ Joins[u] \in Nat
  <2>1. Joins[u] \in Nat
    BY JoinsAssumption
  <2> QED
    BY <1>2, <2>1, FS_Interval DEF MeshInit
<1>4. Count(<<>>, "join") = 0 /\ Count(<<>>, "response") = 0
  <2>1. \A kind : {k \in DOMAIN <<>> : <<>>[k].type = kind} = {}
    OBVIOUS
  <2>2. Cardinality({}) = 0
    BY FS_EmptySet
  <2> QED
    BY <2>1, <2>2 DEF Count
<1> QED
  BY <1>1, <1>3, <1>4 DEF Due, Begun

LEMMA SetupStep == RoomInv /\ SetupInv /\ [MeshNext]_meshVars => SetupInv'
<1> SUFFICES ASSUME RoomInv, SetupInv, [MeshNext]_meshVars PROVE SetupInv'
  OBVIOUS
<1> USE DEF server, view, call
<1>1. /\ MeshTypeOK /\ MeshTypeOK'
      /\ \A u \in Clients : Due(u) <= Cardinality(Free(u)) /\ Begun(u)
      /\ \A u \in Clients : outbox[u] \in Seq(Request) /\ inbox[u] \in Seq(VoiceEvent)
      /\ \A u \in Clients : /\ Count(outbox[u], "join") \in Nat /\ Count(inbox[u], "response") \in Nat
                            /\ joinsLeft[u] \in Nat
  BY RoomStep, DueIs DEF RoomInv, SetupInv
<1>2. ASSUME UNCHANGED call,
             \A u \in Clients :
               Count(outbox'[u], "join") + Count(inbox'[u], "response") + joinsLeft'[u] <= Due(u)
      PROVE  SetupInv'
  BY <1>1, <1>2, SetupKept DEF SetupInv
(* A step of one client that takes no answer.                                *)
<1>3. ASSUME NEW u \in Clients, NEW r \in Seq(Request), \A k \in DOMAIN r : r[k].type # "join",
             outbox' = outbox \/ outbox' = [outbox EXCEPT ![u] = @ \o r], joinsLeft' = joinsLeft,
             \/ inbox' = inbox
             \/ /\ inbox[u] # <<>> /\ Head(inbox[u]).type # "response"
                /\ inbox' = [inbox EXCEPT ![u] = Tail(@)],
             \A v \in Clients, m \in Setups :
               \/ setup'[v][m] = setup[v][m]
               \/ v = u /\ setup[u][m].stage # "none" /\ setup'[u][m].stage \notin {"none", "init"},
             \A v \in Clients : manager'[v] = manager[v] \/ (v = u /\ Begun(u)')
      PROVE  SetupInv'
  <2>1. ASSUME NEW v \in Clients PROVE Count(outbox'[v], "join") = Count(outbox[v], "join")
    <3>1. CASE outbox' = [outbox EXCEPT ![u] = @ \o r]
      <4>1. outbox'[v] = IF v = u THEN outbox[u] \o r ELSE outbox[v]
        BY <1>1, <3>1 DEF MeshTypeOK
      <4> QED
        BY <1>1, <1>3, <4>1, SignalsCount
    <3> QED
      BY <1>3, <3>1
  <2>2. ASSUME NEW v \in Clients PROVE Count(inbox'[v], "response") = Count(inbox[v], "response")
    <3>1. CASE /\ inbox[u] # <<>> /\ Head(inbox[u]).type # "response"
               /\ inbox' = [inbox EXCEPT ![u] = Tail(@)]
      <4>1. inbox'[v] = IF v = u THEN Tail(inbox[u]) ELSE inbox[v]
        BY <1>1, <3>1, Hears
      <4>2. inbox[u][1].type # "response"
        BY <1>1, <3>1, Hears
      <4>3. Count(Tail(inbox[u]), "response") = Count(inbox[u], "response")
        BY <1>1, <3>1, <4>2, CountTaken
      <4> QED
        BY <4>1, <4>3
    <3> QED
      BY <1>3, <3>1
  <2>3. ASSUME NEW v \in Clients PROVE Due(v)' <= Cardinality(Free(v)')
    <3>1. Free(v)' = Free(v)
      BY <1>1, <1>3, FreeStays
    <3> QED
      BY <1>1, <1>3, <2>1, <2>2, <3>1 DEF Due
  <2>4. ASSUME NEW v \in Clients PROVE Begun(v)'
    <3>1. CASE manager'[v] = manager[v]
      <4>1. manager[v] # 0 => manager[v] \in Setups
        BY <1>1 DEF MeshTypeOK
      <4> QED
        BY <1>1, <1>3, <3>1, <4>1 DEF Begun
    <3> QED
      BY <1>3, <3>1
  <2> QED
    BY <2>3, <2>4 DEF SetupInv
<1>4. ASSUME NEW u \in Clients, ServerStep(u) PROVE SetupInv'
  <2>1. UNCHANGED call
    BY <1>4 DEF ServerStep, LookUpFails, Sweep, Enter, Refuse, Reply, LeaveRoom, Relay
  <2> QED
    BY <1>2, <1>4, <2>1, ServerCounts
<1>5. ASSUME NEW u \in Clients, CleanUp(u)
      PROVE  /\ \A v \in Clients, m \in Setups :
                  \/ setup'[v][m] = setup[v][m]
                  \/ v = u /\ setup[u][m].stage # "none" /\ setup'[u][m].stage \notin {"none", "init"}
             /\ \A v \in Clients : manager'[v] = manager[v] \/ (v = u /\ Begun(u)')
  <2>1. /\ manager'[u] = 0 /\ \A v \in Clients : v # u => manager'[v] = manager[v]
        /\ \A v \in Clients, m \in Setups :
             \/ setup'[v][m] = setup[v][m]
             \/ v = u /\ m = manager[u] /\ m # 0 /\ setup'[v][m] = Spent
    BY <1>1, <1>5, CleanUpIs
  <2>2. Begun(u)'
    BY <2>1 DEF Begun
  <2>3. manager[u] # 0 => setup[u][manager[u]].stage # "none"
    BY <1>1 DEF Begun
  <2>4. Spent.stage = "spent"
    BY DEF Spent
  <2> QED
    BY <2>1, <2>2, <2>3, <2>4
<1>6. ASSUME NEW u \in Clients, LeaveVoice(u) PROVE SetupInv'
  <2> DEFINE r == <<LeaveRequest(u)>> \o Farewell(u)
  <2>1. r \in Seq(Departures)
    BY RequestSets, FarewellIs, Grown
  <2>2. Sent(u, r) /\ inbox' = inbox /\ CleanUp(u) /\ joinsLeft' = joinsLeft
    BY <1>6 DEF LeaveVoice
  <2> HIDE DEF r
  <2>3. PICK s \in Seq(Departures) : outbox' = [outbox EXCEPT ![u] = @ \o s]
    BY <2>1, <2>2, SentIs
  <2>4. s \in Seq(Request) /\ \A k \in DOMAIN s : s[k].type # "join"
    <3>1. \A k \in DOMAIN s : s[k] \in Departures
      OBVIOUS
    <3> QED
      BY <3>1, RequestSets, Wider DEF Departures
  <2>5. /\ \A v \in Clients, m \in Setups :
             \/ setup'[v][m] = setup[v][m]
             \/ v = u /\ setup[u][m].stage # "none" /\ setup'[u][m].stage \notin {"none", "init"}
        /\ \A v \in Clients : manager'[v] = manager[v] \/ (v = u /\ Begun(u)')
    BY <1>5, <2>2
  <2> QED
    BY <1>3, <2>2, <2>3, <2>4, <2>5
<1>7. ASSUME NEW u \in Clients, ClientStep(u) PROVE SetupInv'
  <2> DEFINE none == <<>>
             head == Head(inbox[u])
  <2> USE DEF luck, bounds
  <2>1. none \in Seq(Request) /\ \A k \in DOMAIN none : none[k].type # "join"
    OBVIOUS
  <2> HIDE DEF none
  <2>2. ASSUME NEW r \in Seq(Signals) PROVE r \in Seq(Request) /\ \A k \in DOMAIN r : r[k].type # "join"
    <3>1. \A k \in DOMAIN r : r[k] \in Signals
      OBVIOUS
    <3> QED
      BY <3>1, RequestSets, Wider DEF Signals
  <2>3. CASE (Ignore(u) /\ head.type = "response") \/ OnResponse(u)
    <3>1. Spent \in Setup /\ Spent.stage # "none"
      BY DEF Spent, Setup
    <3>2. head \in VoiceEvent
      BY <1>1, <2>3, Hears DEF Ignore, OnResponse, Arrives
    <3>3. [NoSetup EXCEPT !.stage = "init", !.known = head.known] \in Setup
      BY <3>2 DEF NoSetup, VoiceEvent, Setup
    <3>4. [NoSetup EXCEPT !.stage = "init", !.known = head.known].stage # "none"
      BY DEF NoSetup
    <3> QED
      BY <1>1, <2>3, <3>1, <3>3, <3>4, AnswerTakes DEF Ignore, OnResponse, Arrives
  <2>4. CASE (Ignore(u) /\ head.type # "response") \/ OnLeft(u) \/ OnAnswer(u)
    BY <1>1, <1>3, <2>1, <2>4 DEF Ignore, OnLeft, OnAnswer, Arrives
  <2>5. ASSUME NEW r \in Seq(Signals), outbox' = outbox \/ Sent(u, r),
               inbox[u] # <<>>, head.type # "response", inbox' = [inbox EXCEPT ![u] = Tail(@)],
               setup' = setup, manager' = manager, joinsLeft' = joinsLeft
        PROVE  SetupInv'
    <3>1. PICK s \in Seq(Signals) : outbox' = outbox \/ outbox' = [outbox EXCEPT ![u] = @ \o s]
      BY <2>5, SentIs
    <3> QED
      BY <1>3, <2>2, <2>5, <3>1
  <2>6. CASE OnJoined(u) \/ OnOffer(u)
    <3>1. head.from \in Clients
      BY <1>1, <2>6, Hears DEF OnJoined, OnOffer, Arrives, VoiceEvent
    <3>2. OffersTo(u, {head.from}) \in Seq(Signals) /\ <<Signal("answer", head.from)>> \in Seq(Signals)
      BY <3>1, OffersAreSignals, RequestSets
    <3> QED
      BY <2>5, <2>6, <3>2 DEF OnJoined, OnOffer, Arrives
  <2>7. ASSUME NEW n \in Setups, setup[u][n].stage # "none", NEW x \in Setup, x.stage \notin {"none", "init"},
               setup' = [setup EXCEPT ![u][n] = x]
        PROVE  \A v \in Clients, m \in Setups :
                 \/ setup'[v][m] = setup[v][m]
                 \/ v = u /\ setup[u][m].stage # "none" /\ setup'[u][m].stage \notin {"none", "init"}
    BY <1>1, <2>7, SetupChanges
  <2>8. ASSUME NEW n \in Setups, AudioReady(u, n) PROVE SetupInv'
    <3>1. setup[u][n] \in Setup
      BY <1>1 DEF MeshTypeOK
    <3>2. [setup[u][n] EXCEPT !.stage = "mic"] \in Setup /\ [setup[u][n] EXCEPT !.stage = "mic"].stage = "mic"
      BY <3>1 DEF Setup
    <3>3. setup' = [setup EXCEPT ![u][n] = [setup[u][n] EXCEPT !.stage = "mic"]]
      BY <1>1, <2>8 DEF AudioReady, MeshTypeOK
    <3>4. /\ manager'[u] = n /\ setup'[u][n].stage = "mic"
          /\ \A v \in Clients : v # u => manager'[v] = manager[v]
      BY <1>1, <2>8, <3>2, <3>3, SetupChanges DEF AudioReady, MeshTypeOK
    <3> QED
      BY <1>3, <2>1, <2>7, <2>8, <3>2, <3>3, <3>4 DEF AudioReady, Begun
  <2>9. ASSUME NEW n \in Setups, MicReady(u, n) \/ MicDenied(u, n) \/ AudioFails(u, n) PROVE SetupInv'
    <3>1. OffersTo(u, setup[u][n].known \ {u}) \in Seq(Signals) /\ setup[u][n] \in Setup
      BY <1>1, OffersAreSignals DEF MeshTypeOK, Setup
    <3>2. PICK s \in Seq(Signals) : outbox' = outbox \/ outbox' = [outbox EXCEPT ![u] = @ \o s]
      <4>1. outbox' = outbox \/ Sent(u, OffersTo(u, setup[u][n].known \ {u}))
        BY <2>9 DEF MicReady, MicDenied, AudioFails
      <4> QED
        BY <3>1, <4>1, SentIs
    <3>3. PICK x \in Setup : x.stage \in {"open", "denied", "failed"} /\ setup' = [setup EXCEPT ![u][n] = x]
      <4>1. /\ [stage |-> "open", known |-> {}] \in Setup /\ [stage |-> "denied", known |-> {}] \in Setup
            /\ [setup[u][n] EXCEPT !.stage = "failed"] \in Setup
            /\ [setup[u][n] EXCEPT !.stage = "failed"].stage = "failed"
        BY <3>1 DEF Setup
      <4>2. AudioFails(u, n) => setup' = [setup EXCEPT ![u][n] = [setup[u][n] EXCEPT !.stage = "failed"]]
        BY <1>1 DEF AudioFails, MeshTypeOK
      <4> QED
        BY <2>9, <4>1, <4>2 DEF MicReady, MicDenied
    <3>4. setup[u][n].stage # "none"
      BY <2>9 DEF MicReady, MicDenied, AudioFails
    <3>5. \A v \in Clients, m \in Setups :
            \/ setup'[v][m] = setup[v][m]
            \/ v = u /\ setup[u][m].stage # "none" /\ setup'[u][m].stage \notin {"none", "init"}
      BY <2>7, <3>3, <3>4
    <3> QED
      BY <1>3, <2>2, <2>9, <3>2, <3>5 DEF MicReady, MicDenied, AudioFails
  <2> QED
    BY <1>7, <2>3, <2>4, <2>6, <2>8, <2>9 DEF ClientStep
<1>8. ASSUME NEW u \in Clients, NEW ch \in Rooms, JoinVoice(u, ch) PROVE SetupInv'
  <2> DEFINE r == <<JoinRequest(ch)>> \o Farewell(u)
  <2>1. /\ Farewell(u) \in Seq(Departures) /\ Farewell(u) \in Seq(Request)
        /\ <<JoinRequest(ch)>> \in Seq(Request) /\ r \in Seq(Request)
    BY RequestSets, FarewellIs, Grown
  <2>2. \A k \in DOMAIN r : k # 1 => r[k] \in Departures
    <3> HIDE DEF JoinRequest, Request
    <3> QED
      BY <2>1, Grown
  <2> HIDE DEF r
  <2>3. \A k \in DOMAIN r : r[k].type = "join" => k = 1
    BY <2>2 DEF Departures
  <2>4. /\ outbox'[u] = outbox[u] \o r /\ inbox' = inbox /\ CleanUp(u)
        /\ joinsLeft'[u] = joinsLeft[u] - 1
        /\ \A v \in Clients : v # u => outbox'[v] = outbox[v] /\ joinsLeft'[v] = joinsLeft[v]
    <3>1. Sent(u, r) /\ wire[u]
      BY <1>8 DEF JoinVoice, r
    <3>2. outbox' = [outbox EXCEPT ![u] = @ \o r]
      BY <2>1, <3>1, SentIs
    <3>3. outbox'[u] = outbox[u] \o r /\ \A v \in Clients : v # u => outbox'[v] = outbox[v]
      BY <1>1, <2>1, <3>2, Sends
    <3> QED
      BY <1>1, <1>8, <3>3 DEF JoinVoice, MeshTypeOK
  <2>5. /\ Count(outbox'[u], "join") \in Nat
        /\ Count(outbox'[u], "join") <= Count(outbox[u], "join") + 1
    BY <1>1, <2>1, <2>3, <2>4, CountGrown
  <2>6. ASSUME NEW v \in Clients PROVE Free(v)' = Free(v) /\ Begun(v)'
    <3>1. Free(v)' = Free(v)
      BY <1>1, <1>5, <2>4, FreeStays
    <3>2. Begun(v)'
      <4>1. manager[v] # 0 => manager[v] \in Setups
        BY <1>1 DEF MeshTypeOK
      <4>2. /\ \A m \in Setups : \/ setup'[v][m] = setup[v][m]
                                 \/ setup'[v][m].stage \notin {"none", "init"}
            /\ manager'[v] = manager[v] \/ Begun(v)'
        BY <1>5, <2>4
      <4> QED
        BY <1>1, <4>1, <4>2 DEF Begun
    <3> QED
      BY <3>1, <3>2
  <2>7. Cardinality(Free(u)) \in Nat
    BY <1>1, DueIs
  <2>9. Due(u)' <= Cardinality(Free(u)')
    BY <1>1, <2>4, <2>5, <2>6, <2>7 DEF Due
  <2>10. ASSUME NEW v \in Clients, v # u PROVE Due(v)' <= Cardinality(Free(v)')
    BY <1>1, <2>4, <2>6, <2>10 DEF Due
  <2> QED
    BY <2>6, <2>9, <2>10 DEF SetupInv
<1>9. CASE UNCHANGED meshVars
  BY <1>1, <1>2, <1>9 DEF meshVars, Due, SetupInv, Begun, Free
(* Nothing is added to what is due when a socket is lost.                    *)
<1>10. ASSUME NEW u \in Clients, SocketLost(u) PROVE SetupInv'
  <2>1. UNCHANGED <<call, joinsLeft>>
    BY <1>10 DEF SocketLost, bounds
  <2>2. ASSUME NEW v \in Clients
        PROVE  Count(outbox'[v], "join") + Count(inbox'[v], "response") + joinsLeft'[v] <= Due(v)
    <3>1. CASE v = u
      <4>1. outbox'[v] = <<>> /\ inbox'[v] = <<>>
        BY <1>1, <1>10, <3>1 DEF SocketLost, MeshTypeOK
      <4>2. Count(<<>>, "join") = 0 /\ Count(<<>>, "response") = 0
        <5>1. \A kind : {k \in DOMAIN <<>> : <<>>[k].type = kind} = {}
          OBVIOUS
        <5> QED
          BY <5>1, FS_EmptySet DEF Count
      <4> QED
        BY <1>1, <2>1, <4>1, <4>2 DEF Due
    <3>2. CASE v # u
      <4>1. outbox'[v] = outbox[v]
        BY <1>1, <1>10, <3>2 DEF SocketLost, MeshTypeOK
      <4>2. inbox'[v] = inbox[v] \/ inbox'[v] = Append(inbox[v], Event("left", u))
        BY <1>10, <3>2 DEF SocketLost
      <4>3. Event("left", u) \in VoiceEvent /\ Event("left", u).type # "response"
        BY EventsAre DEF Event
      <4>4. Count(inbox'[v], "response") = Count(inbox[v], "response")
        <5> DEFINE q == inbox[v]
                   e == Event("left", u)
        <5>1. q \in Seq(VoiceEvent) /\ e \in VoiceEvent /\ e.type # "response"
          BY <1>1, <4>3
        <5>2. inbox'[v] = q \/ inbox'[v] = Append(q, e)
          BY <4>2
        <5> HIDE DEF q, e
        <5>3. Count(Append(q, e), "response") = Count(q, "response")
          BY <5>1, CountAppended
        <5> QED
          BY <5>2, <5>3 DEF q
      <4> QED
        BY <1>1, <2>1, <4>1, <4>4 DEF Due
    <3> QED
      BY <3>1, <3>2
  <2> QED
    BY <1>2, <2>1, <2>2
<1>11. ASSUME NEW u \in Clients, SocketBack(u) PROVE SetupInv'
  <2>1. UNCHANGED <<call, outbox, inbox, joinsLeft>>
    BY <1>11 DEF SocketBack, bounds
  <2> QED
    BY <1>1, <1>2, <2>1 DEF Due
<1>12. ASSUME NEW u \in Clients, NEW n \in Setups, NEW v \in Clients, IceFails(u, n, v) \/ PeerGone(u, n, v)
       PROVE  SetupInv'
  <2>1. <<Signal("offer", v)>> \in Seq(Signals)
    BY RequestSets
  <2>2. PICK s \in Seq(Signals) : outbox' = outbox \/ outbox' = [outbox EXCEPT ![u] = @ \o s]
    <3>1. outbox' = outbox \/ Sent(u, <<Signal("offer", v)>>)
      BY <1>12 DEF IceFails, PeerGone
    <3>2. CASE outbox' = outbox
      BY <2>1, <3>2
    <3>3. CASE Sent(u, <<Signal("offer", v)>>)
      <4> DEFINE r == <<Signal("offer", v)>>
      <4> HIDE DEF r
      <4>1. r \in Seq(Signals) /\ Sent(u, r)
        BY <2>1, <3>3 DEF r
      <4>2. \E x \in Seq(Signals) : outbox' = [outbox EXCEPT ![u] = @ \o x]
        BY <4>1, SentIs
      <4> QED
        BY <4>2
    <3> QED
      BY <3>1, <3>2, <3>3
  <2>3. s \in Seq(Request) /\ \A k \in DOMAIN s : s[k].type # "join"
    <3>1. \A k \in DOMAIN s : s[k] \in Signals
      OBVIOUS
    <3> QED
      BY <3>1, RequestSets, Wider DEF Signals
  <2> QED
    BY <1>3, <1>12, <2>2, <2>3 DEF IceFails, PeerGone, bounds
<1> QED
  BY <1>4, <1>6, <1>7, <1>8, <1>9, <1>10, <1>11, <1>12 DEF MeshNext, UserStep, Mishap

(* An event that tells of v, and one that says v has left.                   *)
TellsOf(e, v) == \/ e.type = "joined" /\ e.from = v
                 \/ e.type = "response" /\ v \in e.known

Parts(e, v) == e.type = "left" /\ e.from = v

(* Among the events that are still to be handled, none says that v has left; *)
(* and one tells of v that no such one comes after.                          *)
Silent(q, v) == \A k \in DOMAIN q : ~Parts(q[k], v)
Hint(q, v) == \E k \in DOMAIN q : TellsOf(q[k], v) /\ \A j \in DOMAIN q : j > k => ~Parts(q[j], v)

LEMMA HintAppended ==
  ASSUME NEW q \in Seq(VoiceEvent), NEW e \in VoiceEvent, NEW v, ~Parts(e, v)
  PROVE  /\ Silent(q, v) => Silent(Append(q, e), v)
         /\ Hint(q, v) => Hint(Append(q, e), v)
         /\ TellsOf(e, v) => Hint(Append(q, e), v)
<1> DEFINE t == Append(q, e)
           l == Len(q) + 1
<1>1. /\ Len(q) \in Nat /\ DOMAIN q = 1..Len(q) /\ DOMAIN t = 1..l /\ t[l] = e
      /\ \A k \in 1..Len(q) : t[k] = q[k]
  BY Appended
<1> HIDE DEF t
<1>2. /\ \A k \in DOMAIN t : k = l \/ k \in DOMAIN q
      /\ \A k \in DOMAIN q : k \in DOMAIN t /\ t[k] = q[k]
      /\ l \in DOMAIN t /\ \A k \in DOMAIN t : ~(k > l)
  BY <1>1
<1> HIDE DEF l
<1>3. Hint(q, v) => Hint(t, v)
  <2> SUFFICES ASSUME NEW k \in DOMAIN q, TellsOf(q[k], v), \A j \in DOMAIN q : j > k => ~Parts(q[j], v)
               PROVE  k \in DOMAIN t /\ TellsOf(t[k], v) /\ \A j \in DOMAIN t : j > k => ~Parts(t[j], v)
    BY DEF Hint
  <2> QED
    BY <1>1, <1>2
<1> QED
  BY <1>1, <1>2, <1>3 DEF Silent, Hint, t

LEMMA HintTaken ==
  ASSUME NEW q \in Seq(VoiceEvent), q # <<>>, NEW v
  PROVE  /\ Silent(q, v) => Silent(Tail(q), v) /\ ~Parts(Head(q), v)
         /\ Hint(q, v) => Hint(Tail(q), v) \/ (TellsOf(Head(q), v) /\ Silent(Tail(q), v))
<1> DEFINE t == Tail(q)
<1>1. /\ Len(q) \in Nat \ {0} /\ DOMAIN q = 1..Len(q) /\ DOMAIN t = 1..(Len(q) - 1) /\ Head(q) = q[1]
      /\ \A k \in 1..(Len(q) - 1) : t[k] = q[k + 1]
  BY Taken
<1> HIDE DEF t
<1>2. /\ \A k \in DOMAIN t : k \in Nat /\ k + 1 \in DOMAIN q /\ t[k] = q[k + 1] /\ k + 1 > 1
      /\ \A k \in DOMAIN q : k = 1 \/ (k \in Int /\ k - 1 \in DOMAIN t /\ q[k] = t[k - 1])
      /\ 1 \in DOMAIN q
  BY <1>1
<1>3. Silent(q, v) => Silent(t, v) /\ ~Parts(Head(q), v)
  BY <1>1, <1>2 DEF Silent
<1>4. ASSUME NEW k \in DOMAIN q, TellsOf(q[k], v), \A j \in DOMAIN q : j > k => ~Parts(q[j], v)
      PROVE  Hint(t, v) \/ (TellsOf(Head(q), v) /\ Silent(t, v))
  <2>1. CASE k = 1
    BY <1>1, <1>2, <1>4, <2>1 DEF Silent
  <2>2. CASE k # 1
    <3>1. k - 1 \in DOMAIN t /\ TellsOf(t[k - 1], v) /\ k \in Int
      BY <1>2, <1>4, <2>2
    <3>2. ASSUME NEW j \in DOMAIN t, j > k - 1 PROVE ~Parts(t[j], v)
      <4>1. j + 1 \in DOMAIN q /\ j + 1 > k /\ t[j] = q[j + 1]
        BY <1>2, <3>1, <3>2
      <4> QED
        BY <1>4, <4>1
    <3> QED
      BY <3>1, <3>2 DEF Hint
  <2> QED
    BY <2>1, <2>2
<1> QED
  BY <1>3, <1>4 DEF Hint, t

(* The server has entered the client for the last time, in the room it shows.*)
Entered(u) == \A k \in DOMAIN outbox[u] : JoinAt(outbox[u], k) => k = 1 /\ handler[u].step = "entered"

Together(u, v) ==
  /\ u # v /\ Entered(u) /\ u \notin astray
  /\ chan[u] # Nowhere /\ u \in room[chan[u]] /\ v \in room[chan[u]]

(* A client shows another, or will once its audio runs, or would had it run. *)
Shows(u, v) ==
  v \in roster[u] \/ \E n \in Setups : setup[u][n].stage \in {"init", "failed"} /\ v \in setup[u][n].known

(* It shows him and hears of no leaving, or an event that tells of him is on *)
(* its way, or is to be sent when he, or the client itself, is answered.     *)
Knows(u, v) ==
  \/ handler[v].step = "entered" /\ u \in handler[v].others
  \/ handler[u].step = "entered" /\ v \in handler[u].others
  \/ Hint(inbox[u], v)
  \/ Silent(inbox[u], v) /\ Shows(u, v)

RosterInv == \A u, v \in Clients : Together(u, v) => Knows(u, v)

(* Another event is on its way.                                              *)
LEMMA KnowsSent ==
  ASSUME MeshTypeOK, NEW u \in Clients, NEW v \in Clients, Knows(u, v), handler'[v] = handler[v],
         UNCHANGED <<roster, setup>>,
         \/ inbox'[u] = inbox[u]
         \/ \E e \in VoiceEvent : inbox'[u] = Append(inbox[u], e) /\ ~Parts(e, v),
         \/ handler'[u] = handler[u]
         \/ handler[u].step = "entered" /\ v \in handler[u].others => Hint(inbox'[u], v)
  PROVE  Knows(u, v)'
<1>1. inbox[u] \in Seq(VoiceEvent)
  BY DEF MeshTypeOK
<1>2. /\ Hint(inbox[u], v) => Hint(inbox'[u], v)
      /\ Silent(inbox[u], v) => Silent(inbox'[u], v)
  BY <1>1, HintAppended
<1> QED
  BY <1>2 DEF Knows, Shows

(* An event is handled.                                                      *)
LEMMA KnowsHeard ==
  ASSUME MeshTypeOK, NEW u \in Clients, NEW v \in Clients, Knows(u, v), UNCHANGED handler,
         inbox[u] # <<>>, inbox'[u] = Tail(inbox[u]),
         TellsOf(Head(inbox[u]), v) => Shows(u, v)',
         Shows(u, v) /\ ~Parts(Head(inbox[u]), v) => Shows(u, v)'
  PROVE  Knows(u, v)'
<1>1. inbox[u] \in Seq(VoiceEvent)
  BY DEF MeshTypeOK
<1> QED
  BY <1>1, HintTaken DEF Knows

(* What a step leaves of the requests has no other join.                     *)
LEMMA EnteredBefore ==
  ASSUME MeshTypeOK, NEW u \in Clients, Entered(u)',
         \/ outbox'[u] = outbox[u] /\ handler'[u] = handler[u]
         \/ (\E r \in Seq(Request) : outbox'[u] = outbox[u] \o r) /\ handler'[u] = handler[u]
         \/ /\ outbox[u] # <<>> /\ outbox'[u] = Tail(outbox[u]) /\ handler'[u].step = "idle"
            /\ JoinAt(outbox[u], 1) => handler[u].step = "entered"
  PROVE  Entered(u)
<1> DEFINE q == outbox[u]
<1>1. q \in Seq(Request)
  BY DEF MeshTypeOK
<1>2. CASE q # <<>> /\ outbox'[u] = Tail(q) /\ handler'[u].step = "idle"
           /\ (JoinAt(q, 1) => handler[u].step = "entered")
  <2>1. \A k \in DOMAIN q : k = 1 \/ (k - 1 \in DOMAIN Tail(q) /\ q[k] = Tail(q)[k - 1])
    <3> HIDE DEF q
    <3>1. /\ Len(q) \in Nat \ {0} /\ DOMAIN q = 1..Len(q) /\ DOMAIN Tail(q) = 1..(Len(q) - 1)
          /\ \A k \in 1..(Len(q) - 1) : Tail(q)[k] = q[k + 1]
      BY <1>1, <1>2, Taken
    <3> QED
      BY <3>1
  <2>2. \A k \in DOMAIN Tail(q) : ~JoinAt(Tail(q), k)
    BY <1>2 DEF Entered
  <2> QED
    BY <1>2, <2>1, <2>2 DEF Entered, JoinAt
<1>3. ASSUME NEW r \in Seq(Request), outbox'[u] = q \o r, handler'[u] = handler[u] PROVE Entered(u)
  <2>1. \A k \in DOMAIN q : k \in DOMAIN (q \o r) /\ (q \o r)[k] = q[k]
    <3> HIDE DEF q
    <3> QED
      BY <1>1, Grown
  <2> QED
    BY <1>3, <2>1 DEF Entered, JoinAt
<1> QED
  BY <1>2, <1>3 DEF Entered, JoinAt

(* The steps of the server.                                                  *)
LEMMA RosterServes ==
  ASSUME RoomInv, RosterInv, NEW w \in Clients, ServerStep(w),
         NEW u \in Clients, NEW v \in Clients, Together(u, v)'
  PROVE  Knows(u, v)'
<1> USE DEF server, view, call
<1>1. MeshTypeOK /\ Following(u) /\ Following(v) /\ Following(w)
  BY DEF RoomInv
<1>2. UNCHANGED <<chan, roster, setup>> /\ u # v /\ chan[u] # Nowhere /\ chan[u] \in Rooms
  BY <1>1 DEF ServerStep, LookUpFails, Sweep, Enter, Refuse, Reply, LeaveRoom, Relay, Together, MeshTypeOK
<1>11. /\ u # w \/ ~Sweep(w) => u \notin astray /\ wire[u]
       /\ ~(u = w /\ LookUpFails(w))
  <2>1. u \notin astray'
    BY DEF Together
  <2>2. astray' = astray \/ (Sweep(w) /\ astray' = astray \ {w}) \/ (LookUpFails(w) /\ astray' = astray \cup {w})
    BY DEF ServerStep, LookUpFails, Sweep, Enter, Refuse, Reply, LeaveRoom, Relay, luck
  <2>3. LookUpFails(w) => astray' = astray \cup {w}
    BY DEF LookUpFails
  <2>4. u # w \/ ~Sweep(w) => u \notin astray
    BY <2>1, <2>2
  <2> QED
    BY <1>1, <2>1, <2>3, <2>4 DEF Following, Down
<1>3. Together(u, v) => Knows(u, v)
  BY DEF RosterInv
(* The news of a step that is not v's sweep are not of v's leaving.          *)
<1>4. ASSUME Together(u, v), handler'[v] = handler[v], ~(w = v /\ Sweep(w)),
             \/ handler'[u] = handler[u]
             \/ handler[u].step = "entered" /\ v \in handler[u].others => Hint(inbox'[u], v)
      PROVE  Knows(u, v)'
  <2>1. \/ inbox'[u] = inbox[u]
        \/ \E e \in VoiceEvent : inbox'[u] = Append(inbox[u], e) /\ ~Parts(e, v)
    BY <1>4, News DEF Parts
  <2> QED
    BY <1>1, <1>2, <1>3, <1>4, <2>1, KnowsSent
<1>5. \A x \in Clients : x # w => outbox'[x] = outbox[x] /\ handler'[x] = handler[x]
  BY <1>1 DEF ServerStep, LookUpFails, Sweep, Enter, Refuse, Reply, LeaveRoom, Relay, Done, MeshTypeOK
<1>6. CASE Sweep(w)
  <2>1. /\ \A ch \in Rooms : w \notin room'[ch]
        /\ \A ch \in Rooms : room'[ch] \subseteq room[ch]
    BY <1>1, <1>6 DEF Sweep, MeshTypeOK
  <2>2. u # w /\ v # w
    BY <1>2, <2>1 DEF Together
  <2>3. Entered(u)
    BY <1>1, <1>5, <2>2, EnteredBefore DEF Together
  <2> QED
    BY <1>2, <1>4, <1>5, <1>11, <2>1, <2>2, <2>3 DEF Together
<1>7. CASE Enter(w)
  <2> DEFINE ch == handler[w].channel
  <2>1. ch \in Rooms /\ handler[w].step = "swept" /\ \A x \in Rooms : w \notin room[x]
    BY <1>1, <1>7 DEF Enter, Following, Working, InOneRoom
  <2>2. /\ handler'[w].step = "entered" /\ handler'[w].others = room[ch] \ {w}
        /\ \A x \in Rooms : room'[x] = IF x = ch THEN room[x] \cup {w} ELSE room[x]
    BY <1>1, <1>7 DEF Enter, MeshTypeOK, Handling
  <2> HIDE DEF ch
  <2> DEFINE c == chan[u]
  <2>3. c \in Rooms /\ u \in room'[c] /\ v \in room'[c]
    BY <1>2 DEF Together
  <2> HIDE DEF c
  <2>4. CASE u = w
    <3>1. c = ch
      BY <2>1, <2>2, <2>3, <2>4
    <3>2. v # w /\ room'[ch] = room[ch] \cup {w}
      BY <1>2, <2>1, <2>2, <2>4
    <3>3. v \in room[ch] \ {w}
      BY <2>3, <3>1, <3>2
    <3> QED
      BY <2>2, <2>4, <3>3 DEF Knows
  <2>5. CASE v = w
    <3>1. c = ch
      BY <2>1, <2>2, <2>3, <2>5
    <3>2. u # w /\ room'[ch] = room[ch] \cup {w}
      BY <1>2, <2>1, <2>2, <2>5
    <3>3. u \in room[ch] \ {w}
      BY <2>3, <3>1, <3>2
    <3> QED
      BY <2>2, <2>5, <3>3 DEF Knows
  <2>6. CASE u # w /\ v # w
    <3>1. Entered(u)
      BY <1>1, <1>5, <2>6, EnteredBefore DEF Together
    <3>2. u \in room[c] /\ v \in room[c]
      BY <2>2, <2>3, <2>6
    <3>3. Together(u, v)
      BY <1>2, <1>11, <2>6, <3>1, <3>2 DEF Together, c
    <3> QED
      BY <1>4, <1>5, <2>6, <3>3
  <2> QED
    BY <2>4, <2>5, <2>6
<1>8. CASE Refuse(w)
  <2>1. room' = room /\ \A x \in Rooms : w \notin room[x]
    BY <1>1, <1>8 DEF Refuse, Following, InOneRoom
  <2>2. u # w /\ v # w
    BY <1>2, <2>1 DEF Together
  <2>3. Entered(u)
    BY <1>1, <1>5, <2>2, EnteredBefore DEF Together
  <2> QED
    BY <1>2, <1>4, <1>5, <1>11, <2>1, <2>2, <2>3 DEF Together
<1>9. CASE Reply(w)
  <2>1. /\ room' = room /\ handler[w].step = "entered" /\ outbox[w] # <<>> /\ Done(w)
        /\ handler'[w].step = "idle"
    BY <1>1, <1>9 DEF Reply, Following, Working, MeshTypeOK, NoRequest
  <2>2. outbox'[w] = Tail(outbox[w])
    BY <1>1, <2>1, WorksOff
  <2>3. Entered(u)
    BY <1>1, <1>5, <2>1, <2>2, EnteredBefore DEF Together
  <2>4. Together(u, v)
    <3>1. ~Sweep(w)
      BY <2>1 DEF Sweep, Reading
    <3> QED
      BY <1>2, <1>11, <2>1, <2>3, <3>1 DEF Together
  <2>5. /\ handler[w].others \in SUBSET Clients /\ inbox[u] \in Seq(VoiceEvent)
        /\ Response(handler[w].others) \in VoiceEvent /\ Event("joined", w) \in VoiceEvent
    BY <1>1, EventsAre DEF MeshTypeOK, Handling
  <2>6. CASE u = w
    <3>1. inbox'[u] = Append(inbox[u], Response(handler[u].others))
      BY <1>9, <2>6 DEF Reply
    <3>2. ASSUME v \in handler[u].others
          PROVE  TellsOf(Response(handler[u].others), v) /\ ~Parts(Response(handler[u].others), v)
      BY <3>2 DEF TellsOf, Parts, Response
    <3>3. v \in handler[u].others => Hint(inbox'[u], v)
      BY <2>5, <2>6, <3>1, <3>2, HintAppended
    <3> QED
      BY <1>2, <1>4, <1>5, <2>4, <2>6, <3>3, <1>9 DEF Sweep, Reading
  <2>7. CASE v = w
    <3>1. CASE u \in handler[v].others
      <4>1. inbox'[u] = Append(inbox[u], Event("joined", v))
        BY <1>2, <1>9, <1>11, <2>7, <3>1 DEF Reply
      <4>2. TellsOf(Event("joined", v), v) /\ ~Parts(Event("joined", v), v)
        BY DEF TellsOf, Parts, Event
      <4> QED
        BY <2>5, <2>7, <4>1, <4>2, HintAppended DEF Knows
    <3>2. CASE u \notin handler[v].others
      <4>1. inbox'[u] = inbox[u] /\ handler'[u] = handler[u]
        BY <1>2, <1>5, <1>9, <2>7, <3>2 DEF Reply
      <4> QED
        BY <1>2, <1>3, <2>4, <3>2, <4>1 DEF Knows, Shows
    <3> QED
      BY <3>1, <3>2
  <2>8. CASE u # w /\ v # w
    BY <1>4, <1>5, <2>4, <2>8
  <2> QED
    BY <2>6, <2>7, <2>8
<1>10. CASE LeaveRoom(w) \/ Relay(w)
  <2>1. /\ outbox[w] # <<>> /\ Head(outbox[w]) = outbox[w][1] /\ 1 \in DOMAIN outbox[w]
        /\ outbox[w][1].type # "join" /\ handler[w].step = "idle" /\ handler' = handler
    <3>1. Reading(w, {"leave", "offer", "answer"}) /\ handler' = handler
      BY <1>10 DEF LeaveRoom, Relay, Reading
    <3>2. outbox[w] \in Seq(Request)
      BY <1>1 DEF MeshTypeOK
    <3> QED
      BY <3>1, <3>2, Taken DEF Reading
  <2>2. outbox'[w] = Tail(outbox[w])
    BY <1>1, <1>10, <2>1, WorksOff DEF LeaveRoom, Relay
  <2>3. Entered(u)
    BY <1>1, <1>5, <2>1, <2>2, EnteredBefore DEF Together, JoinAt
  <2>4. \A ch \in Rooms : room'[ch] = room[ch]
    <3>1. CASE LeaveRoom(w)
      <4>1. outbox[w][1].channel = Nowhere
        BY <1>1, <2>1, <3>1 DEF Following, RequestsName, LeaveRoom, Reading
      <4> QED
        BY <2>1, <3>1, <4>1, RoomsAssumption DEF LeaveRoom
    <3> QED
      BY <1>10, <3>1 DEF Relay
  <2>5. ~Sweep(w)
    BY <1>10 DEF LeaveRoom, Relay, Sweep, Reading
  <2> QED
    BY <1>2, <1>4, <1>11, <2>1, <2>3, <2>4, <2>5 DEF Together
<1>12. CASE LookUpFails(w)
  <2>1. u # w /\ UNCHANGED <<room, handler>> /\ handler[w].step = "idle"
    BY <1>11, <1>12 DEF LookUpFails, Reading
  <2>2. Entered(u)
    BY <1>1, <1>5, <2>1, EnteredBefore DEF Together
  <2>3. ~Sweep(w)
    <3>1. inbox' = inbox /\ outbox[w] # <<>> /\ outbox' = [outbox EXCEPT ![w] = Tail(@)]
      BY <1>12 DEF LookUpFails, Reading, Done
    <3>2. Len(outbox'[w]) # Len(outbox[w])
      BY <1>1, <3>1, Taken DEF MeshTypeOK
    <3> QED
      BY <3>2 DEF Sweep
  <2> QED
    BY <1>2, <1>4, <1>11, <2>1, <2>2, <2>3 DEF Together
<1> QED
  BY <1>6, <1>7, <1>8, <1>9, <1>10, <1>12 DEF ServerStep

(* The steps of the client.                                                  *)
LEMMA RosterHears ==
  ASSUME RoomInv, SetupInv, RosterInv, NEW u \in Clients, ClientStep(u),
         NEW v \in Clients, Together(u, v)'
  PROVE  Knows(u, v)'
<1> USE DEF server, view, call
<1> DEFINE e == Head(inbox[u])
           n == manager[u]
<1>1. MeshTypeOK /\ UNCHANGED <<room, handler, chan, astray>>
  BY DEF RoomInv, ClientStep, Ignore, OnResponse, OnJoined, OnLeft, OnOffer, OnAnswer, AudioReady, AudioFails,
         MicReady, MicDenied, luck
<1>2. u # v /\ chan[u] # Nowhere
  BY <1>1 DEF Together
<1>3. inbox[u] # <<>> => e \in VoiceEvent
  BY <1>1, Taken DEF MeshTypeOK
<1>4. Entered(u)
  <2>1. ASSUME NEW r \in Seq(Signals), Sent(u, r) PROVE Entered(u)
    <3>1. PICK s \in Seq(Signals) : outbox' = [outbox EXCEPT ![u] = @ \o s]
      BY <2>1, SentIs
    <3>2. s \in Seq(Request)
      BY RequestSets, Wider
    <3>3. outbox'[u] = outbox[u] \o s
      BY <1>1, <3>1, <3>2, Sends
    <3> QED
      BY <1>1, <3>2, <3>3, EnteredBefore DEF Together
  <2>2. CASE outbox' = outbox
    BY <1>1, <2>2, EnteredBefore DEF Together
  <2>3. ASSUME NEW m \in Setups, MicReady(u, m) PROVE Entered(u)
    <3>1. OffersTo(u, setup[u][m].known \ {u}) \in Seq(Signals)
      BY <1>1, OffersAreSignals DEF MeshTypeOK, Setup
    <3> QED
      BY <2>1, <2>3, <3>1 DEF MicReady
  <2>4. CASE OnJoined(u) \/ OnOffer(u)
    <3>1. e.from \in Clients
      BY <1>3, <2>4 DEF OnJoined, OnOffer, Arrives, VoiceEvent
    <3>2. OffersTo(u, {e.from}) \in Seq(Signals) /\ <<Signal("answer", e.from)>> \in Seq(Signals)
      BY <3>1, OffersAreSignals, RequestSets
    <3> QED
      BY <2>1, <2>2, <2>4, <3>2 DEF OnJoined, OnOffer
  <2>5. \/ outbox' = outbox \/ OnJoined(u) \/ OnOffer(u)
        \/ \E m \in Setups : MicReady(u, m)
    BY DEF ClientStep, Ignore, OnResponse, OnLeft, OnAnswer, AudioReady, AudioFails, MicDenied
  <2> QED
    BY <2>2, <2>3, <2>4, <2>5
<1>5. Knows(u, v)
  BY <1>1, <1>4 DEF RosterInv, Together
<1>6. inbox' = [inbox EXCEPT ![u] = Tail(@)] /\ inbox[u] # <<>> => inbox'[u] = Tail(inbox[u])
  BY <1>1, Hears
(* The roster or a setup that begins gains what an event tells, and loses    *)
(* only whom it says has left.                                               *)
<1>7. CASE OnResponse(u)
  <2> DEFINE m == NextSetup(u)
             x == [NoSetup EXCEPT !.stage = "init", !.known = e.known]
  <2>1. x \in Setup /\ x.stage = "init" /\ x.known = e.known
    BY <1>3, <1>7 DEF OnResponse, Arrives, NoSetup, VoiceEvent, Setup
  <2>2. m \in Setups /\ setup[u][m].stage = "none"
    <3> HIDE DEF x
    <3>1. setup' = [setup EXCEPT ![u][m] = x]
      BY <1>7 DEF OnResponse, x
    <3> QED
      BY <1>1, <1>7, <2>1, <3>1, AnswerTakes DEF OnResponse, Arrives, luck, bounds
  <2>3. /\ setup'[u][m] = x /\ roster' = roster
        /\ \A k \in Setups : k # m => setup'[u][k] = setup[u][k]
    <3> HIDE DEF x, m
    <3>1. setup' = [setup EXCEPT ![u][m] = x] /\ roster' = roster
      BY <1>7 DEF OnResponse, x, m
    <3>2. setup \in [Clients -> [Setups -> Setup]]
      BY <1>1 DEF MeshTypeOK
    <3> QED
      BY <2>2, <3>1, <3>2
  <2> HIDE DEF m, x
  <2>4. Shows(u, v) => Shows(u, v)'
    BY <2>2, <2>3 DEF Shows
  <2>5. TellsOf(e, v) => Shows(u, v)'
    BY <1>7, <2>1, <2>2, <2>3 DEF Shows, TellsOf, OnResponse, Arrives
  <2> QED
    BY <1>1, <1>5, <1>6, <1>7, <2>4, <2>5, KnowsHeard DEF OnResponse, Arrives
<1>8. CASE OnJoined(u) \/ OnLeft(u) \/ OnOffer(u) \/ OnAnswer(u)
  <2>1. /\ inbox[u] # <<>> /\ inbox' = [inbox EXCEPT ![u] = Tail(@)] /\ setup' = setup
        /\ e.type # "response" /\ (e.type = "joined" => OnJoined(u))
    BY <1>8 DEF OnJoined, OnLeft, OnOffer, OnAnswer, Arrives
  <2>2. CASE OnJoined(u)
    <3>1. roster'[u] = roster[u] \cup {e.from}
      BY <1>1, <2>2 DEF OnJoined, MeshTypeOK
    <3> QED
      BY <1>1, <1>5, <1>6, <2>1, <3>1, KnowsHeard DEF Shows, TellsOf
  <2>3. CASE OnLeft(u)
    <3>1. roster'[u] = roster[u] \ {e.from} /\ e.type = "left"
      BY <1>1, <2>3 DEF OnLeft, Arrives, MeshTypeOK
    <3> QED
      BY <1>1, <1>5, <1>6, <2>1, <3>1, KnowsHeard DEF Shows, TellsOf, Parts
  <2>4. CASE OnOffer(u) \/ OnAnswer(u)
    <3>1. roster' = roster /\ e.type # "joined"
      BY <2>4 DEF OnOffer, OnAnswer, Arrives
    <3> QED
      BY <1>1, <1>5, <1>6, <2>1, <3>1, KnowsHeard DEF Shows, TellsOf
  <2> QED
    BY <1>8, <2>2, <2>3, <2>4
<1>9. ASSUME UNCHANGED inbox, Shows(u, v) => Shows(u, v)' PROVE Knows(u, v)'
  BY <1>1, <1>5, <1>9 DEF Knows
<1>10. ASSUME NEW m \in Setups, AudioReady(u, m) PROVE Knows(u, v)'
  <2>1. roster'[u] = roster[u] \cup setup[u][m].known /\ inbox' = inbox
    BY <1>1, <1>10 DEF AudioReady, MeshTypeOK
  <2>2. \A k \in Setups : k # m => setup'[u][k] = setup[u][k]
    BY <1>1, <1>10 DEF AudioReady, MeshTypeOK
  <2> QED
    BY <1>9, <2>1, <2>2 DEF Shows
<1>11. ASSUME NEW m \in Setups, MicReady(u, m) \/ MicDenied(u, m) PROVE Knows(u, v)'
  <2>1. roster' = roster /\ inbox' = inbox /\ setup[u][m].stage = "mic"
    BY <1>11 DEF MicReady, MicDenied
  <2>2. \A k \in Setups : k # m => setup'[u][k] = setup[u][k]
    BY <1>1, <1>11 DEF MicReady, MicDenied, MeshTypeOK
  <2> QED
    BY <1>9, <2>1, <2>2 DEF Shows
<1>12. ~Ignore(u)
  BY <1>2 DEF Ignore
<1>13. ASSUME NEW m \in Setups, AudioFails(u, m) PROVE Knows(u, v)'
  <2>1. roster' = roster /\ inbox' = inbox
    BY <1>13 DEF AudioFails
  <2>2. /\ setup'[u][m].stage = "failed" /\ setup'[u][m].known = setup[u][m].known
        /\ \A k \in Setups : k # m => setup'[u][k] = setup[u][k]
    <3>1. setup[u][m] \in Setup
      BY <1>1 DEF MeshTypeOK
    <3>2. setup' = [setup EXCEPT ![u][m] = [setup[u][m] EXCEPT !.stage = "failed"]]
      BY <1>1, <1>13 DEF AudioFails, MeshTypeOK
    <3>3. [setup[u][m] EXCEPT !.stage = "failed"] \in Setup
      BY <3>1 DEF Setup
    <3> DEFINE x == [setup[u][m] EXCEPT !.stage = "failed"]
    <3>4. x.stage = "failed" /\ x.known = setup[u][m].known
      BY <3>1 DEF Setup
    <3>5. x \in Setup /\ setup' = [setup EXCEPT ![u][m] = x]
      BY <3>2, <3>3
    <3> HIDE DEF x
    <3>6. /\ \A w \in Clients, k \in Setups : w # u \/ k # m => setup'[w][k] = setup[w][k]
          /\ setup'[u][m] = x
      <4>1. setup \in [Clients -> [Setups -> Setup]]
        BY <1>1 DEF MeshTypeOK
      <4> QED
        BY <3>5, <4>1
    <3> QED
      BY <3>4, <3>6
  <2> QED
    BY <1>9, <2>1, <2>2 DEF Shows
<1> QED
  BY <1>7, <1>8, <1>10, <1>11, <1>12, <1>13 DEF ClientStep

(* What a client hears and what becomes of its audio changes no other client,*)
(* and nothing on the server.                                                *)
LEMMA ClientKeepsOthers ==
  ASSUME MeshTypeOK, NEW w \in Clients, NEW u \in Clients, w # u, ClientStep(w)
  PROVE  /\ UNCHANGED <<room, handler, chan, astray>>
         /\ outbox'[u] = outbox[u] /\ inbox'[u] = inbox[u] /\ roster'[u] = roster[u]
         /\ \A n \in Setups : setup'[u][n] = setup[u][n]
<1> DEFINE Kept == /\ UNCHANGED <<room, handler, chan, astray>>
                   /\ outbox'[u] = outbox[u] /\ inbox'[u] = inbox[u] /\ roster'[u] = roster[u]
                   /\ \A n \in Setups : setup'[u][n] = setup[u][n]
<1> USE DEF server, view, call, luck, Arrives, Sent
<1>2. u \in DOMAIN outbox /\ u \in DOMAIN inbox /\ u \in DOMAIN roster /\ u \in DOMAIN setup
  BY DEF MeshTypeOK
<1>3. CASE Ignore(w)
  BY <1>2, <1>3 DEF Ignore
<1>4. CASE OnResponse(w)
  BY <1>2, <1>4 DEF OnResponse
<1>5. CASE OnJoined(w)
  BY <1>2, <1>5 DEF OnJoined
<1>6. CASE OnLeft(w)
  BY <1>2, <1>6 DEF OnLeft
<1>7. CASE OnOffer(w)
  BY <1>2, <1>7 DEF OnOffer
<1>8. CASE OnAnswer(w)
  BY <1>2, <1>8 DEF OnAnswer
<1>9. ASSUME NEW n \in Setups, AudioReady(w, n) PROVE Kept
  BY <1>2, <1>9 DEF AudioReady
<1>10. ASSUME NEW n \in Setups, AudioFails(w, n) PROVE Kept
  BY <1>2, <1>10 DEF AudioFails
<1>11. ASSUME NEW n \in Setups, MicReady(w, n) PROVE Kept
  BY <1>2, <1>11 DEF MicReady
<1>12. ASSUME NEW n \in Setups, MicDenied(w, n) PROVE Kept
  BY <1>2, <1>12 DEF MicDenied
<1> QED
  BY <1>3, <1>4, <1>5, <1>6, <1>7, <1>8, <1>9, <1>10, <1>11, <1>12 DEF ClientStep

LEMMA RosterStep == RoomInv /\ SetupInv /\ RosterInv /\ [MeshNext]_meshVars => RosterInv'
<1> SUFFICES ASSUME RoomInv, SetupInv, RosterInv, [MeshNext]_meshVars,
                    NEW u \in Clients, NEW v \in Clients, Together(u, v)'
             PROVE  Knows(u, v)'
  BY DEF RosterInv
<1> USE DEF server, view, call
<1>1. MeshTypeOK /\ Following(u)
  BY DEF RoomInv
<1>2. ASSUME NEW w \in Clients, ServerStep(w) PROVE Knows(u, v)'
  BY <1>2, RosterServes
<1>3. CASE ClientStep(u)
  BY <1>3, RosterHears
(* What other clients do shows in the messages they send.                    *)
<1>4. ASSUME UNCHANGED <<room, handler, astray>>, outbox'[u] = outbox[u], inbox'[u] = inbox[u],
             chan'[u] = chan[u], roster'[u] = roster[u], \A n \in Setups : setup'[u][n] = setup[u][n]
      PROVE  Knows(u, v)'
  BY <1>4 DEF Together, Entered, JoinAt, Knows, Shows, RosterInv
<1>5. ASSUME NEW w \in Clients, w # u, ClientStep(w) PROVE Knows(u, v)'
  BY <1>1, <1>4, <1>5, ClientKeepsOthers
<1>6. ASSUME NEW w \in Clients, w # u, UserStep(w) PROVE Knows(u, v)'
  <2>1. /\ UNCHANGED <<room, handler, inbox, astray>> /\ CleanUp(w)
        /\ outbox'[u] = outbox[u] /\ chan'[u] = chan[u] /\ roster'[u] = roster[u]
    <3>1. CASE LeaveVoice(w)
      BY <1>1, <1>6, <3>1 DEF LeaveVoice, Sent, MeshTypeOK
    <3>2. ASSUME NEW ch \in Rooms, JoinVoice(w, ch)
          PROVE  /\ UNCHANGED <<room, handler, inbox, astray>> /\ CleanUp(w)
                 /\ outbox'[u] = outbox[u] /\ chan'[u] = chan[u] /\ roster'[u] = roster[u]
      BY <1>1, <1>6, <3>2 DEF JoinVoice, Sent, MeshTypeOK
    <3> QED
      BY <1>6, <3>1, <3>2 DEF UserStep
  <2>2. \A n \in Setups : setup'[u][n] = setup[u][n]
    BY <1>1, <1>6, <2>1, CleanUpIs
  <2> QED
    BY <1>4, <2>1, <2>2
<1>7. ~LeaveVoice(u)
  BY <1>1 DEF LeaveVoice, Together, MeshTypeOK
(* A join makes what the client shows and heard count for nothing.           *)
<1>8. ASSUME NEW ch \in Rooms, JoinVoice(u, ch) PROVE FALSE
  <2> DEFINE r == <<JoinRequest(ch)>> \o Farewell(u)
             q == outbox[u]
             t == outbox'[u]
  <2>1. /\ Farewell(u) \in Seq(Request) /\ <<JoinRequest(ch)>> \in Seq(Request) /\ r \in Seq(Request)
    BY RequestSets, FarewellIs, Grown
  <2>2. r[1] = JoinRequest(ch) /\ Len(r) \in Nat \ {0}
    <3> HIDE DEF JoinRequest, Request
    <3> QED
      BY <2>1, Grown
  <2>3. t = q \o r /\ handler' = handler
    <3>1. outbox' = [outbox EXCEPT ![u] = @ \o r]
      <4> HIDE DEF r
      <4>1. Sent(u, r) /\ wire[u]
        BY <1>8 DEF JoinVoice, r
      <4> QED
        BY <2>1, <4>1, SentIs
    <3> QED
      BY <1>1, <1>8, <2>1, <3>1, Sends DEF JoinVoice
  <2>4. q \in Seq(Request)
    BY <1>1 DEF MeshTypeOK
  <2> HIDE DEF r, q, t
  <2>5. /\ Len(q) \in Nat /\ DOMAIN t = 1..(Len(q) + Len(r)) /\ t[Len(q) + 1] = r[1]
    <3>1. 1 \in 1..Len(r)
      BY <2>2
    <3> QED
      BY <2>1, <2>3, <2>4, <3>1, Grown
  <2>6. Len(q) + 1 \in DOMAIN t /\ JoinAt(t, Len(q) + 1)
    BY <2>2, <2>5 DEF JoinAt, JoinRequest
  <2>7. Len(q) + 1 = 1 /\ handler[u].step = "entered"
    BY <2>3, <2>6 DEF Together, Entered, t
  <2>8. Len(q) = 0
    BY <2>5, <2>7
  <2>9. q = <<>>
    BY <2>4, <2>8
  <2> QED
    BY <1>1, <2>7, <2>9 DEF Following, Working, q
<1>9. CASE UNCHANGED meshVars
  BY <1>4, <1>9 DEF meshVars
<1>10. ASSUME NEW w \in Clients, SocketLost(w) PROVE Knows(u, v)'
  <2>1. /\ UNCHANGED <<handler, chan, roster, setup>> /\ astray' = astray \cup {w}
        /\ \A x \in Clients : x # w => outbox'[x] = outbox[x]
        /\ \A ch \in Rooms : room'[ch] = room[ch] \ {w}
    BY <1>1, <1>10 DEF SocketLost, MeshTypeOK
  <2>2. u # w
    BY <2>1 DEF Together
  <2>3. chan[u] \in Rooms
    BY <1>1, <2>1 DEF MeshTypeOK, Together
  <2>4. v # w /\ Together(u, v)
    BY <2>1, <2>2, <2>3 DEF Together, Entered, JoinAt
  <2>5. Event("left", w) \in VoiceEvent /\ ~Parts(Event("left", w), v)
    BY <2>4, EventsAre DEF Event, Parts
  <2>6. inbox'[u] = inbox[u] \/ inbox'[u] = Append(inbox[u], Event("left", w))
    BY <1>10, <2>2 DEF SocketLost
  <2> QED
    BY <1>1, <2>1, <2>4, <2>5, <2>6, KnowsSent DEF RosterInv
<1>11. ASSUME NEW w \in Clients, SocketBack(w) PROVE Knows(u, v)'
  BY <1>4, <1>11 DEF SocketBack
<1>12. ASSUME NEW w \in Clients, NEW n \in Setups, NEW x \in Clients, IceFails(w, n, x) \/ PeerGone(w, n, x)
       PROVE  Knows(u, v)'
  <2>1. UNCHANGED <<room, handler, inbox, chan, roster, setup, astray>>
    BY <1>12 DEF IceFails, PeerGone
  <2>2. <<Signal("offer", x)>> \in Seq(Request)
    BY RequestSets
  <2>3. \/ outbox' = outbox
        \/ \E s \in Seq(Request) : outbox' = [outbox EXCEPT ![w] = @ \o s]
    <3>1. outbox' = outbox \/ Sent(w, <<Signal("offer", x)>>)
      BY <1>12 DEF IceFails, PeerGone
    <3> QED
      BY <2>2, <3>1, SentIs
  <2>4. \/ outbox'[u] = outbox[u]
        \/ \E s \in Seq(Request) : outbox'[u] = outbox[u] \o s
    BY <1>1, <2>3, Sends
  <2>5. Entered(u)
    BY <1>1, <2>1, <2>4, EnteredBefore DEF Together
  <2> QED
    BY <2>1, <2>5 DEF Together, Knows, Shows, RosterInv
<1> QED
  BY <1>2, <1>3, <1>5, <1>6, <1>7, <1>8, <1>9, <1>10, <1>11, <1>12 DEF MeshNext, UserStep, Mishap

(* When the messages are all handled, a client shows every other member of   *)
(* its room: however the responses and the news of joins and leaves pass     *)
(* each other, whatever clients do while their audio is set up, and whoever  *)
(* loses his socket; only one who has lost it himself, or a join to a failed *)
(* look-up, or whose audio did not start may miss some.                      *)
THEOREM RosterAlwaysComplete == MeshSpec => []RosterComplete
<1>1. MeshInit => RosterInv
  BY DEF MeshInit, RosterInv, Together
<1>2. RoomInv /\ RosterInv => RosterComplete
  <2> SUFFICES ASSUME RosterInv, Quiet, NEW u \in Clients, u \notin astray,
                      chan[u] # Nowhere, u \in room[chan[u]],
                      NEW v \in room[chan[u]], v # u, v \in Clients
               PROVE  v \in roster[u] \cup Unheard(u)
    BY DEF RosterComplete, RoomInv, MeshTypeOK
  <2>1. /\ outbox[u] = <<>> /\ inbox[u] = <<>> /\ handler[u].step = "idle" /\ handler[v].step = "idle"
        /\ \A n \in Setups : setup[u][n].stage # "init"
    BY DEF Quiet
  <2>2. Together(u, v)
    BY <2>1 DEF Together, Entered
  <2>3. Shows(u, v)
    BY <2>1, <2>2 DEF RosterInv, Knows, Hint
  <2> QED
    BY <2>1, <2>3 DEF Shows, Unheard
<1> QED
  BY <1>1, <1>2, RoomInit, RoomStep, SetupInit, SetupStep, RosterStep, PTL DEF MeshSpec
==============================================================================
