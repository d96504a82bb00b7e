-------------------------- MODULE Connections_proofs --------------------------
(***************************************************************************)
(* Proofs about module Connections, for any sets of users, connections and *)
(* moderation requests.                                                    *)
(***************************************************************************)
EXTENDS Connections, TLAPS

USE DEF ConnPC, Status, RequestState, ConnsOf, Running, Open, keyVars, shown

(* Every step of the actors, the moderation handlers and the REST presence   *)
(* handler keeps the shape of the state.                                     *)
LEMMA TypeStep == TypeOK /\ [Next]_vars => TypeOK'
<1> SUFFICES ASSUME TypeOK, [Next]_vars PROVE TypeOK'
  OBVIOUS
<1> USE UserOfAssumption, OwnersAssumption, MaxRenamingsAssumption
    DEF TypeOK, connVars, modVars, Names
<1>1. ASSUME NEW c \in Conns, ConnStep(c) PROVE TypeOK'
  <2>1. CASE Upgrade(c)
    BY <2>1 DEF Upgrade, Unexpired
  <2>2. CASE UpgradeAbandoned(c)
    BY <2>2 DEF UpgradeAbandoned
  <2>3. CASE Register(c)
    BY <2>3 DEF Register
  <2>4. CASE GoOnline(c)
    BY <2>4 DEF GoOnline
  <2>5. CASE PeerGone(c)
    BY <2>5 DEF PeerGone
  <2>6. CASE PongTimeout(c)
    BY <2>6 DEF PongTimeout
  <2>7. CASE WriterCloses(c)
    BY <2>7 DEF WriterCloses
  <2>8. CASE WriterFails(c)
    BY <2>8 DEF WriterFails
  <2>9. CASE WriterAborted(c)
    BY <2>9 DEF WriterAborted
  <2>10. CASE ReaderEnds(c)
    BY <2>10 DEF ReaderEnds
  <2>11. CASE RetainOpen(c)
    BY <2>11 DEF RetainOpen
  <2>12. CASE RemoveEntry(c)
    BY <2>12 DEF RemoveEntry
  <2>13. CASE ReadRemaining(c)
    BY <2>13 DEF ReadRemaining
  <2>14. CASE GoOffline(c)
    BY <2>14 DEF GoOffline
  <2>15. CASE LookUpUser(c)
    BY <2>15 DEF LookUpUser
  <2> QED
    BY <1>1, <2>1, <2>2, <2>3, <2>4, <2>5, <2>6, <2>7, <2>8, <2>9, <2>10,
       <2>11, <2>12, <2>13, <2>14, <2>15 DEF ConnStep, TaskStep
<1>2. ASSUME NEW r \in Requests, RequestStep(r) PROVE TypeOK'
  <2>1. CASE BanInsert(r)
    <3>1. PICK term \in {"forever", "timed"} :
            request' = [request EXCEPT ![r].step = "ban", ![r].term = term]
      BY <2>1 DEF BanInsert
    <3>2. request[r] \in RequestState
      OBVIOUS
    <3>3. request' \in [Requests -> RequestState]
      BY <3>1, <3>2
    <3>4. bans' \in [Users -> Requests \cup {NoBan}]
      BY <2>1, <3>2 DEF BanInsert
    <3>5. inFlight' \in [Requests -> SUBSET Conns]
      BY <2>1, <3>2 DEF BanInsert
    <3> QED
      BY <2>1, <3>3, <3>4, <3>5 DEF BanInsert
  <2>0. ASSUME NEW step \in {"kick", "done", "dropped"},
               request' = [request EXCEPT ![r].step = step]
        PROVE  request' \in [Requests -> RequestState]
    <3>1. request[r] \in RequestState
      OBVIOUS
    <3>2. [request[r] EXCEPT !.step = step] \in RequestState
      BY <3>1 DEF RequestState
    <3> QED
      BY <2>0, <3>2
  <2>2. CASE KickCheck(r)
    BY <2>0, <2>2 DEF KickCheck
  <2>3. CASE ForceClose(r)
    <3> DEFINE told(c) == c \in registry[request[r].user] /\ rx[c] = "open"
    <3>3. request' \in [Requests -> RequestState]
      BY <2>0, <2>3 DEF ForceClose
    <3>4. closing' \in [Conns -> BOOLEAN]
      <4>1. closing' = [c \in Conns |-> closing[c] \/ told(c)]
        BY <2>3, Zenon DEF ForceClose
      <4>2. \A c \in Conns : (closing[c] \/ told(c)) \in BOOLEAN
        OBVIOUS
      <4> QED
        BY <4>1, <4>2, Zenon
    <3>5. UNCHANGED <<pc, rx, wire, registry, keys, keyVars, shown, bans, inFlight>>
      BY <2>3 DEF ForceClose
    <3> QED
      BY <3>3, <3>4, <3>5
  <2>4. CASE RequestDropped(r)
    BY <2>0, <2>4 DEF RequestDropped
  <2>5. CASE BanLapses(r)
    <3>1. request[r] \in RequestState
      OBVIOUS
    <3>2. [request[r] EXCEPT !.term = "lapsed"] \in RequestState
      BY <3>1 DEF RequestState
    <3>3. request' \in [Requests -> RequestState]
      BY <2>5, <3>2 DEF BanLapses
    <3> QED
      BY <2>5, <3>3 DEF BanLapses
  <2> QED
    BY <1>2, <2>1, <2>2, <2>3, <2>4, <2>5 DEF RequestStep
<1>3. ASSUME NEW u \in Users, SetPresence(u) \/ KeyChanges(u) \/ Unban(u) PROVE TypeOK'
  <2>1. CASE SetPresence(u)
    <3>1. PICK k \in held[u], s \in Asked :
            /\ presence' = [presence EXCEPT ![k] = s]
            /\ setBy' = [setBy EXCEPT ![k] = "rest"]
      BY <2>1 DEF SetPresence
    <3>2. s \in Status
      BY AskedAssumption
    <3> QED
      BY <2>1, <3>1, <3>2 DEF SetPresence
  <2>2. CASE Unban(u)
    BY <2>2 DEF Unban
  <2>3. CASE KeyChanges(u)
    BY <2>3 DEF KeyChanges
  <2> QED
    BY <1>3, <2>1, <2>2, <2>3
<1>4. CASE ListBans
  BY <1>4 DEF ListBans, Unexpired
<1>5. CASE Restart
  <2>1. pc' \in [Conns -> ConnPC]
    BY <1>5 DEF Restart
  <2>2. rx' \in [Conns -> {"open", "dropped"}] /\ wire' \in [Conns -> {"up", "closed", "down"}]
    BY <1>5 DEF Restart
  <2>3. /\ registry' \in [Users -> SUBSET Conns] /\ keys' \in SUBSET Users
        /\ presence' \in [Names -> Status] /\ setBy' \in [Names -> {"ws", "rest"}]
        /\ held' \in [Users -> SUBSET PublicKeys] /\ skipped' \in SUBSET Conns
        /\ shownAs' \in [Conns -> Names \cup {NoName}]
    BY <1>5 DEF Restart
  <2>4. ASSUME NEW r \in Requests PROVE [request[r] EXCEPT !.step = "dropped"] \in RequestState
    <3>1. request[r] \in RequestState
      OBVIOUS
    <3> QED
      BY <3>1 DEF RequestState
  <2>5. request' \in [Requests -> RequestState]
    BY <1>5, <2>4 DEF Restart
  <2>6. UNCHANGED <<closing, publicKey, renamings, bans, inFlight>>
    BY <1>5 DEF Restart
  <2> QED
    BY <2>1, <2>2, <2>3, <2>5, <2>6
<1>6. CASE UNCHANGED vars
  BY <1>6 DEF vars
<1> QED
  BY <1>1, <1>2, <1>3, <1>4, <1>5, <1>6 DEF Next

THEOREM TypeCorrect == Spec => []TypeOK
<1>1. Init => TypeOK
  BY FirstKeyAssumption, MaxRenamingsAssumption DEF Init, TypeOK
<1> QED
  BY <1>1, TypeStep, PTL DEF Spec

-----------------------------------------------------------------------------
(* What makes OnlineIsExplained inductive: an actor has the name it publishes *)
(* under once it is past its lookup, and not before.                         *)
ActorsAreNamed ==
  \A c \in Conns :
    /\ Running(c) /\ pc[c] # "registered" => shownAs[c] \in Names
    /\ pc[c] \in {"idle", "checked", "registered"} => shownAs[c] = NoName

(* The ways in which n may be shown online.                                  *)
Carried(n)  == \E c \in Conns : Running(c) /\ shownAs[c] = n
Counted(n)  == \E c \in Conns : /\ LeftOnline(c, n)
                               /\ UserOf[c] \in keys /\ registry[UserOf[c]] # {}
Misplaced(n) == \E c \in Conns : /\ LeftOnline(c, n)
                                /\ \E d \in ConnsOf(UserOf[c]) : shownAs[d] \notin {n, NoName}

(* An emptied entry of a user was emptied by one of its actors that has yet  *)
(* to read it: who is left online in the registry's stead has the name of    *)
(* that actor, or is misplaced.                                              *)
LEMMA EmptiedByActor ==
  ASSUME TypeOK, ActorsAreNamed, NEW c \in Conns, NEW n \in Names,
         Running(c), pc[c] # "registered", NEW d \in Conns, LeftOnline(d, n),
         UserOf[d] = UserOf[c]
  PROVE  shownAs[c] = n \/ Misplaced(n)
BY NoNameAssumption DEF ActorsAreNamed, Misplaced

(* The presence an actor published online is withdrawn by an actor of the    *)
(* same name, or is left to a sender of its user in the registry; and it     *)
(* outlives that sender only if it was another name's.  ReadRemaining is the *)
(* only step by which an actor can stop without writing OFFLINE, and the     *)
(* steps that empty an entry belong to an actor that has yet to read it.     *)
THEOREM OnlineExplained == Spec => []OnlineIsExplained
<1> DEFINE IInv == ActorsAreNamed /\ OnlineIsExplained
<1>1. Init => IInv
  BY DEF Init, ActorsAreNamed, OnlineIsExplained
<1>2. TypeOK /\ ActorsAreNamed /\ [Next]_vars => ActorsAreNamed'
  <2> SUFFICES ASSUME TypeOK, ActorsAreNamed, [Next]_vars, NEW d \in Conns
               PROVE  /\ Running(d)' /\ pc'[d] # "registered" => shownAs'[d] \in Names
                      /\ pc'[d] \in {"idle", "checked", "registered"} => shownAs'[d] = NoName
    BY DEF ActorsAreNamed
  <2> USE UserOfAssumption DEF TypeOK, ActorsAreNamed, connVars, modVars
  <2> DEFINE Goal == /\ Running(d)' /\ pc'[d] # "registered" => shownAs'[d] \in Names
                     /\ pc'[d] \in {"idle", "checked", "registered"} => shownAs'[d] = NoName
  <2>1. ASSUME NEW c \in Conns, ConnStep(c) PROVE Goal
    <3>1. CASE LookUpUser(c)
      BY <3>1 DEF LookUpUser, Names
    <3>2. CASE Upgrade(c) \/ UpgradeAbandoned(c) \/ Register(c)
      BY <3>2 DEF Upgrade, UpgradeAbandoned, Register
    <3>3. CASE PeerGone(c) \/ PongTimeout(c) \/ WriterCloses(c)
               \/ WriterFails(c) \/ WriterAborted(c)
      BY <3>3 DEF PeerGone, PongTimeout, WriterCloses, WriterFails, WriterAborted
    <3>4. CASE GoOnline(c) \/ ReaderEnds(c) \/ RetainOpen(c)
      BY <3>4 DEF GoOnline, ReaderEnds, RetainOpen
    <3>5. CASE RemoveEntry(c) \/ ReadRemaining(c) \/ GoOffline(c)
      BY <3>5 DEF RemoveEntry, ReadRemaining, GoOffline
    <3> QED
      BY <2>1, <3>1, <3>2, <3>3, <3>4, <3>5 DEF ConnStep, TaskStep
  <2>2. ASSUME NEW r \in Requests, RequestStep(r) PROVE Goal
    BY <2>2 DEF RequestStep, BanInsert, KickCheck, ForceClose, RequestDropped, BanLapses
  <2>3. CASE \E u \in Users : SetPresence(u) \/ KeyChanges(u) \/ Unban(u)
    BY <2>3 DEF SetPresence, KeyChanges, Unban
  <2>4. CASE ListBans \/ UNCHANGED vars
    BY <2>4 DEF ListBans, vars
  <2>5. CASE Restart
    BY <2>5 DEF Restart
  <2> QED
    BY <2>1, <2>2, <2>3, <2>4, <2>5 DEF Next
<1>3. TypeOK /\ IInv /\ [Next]_vars => OnlineIsExplained'
  <2> SUFFICES ASSUME TypeOK, ActorsAreNamed, OnlineIsExplained, [Next]_vars,
                      NEW n \in Names, presence'[n] = "online", setBy'[n] = "ws"
               PROVE  Carried(n)' \/ Counted(n)' \/ Misplaced(n)'
    BY DEF OnlineIsExplained, Carried, Counted, Misplaced
  <2> DEFINE Shown == presence[n] = "online" /\ setBy[n] = "ws"
  <2>0. Shown => Carried(n) \/ Counted(n) \/ Misplaced(n)
    BY DEF OnlineIsExplained, Carried, Counted, Misplaced
  <2> USE UserOfAssumption, NoNameAssumption DEF TypeOK, connVars, modVars, LeftOnline
  <2>1. ASSUME NEW c \in Conns, ConnStep(c)
        PROVE  Carried(n)' \/ Counted(n)' \/ Misplaced(n)'
    <3>1. CASE \/ Upgrade(c) \/ UpgradeAbandoned(c)
               \/ PeerGone(c) \/ PongTimeout(c) \/ WriterCloses(c)
               \/ WriterFails(c) \/ WriterAborted(c) \/ ReaderEnds(c)
      <4>1. UNCHANGED <<registry, keys, shown>>
        BY <3>1 DEF Upgrade, UpgradeAbandoned, PeerGone, PongTimeout, WriterCloses,
                    WriterFails, WriterAborted, ReaderEnds
      <4>2. \A d \in Conns : Running(d) => Running(d)'
        BY <3>1 DEF Upgrade, UpgradeAbandoned, PeerGone, PongTimeout, WriterCloses,
                    WriterFails, WriterAborted, ReaderEnds
      <4> QED
        BY <2>0, <4>1, <4>2 DEF Carried, Counted, Misplaced
    <3>2. CASE Register(c)
      BY <2>0, <3>2 DEF Register, Carried, Counted, Misplaced
    <3>3. CASE LookUpUser(c)
      <4>1. /\ UNCHANGED <<registry, keys, presence, setBy, skipped>>
            /\ \A d \in Conns : Running(d) => Running(d)'
            /\ \A d \in Conns \ {c} : shownAs'[d] = shownAs[d]
            /\ shownAs'[c] \in Names
            /\ shownAs[c] = NoName
        <5>1. shownAs[c] = NoName
          BY <3>3 DEF LookUpUser, ActorsAreNamed
        <5> QED
          BY <3>3, <5>1 DEF LookUpUser, Names
      <4>2. \A d \in Conns : shownAs[d] = n => shownAs'[d] = n
        BY <4>1
      <4>3. Carried(n) => Carried(n)'
        BY <4>1, <4>2 DEF Carried
      <4>4. Counted(n) => Counted(n)'
        BY <4>1, <4>2 DEF Counted
      <4>5. \A d \in Conns : shownAs[d] \notin {n, NoName} => shownAs'[d] \notin {n, NoName}
        BY <4>1
      <4>6. Misplaced(n) => Misplaced(n)'
        BY <4>1, <4>2, <4>5 DEF Misplaced
      <4> QED
        BY <2>0, <4>1, <4>3, <4>4, <4>6
    <3>4. CASE GoOnline(c)
      BY <2>0, <3>4 DEF GoOnline, Carried, Counted, Misplaced
    <3>5. CASE RetainOpen(c)
      <4>1. /\ UNCHANGED shown /\ Running(c)' /\ Running(c) /\ pc[c] # "registered"
            /\ \A d \in Conns : Running(d) => Running(d)'
            /\ \A u \in Users \ {UserOf[c]} : registry'[u] = registry[u]
            /\ keys' = keys
        BY <3>5 DEF RetainOpen
      <4>2. ASSUME NEW d \in Conns, LeftOnline(d, n), UserOf[d] = UserOf[c]
            PROVE  shownAs[c] = n \/ Misplaced(n)
        BY <4>1, <4>2, EmptiedByActor
      <4>3. Carried(n) => Carried(n)'
        BY <4>1 DEF Carried
      <4>4. Misplaced(n) => Misplaced(n)'
        BY <4>1 DEF Misplaced
      <4>5. ASSUME Counted(n) PROVE Counted(n)' \/ Carried(n)' \/ Misplaced(n)'
        <5>1. PICK d \in Conns : /\ LeftOnline(d, n)
                                 /\ UserOf[d] \in keys /\ registry[UserOf[d]] # {}
          BY <4>5 DEF Counted
        <5>2. CASE UserOf[d] = UserOf[c]
          BY <4>1, <4>2, <4>4, <5>1, <5>2 DEF Carried
        <5>3. CASE UserOf[d] # UserOf[c]
          BY <4>1, <5>1, <5>3 DEF Counted
        <5> QED
          BY <5>2, <5>3
      <4> QED
        BY <2>0, <4>1, <4>3, <4>4, <4>5
    <3>6. CASE RemoveEntry(c)
      <4>1. /\ UNCHANGED shown /\ Running(c)' /\ Running(c) /\ pc[c] # "registered"
            /\ \A d \in Conns : Running(d) => Running(d)'
            /\ \A u \in Users \ {UserOf[c]} :
                  registry'[u] = registry[u] /\ (u \in keys => u \in keys')
        BY <3>6 DEF RemoveEntry
      <4>2. ASSUME NEW d \in Conns, LeftOnline(d, n), UserOf[d] = UserOf[c]
            PROVE  shownAs[c] = n \/ Misplaced(n)
        BY <4>1, <4>2, EmptiedByActor
      <4>3. Carried(n) => Carried(n)'
        BY <4>1 DEF Carried
      <4>4. Misplaced(n) => Misplaced(n)'
        BY <4>1 DEF Misplaced
      <4>5. ASSUME Counted(n) PROVE Counted(n)' \/ Carried(n)' \/ Misplaced(n)'
        <5>1. PICK d \in Conns : /\ LeftOnline(d, n)
                                 /\ UserOf[d] \in keys /\ registry[UserOf[d]] # {}
          BY <4>5 DEF Counted
        <5>2. CASE UserOf[d] = UserOf[c]
          BY <4>1, <4>2, <4>4, <5>1, <5>2 DEF Carried
        <5>3. CASE UserOf[d] # UserOf[c]
          BY <4>1, <5>1, <5>3 DEF Counted
        <5> QED
          BY <5>2, <5>3
      <4> QED
        BY <2>0, <4>1, <4>3, <4>4, <4>5
    <3>7. CASE ReadRemaining(c)
      <4>1. /\ UNCHANGED <<registry, keys, shownAs, presence, setBy>>
            /\ skipped \subseteq skipped'
            /\ \A d \in Conns \ {c} : Running(d) => Running(d)'
            /\ \/ Running(c)'
               \/ c \in skipped' /\ UserOf[c] \in keys /\ registry[UserOf[c]] # {}
        BY <3>7 DEF ReadRemaining
      <4> QED
        BY <2>0, <4>1 DEF Carried, Counted, Misplaced
    <3>8. CASE GoOffline(c)
      <4>1. /\ UNCHANGED <<registry, keys, shownAs, skipped>>
            /\ \A d \in Conns \ {c} : Running(d) => Running(d)'
            /\ shownAs[c] \in Names
        BY <3>8 DEF GoOffline, ActorsAreNamed
      <4>2. n # shownAs[c] /\ Shown
        BY <3>8, <4>1 DEF GoOffline
      <4> QED
        BY <2>0, <4>1, <4>2 DEF Carried, Counted, Misplaced
    <3> QED
      BY <2>1, <3>1, <3>2, <3>3, <3>4, <3>5, <3>6, <3>7, <3>8 DEF ConnStep, TaskStep
  <2>2. ASSUME NEW r \in Requests, RequestStep(r)
        PROVE  Carried(n)' \/ Counted(n)' \/ Misplaced(n)'
    <3>1. UNCHANGED <<pc, registry, keys, shown>>
      BY <2>2 DEF RequestStep, BanInsert, KickCheck, ForceClose, RequestDropped, BanLapses
    <3> QED
      BY <2>0, <3>1 DEF Carried, Counted, Misplaced
  <2>3. CASE \E u \in Users : SetPresence(u)
    <3>1. Shown /\ UNCHANGED <<pc, registry, keys, shownAs, skipped>>
      BY <2>3 DEF SetPresence
    <3> QED
      BY <2>0, <3>1 DEF Carried, Counted, Misplaced
  <2>4. CASE (\E u \in Users : KeyChanges(u) \/ Unban(u)) \/ ListBans \/ UNCHANGED vars
    <3>1. UNCHANGED <<pc, registry, keys, shown>>
      BY <2>4 DEF KeyChanges, Unban, ListBans, vars
    <3> QED
      BY <2>0, <3>1 DEF Carried, Counted, Misplaced
  <2>5. CASE Restart
    BY <2>5 DEF Restart
  <2> QED
    BY <2>1, <2>2, <2>3, <2>4, <2>5 DEF Next
<1>4. IInv => OnlineIsExplained
  OBVIOUS
<1>5. TypeOK /\ IInv /\ [Next]_vars => IInv'
  BY <1>2, <1>3
<1> QED
  BY <1>1, <1>4, <1>5, TypeCorrect, PTL DEF Spec

-----------------------------------------------------------------------------
(* What makes BanMissesOnlyInFlight inductive.  A stored row belongs to a    *)
(* request that has inserted it, for the user it is stored under; and a      *)
(* connection that is past check_ban while a ban of its user is stored was   *)
(* there when that ban was inserted, since check_ban lets nobody else in.    *)
RowsAreInserted ==
  \A u \in Users : bans[u] # NoBan =>
     request[bans[u]].step # "idle" /\ request[bans[u]].user = u

CheckedIsInFlight ==
  \A c \in Conns :
    pc[c] = "checked" /\ bans[UserOf[c]] # NoBan => c \in inFlight[bans[UserOf[c]]]

BanInv == TypeOK /\ RowsAreInserted /\ CheckedIsInFlight /\ BanMissesOnlyInFlight

(* The steps of a connection keep the invariant: Upgrade is the one that     *)
(* reads the bans, Register the one that uses the answer.                    *)
LEMMA ConnStepKeepsBanInv ==
  ASSUME BanInv, TypeOK', NEW c \in Conns, ConnStep(c)
  PROVE  BanInv'
<1> USE UserOfAssumption, NoBanAssumption
    DEF BanInv, TypeOK, RowsAreInserted, CheckedIsInFlight, BanMissesOnlyInFlight,
        connVars, modVars
<1>1. CASE Upgrade(c)
  <2>1. /\ \A u \in Users : bans'[u] \in {bans[u], NoBan}
        /\ bans'[UserOf[c]] # NoBan => pc'[c] = "stopped"
        /\ pc[c] = "idle" /\ pc'[c] \in {"checked", "stopped"}
        /\ \A d \in Conns \ {c} : pc'[d] = pc[d]
    BY <1>1 DEF Upgrade, Unexpired
  <2>2. UNCHANGED <<rx, closing, registry, request, inFlight>>
    BY <1>1 DEF Upgrade
  <2>3. RowsAreInserted'
    BY <2>1, <2>2
  <2>4. CheckedIsInFlight'
    BY <2>1, <2>2
  <2>5. BanMissesOnlyInFlight'
    <3>1. \A d \in Conns : Open(d)' => Open(d)
      BY <2>1 DEF Open
    <3> QED
      BY <2>1, <2>2, <3>1
  <2> QED
    BY <2>3, <2>4, <2>5
<1>2. CASE UpgradeAbandoned(c)
  BY <1>2 DEF UpgradeAbandoned
<1>3. CASE Register(c)
  BY <1>3 DEF Register
<1>4. CASE GoOnline(c)
  BY <1>4 DEF GoOnline
<1>5. CASE PeerGone(c)
  BY <1>5 DEF PeerGone
<1>6. CASE PongTimeout(c)
  BY <1>6 DEF PongTimeout
<1>7. CASE WriterCloses(c)
  BY <1>7 DEF WriterCloses
<1>8. CASE WriterFails(c)
  BY <1>8 DEF WriterFails
<1>9. CASE WriterAborted(c)
  BY <1>9 DEF WriterAborted
<1>10. CASE ReaderEnds(c)
  BY <1>10 DEF ReaderEnds
<1>11. CASE RetainOpen(c)
  BY <1>11 DEF RetainOpen
<1>12. CASE RemoveEntry(c)
  BY <1>12 DEF RemoveEntry
<1>13. CASE ReadRemaining(c)
  BY <1>13 DEF ReadRemaining
<1>14. CASE GoOffline(c)
  BY <1>14 DEF GoOffline
<1>15. CASE LookUpUser(c)
  BY <1>15 DEF LookUpUser
<1> QED
  BY <1>1, <1>2, <1>3, <1>4, <1>5, <1>6, <1>7, <1>8, <1>9, <1>10, <1>11, <1>12,
     <1>13, <1>14, <1>15 DEF ConnStep, TaskStep

(* The steps of a moderation request keep the invariant: BanInsert notes who *)
(* is in flight, ForceClose reaches everybody who is registered.             *)
LEMMA RequestStepKeepsBanInv ==
  ASSUME BanInv, TypeOK', NEW r \in Requests, RequestStep(r)
  PROVE  BanInv'
<1> USE UserOfAssumption, NoBanAssumption
    DEF BanInv, TypeOK, RowsAreInserted, CheckedIsInFlight, BanMissesOnlyInFlight
<1>1. CASE BanInsert(r)
  <2>1. PICK term \in {"forever", "timed"} :
          request' = [request EXCEPT ![r].step = "ban", ![r].term = term]
    BY <1>1 DEF BanInsert
  <2>2. /\ request'[r].step = "ban"
        /\ request'[r].user = request[r].user
        /\ \A q \in Requests \ {r} : request'[q] = request[q]
    BY <2>1
  <2>3. /\ bans'[request[r].user] = r
        /\ \A u \in Users : u # request[r].user => bans'[u] = bans[u]
        /\ \A u \in Users : bans[u] # r
    BY <1>1 DEF BanInsert
  <2>4. /\ \A c \in Conns : UserOf[c] = request[r].user /\ pc[c] = "checked"
                             => c \in inFlight'[r]
        /\ \A q \in Requests \ {r} : inFlight'[q] = inFlight[q]
    BY <1>1 DEF BanInsert
  <2>5. UNCHANGED <<pc, rx, closing, registry>>
    BY <1>1 DEF BanInsert
  <2>9. /\ \A u \in Users : bans[u] # NoBan => bans[u] \in Requests
        /\ \A q \in Requests : request[q].user \in Users
        /\ request[r].step = "idle" /\ r # NoBan
    BY <1>1 DEF BanInsert
  <2> HIDE DEF TypeOK, RequestState
  <2>6. RowsAreInserted'
    BY <2>2, <2>3, <2>9
  <2>7. CheckedIsInFlight'
    BY <2>2, <2>3, <2>4, <2>5, <2>9
  <2>8. BanMissesOnlyInFlight'
    BY <2>2, <2>3, <2>4, <2>5, <2>9
  <2> QED
    BY <2>6, <2>7, <2>8
<1>2. CASE KickCheck(r)
  BY <1>2 DEF KickCheck
<1>3. CASE ForceClose(r)
  <2>1. /\ request'[r].step = "done"
        /\ request'[r].user = request[r].user
        /\ \A q \in Requests \ {r} : request'[q] = request[q]
    BY <1>3 DEF ForceClose
  <2>2. \A c \in Conns : closing'[c] =
            (closing[c] \/ (c \in registry[request[r].user] /\ rx[c] = "open"))
    BY <1>3, Zenon DEF ForceClose
  <2>3. UNCHANGED <<pc, rx, registry, bans, inFlight>>
    BY <1>3 DEF ForceClose
  <2>4. ASSUME NEW u \in Users, bans'[u] # NoBan
        PROVE  request'[bans'[u]].step # "idle" /\ request'[bans'[u]].user = u
    <3>1. bans'[u] = bans[u] /\ bans[u] \in Requests
      BY <2>3, <2>4
    <3>2. CASE bans[u] = r
      BY <2>1, <3>1, <3>2
    <3>3. CASE bans[u] # r
      BY <2>1, <3>1, <3>3
    <3> QED
      BY <3>2, <3>3
  <2>5. ASSUME NEW c \in Conns, Open(c)', rx'[c] = "open", bans'[UserOf[c]] # NoBan,
               request'[bans'[UserOf[c]]].step = "done"
        PROVE  closing'[c] \/ c \in inFlight'[bans'[UserOf[c]]] \/ c \notin registry'[UserOf[c]]
    <3>1. /\ UserOf[c] \in Users /\ bans[UserOf[c]] \in Requests
          /\ Open(c) /\ rx[c] = "open" /\ bans[UserOf[c]] # NoBan
      BY <2>3, <2>5 DEF Open
    <3>2. CASE bans[UserOf[c]] = r
      <4>1. request[r].user = UserOf[c]
        BY <3>1, <3>2
      <4> QED
        BY <2>2, <2>3, <3>1, <4>1
    <3>3. CASE bans[UserOf[c]] # r
      <4>1. request[bans[UserOf[c]]].step = "done"
        BY <2>1, <2>3, <2>5, <3>1, <3>3
      <4>2. closing[c] \/ c \in inFlight[bans[UserOf[c]]] \/ c \notin registry[UserOf[c]]
        BY <3>1, <4>1
      <4> QED
        BY <2>2, <2>3, <4>2
    <3> QED
      BY <3>2, <3>3
  <2>6. CheckedIsInFlight'
    BY <2>3
  <2> QED
    BY <2>4, <2>5, <2>6
<1>4. CASE RequestDropped(r)
  BY <1>4 DEF RequestDropped
<1>5. CASE BanLapses(r)
  BY <1>5 DEF BanLapses
<1> QED
  BY <1>1, <1>2, <1>3, <1>4, <1>5 DEF RequestStep

(* The connections a completed ban did not close are those that were in      *)
(* flight when its row was inserted, and those a clean-up race unregistered. *)
THEOREM BanMisses == Spec => []BanMissesOnlyInFlight
<1>1. Init => BanInv
  <2>1. Init => TypeOK
    BY FirstKeyAssumption, MaxRenamingsAssumption DEF Init, TypeOK
  <2>2. Init => RowsAreInserted /\ CheckedIsInFlight /\ BanMissesOnlyInFlight
    BY UserOfAssumption DEF Init, RowsAreInserted, CheckedIsInFlight, BanMissesOnlyInFlight
  <2> QED
    BY <2>1, <2>2 DEF BanInv
<1>2. BanInv /\ TypeOK' /\ [Next]_vars => BanInv'
  <2> SUFFICES ASSUME BanInv, TypeOK', [Next]_vars PROVE BanInv'
    OBVIOUS
  <2>1. CASE \E c \in Conns : ConnStep(c)
    BY <2>1, ConnStepKeepsBanInv
  <2>2. CASE \E r \in Requests : RequestStep(r)
    BY <2>2, RequestStepKeepsBanInv
  <2> USE UserOfAssumption, NoBanAssumption
      DEF BanInv, TypeOK, RowsAreInserted, CheckedIsInFlight,
          BanMissesOnlyInFlight, connVars, modVars
  <2>3. CASE \E u \in Users : SetPresence(u) \/ KeyChanges(u)
    BY <2>3 DEF SetPresence, KeyChanges
  <2>4. CASE \E u \in Users : Unban(u)
    BY <2>4 DEF Unban
  <2>5. CASE ListBans
    BY <2>5 DEF ListBans, Unexpired
  <2>6. CASE Restart
    BY <2>6 DEF Restart
  <2>7. CASE UNCHANGED vars
    BY <2>7 DEF vars
  <2> QED
    BY <2>1, <2>2, <2>3, <2>4, <2>5, <2>6, <2>7 DEF Next
<1>3. BanInv => BanMissesOnlyInFlight
  BY DEF BanInv
<1> QED
  BY <1>1, <1>2, <1>3, TypeCorrect, PTL DEF Spec

-----------------------------------------------------------------------------
(* Liveness.  Fairness, with what each step waits for written out in place   *)
(* of ENABLED, which the prover does not know: a task that can go on all the *)
(* time is polled again and again.                                           *)

Polled(guard, step) == []<>~guard \/ []<><<step>>_vars

CanClose(c) == pc[c] = "reading" /\ rx[c] = "open" /\ closing[c] /\ wire[c] = "up"

Answers(c) == wire[c] = "closed" /\ PeerGone(c)
MustAnswer(c) == wire[c] = "closed" /\ pc[c] \in {"checked", "registered", "named", "reading"}

CanGoOn(c) == \/ pc[c] = "reading" /\ wire[c] = "down"
              \/ pc[c] \in {"registered", "named", "closed", "emptied",
                           "unregistered", "goingOffline"}

FairTasks(c) ==
  /\ Polled(CanGoOn(c), TaskStep(c))
  /\ Polled(CanClose(c), WriterCloses(c))
  /\ Polled(MustAnswer(c), Answers(c))

PolledSpec == Spec /\ \A c \in Conns : FairTasks(c)

(* How far a connection may get in one step of the server.                   *)
Onward == { <<"idle", "checked">>, <<"checked", "registered">>,
            <<"registered", "named">>, <<"named", "reading">>,
            <<"reading", "closed">>, <<"closed", "emptied">>, <<"closed", "unregistered">>,
            <<"emptied", "unregistered">>, <<"unregistered", "goingOffline">> }

PcMoves(c) ==
  pc'[c] = pc[c] \/ pc'[c] = "stopped" \/ <<pc[c], pc'[c]>> \in Onward

WireMoves(c) ==
  \/ wire'[c] \in {wire[c], "down"}
  \/ pc[c] = "reading" /\ wire[c] = "up" /\ wire'[c] = "closed"

(* The receiver goes when its writer sees a socket that is not up, when the  *)
(* reader has ended, and when the process dies.                              *)
RxMoves(c) ==
  \/ rx'[c] = rx[c]
  \/ pc[c] = "reading" /\ wire[c] # "up" /\ UNCHANGED <<pc, wire>>
  \/ pc[c] \notin {"idle", "checked", "registered", "named", "reading"} /\ UNCHANGED <<pc, wire>>
  \/ pc'[c] = "stopped"

Moves(c) == PcMoves(c) /\ WireMoves(c) /\ RxMoves(c) /\ (closing[c] => closing'[c])

LEMMA ConnectionMoves ==
  ASSUME TypeOK, [Next]_vars, NEW c \in Conns
  PROVE  Moves(c)
<1> USE DEF TypeOK, Moves, PcMoves, WireMoves, RxMoves, Onward, connVars, modVars
<1>1. ASSUME NEW d \in Conns, ConnStep(d) PROVE Moves(c)
  <2>1. CASE Upgrade(d)
    BY <2>1 DEF Upgrade
  <2>2. CASE UpgradeAbandoned(d)
    BY <2>2 DEF UpgradeAbandoned
  <2>3. CASE Register(d)
    BY <2>3 DEF Register
  <2>4. CASE GoOnline(d)
    BY <2>4 DEF GoOnline
  <2>5. CASE PeerGone(d)
    BY <2>5 DEF PeerGone
  <2>6. CASE PongTimeout(d)
    BY <2>6 DEF PongTimeout
  <2>7. CASE WriterCloses(d)
    BY <2>7 DEF WriterCloses
  <2>8. CASE WriterFails(d)
    BY <2>8 DEF WriterFails
  <2>9. CASE WriterAborted(d)
    BY <2>9 DEF WriterAborted
  <2>10. CASE ReaderEnds(d)
    BY <2>10 DEF ReaderEnds
  <2>11. CASE RetainOpen(d)
    BY <2>11 DEF RetainOpen
  <2>12. CASE RemoveEntry(d)
    BY <2>12 DEF RemoveEntry
  <2>13. CASE ReadRemaining(d)
    BY <2>13 DEF ReadRemaining
  <2>14. CASE GoOffline(d)
    BY <2>14 DEF GoOffline
  <2>15. CASE LookUpUser(d)
    BY <2>15 DEF LookUpUser
  <2> QED
    BY <1>1, <2>1, <2>2, <2>3, <2>4, <2>5, <2>6, <2>7, <2>8, <2>9, <2>10,
       <2>11, <2>12, <2>13, <2>14, <2>15 DEF ConnStep, TaskStep
<1>2. ASSUME NEW r \in Requests, RequestStep(r) PROVE Moves(c)
  <2>1. CASE ForceClose(r)
    <3>1. UNCHANGED <<pc, rx, wire>>
      BY <2>1 DEF ForceClose
    <3>2. closing[c] => closing'[c]
      BY <2>1 DEF ForceClose
    <3> QED
      BY <3>1, <3>2
  <2>2. CASE BanInsert(r) \/ KickCheck(r) \/ RequestDropped(r) \/ BanLapses(r)
    BY <2>2 DEF BanInsert, KickCheck, RequestDropped, BanLapses
  <2> QED
    BY <1>2, <2>1, <2>2 DEF RequestStep
<1>3. CASE \E u \in Users : SetPresence(u) \/ KeyChanges(u) \/ Unban(u)
  BY <1>3 DEF SetPresence, KeyChanges, Unban
<1>4. CASE ListBans
  BY <1>4 DEF ListBans
<1>5. CASE Restart
  BY <1>5 DEF Restart
<1>6. CASE UNCHANGED vars
  BY <1>6 DEF vars
<1> QED
  BY <1>1, <1>2, <1>3, <1>4, <1>5, <1>6 DEF Next

(* While the reader runs, the writer has given up only on a socket that is   *)
(* not up: a Close frame never waits in a mailbox that nobody empties.       *)
WriterServes ==
  \A c \in Conns : rx[c] = "dropped" =>
    /\ pc[c] \notin {"idle", "checked", "registered", "named"}
    /\ pc[c] = "reading" => wire[c] # "up"

THEOREM WriterAlwaysServes == Spec => []WriterServes
<1>1. Init => WriterServes
  BY DEF Init, WriterServes
<1>2. TypeOK /\ WriterServes /\ [Next]_vars => WriterServes'
  <2> SUFFICES ASSUME TypeOK, WriterServes, [Next]_vars, NEW c \in Conns, rx'[c] = "dropped"
               PROVE  /\ pc'[c] \notin {"idle", "checked", "registered", "named"}
                      /\ pc'[c] = "reading" => wire'[c] # "up"
    BY DEF WriterServes
  <2>1. Moves(c)
    BY ConnectionMoves
  <2> QED
    BY <2>1 DEF Moves, PcMoves, WireMoves, RxMoves, Onward, WriterServes, TypeOK
<1> QED
  BY <1>1, <1>2, TypeCorrect, PTL DEF Spec

(* Each of the steps that fairness promises takes its connection on.         *)
LEMMA TasksAdvance ==
  ASSUME TypeOK, NEW c \in Conns
  PROVE  /\ TaskStep(c) => pc'[c] # pc[c]
         /\ WriterCloses(c) => wire'[c] = "closed"
         /\ Answers(c) => wire'[c] = "down"
<1> USE DEF TypeOK
<1>1. TaskStep(c) => pc'[c] # pc[c]
  BY DEF TaskStep, LookUpUser, GoOnline, ReaderEnds, RetainOpen, RemoveEntry,
         ReadRemaining, GoOffline
<1>2. WriterCloses(c) => wire'[c] = "closed"
  BY DEF WriterCloses
<1>3. Answers(c) => wire'[c] = "down"
  BY DEF Answers, PeerGone
<1> QED
  BY <1>1, <1>2, <1>3

(* A connection with a Close frame in its mailbox: the lookup comes back,    *)
(* the writer sends the frame, the peer answers or is given up, the reader   *)
(* ends, and the clean-up runs to its end.  A restart ends it at any point.  *)
THEOREM ClosingAlwaysStops == PolledSpec => ClosingStops
<1>1. ASSUME NEW c \in Conns
      PROVE  Spec /\ FairTasks(c) => ((Open(c) /\ closing[c]) ~> (pc[c] = "stopped"))
  <2> DEFINE Told    == Open(c) /\ closing[c]
             Looking == pc[c] = "registered" /\ closing[c]
             Named   == pc[c] = "named" /\ closing[c]
             Queued  == pc[c] = "reading" /\ closing[c] /\ wire[c] = "up"
             Sent    == pc[c] = "reading" /\ wire[c] = "closed"
             Down    == pc[c] = "reading" /\ wire[c] = "down"
             Ended   == pc[c] = "closed"
             Emptied == pc[c] = "emptied"
             Left    == pc[c] = "unregistered"
             Last    == pc[c] = "goingOffline"
             Stopped == pc[c] = "stopped"
             Safe    == TypeOK /\ WriterServes
  <2>1. Spec => []Safe
    BY TypeCorrect, WriterAlwaysServes, PTL
  <2>2. Safe /\ [Next]_vars => Moves(c) /\ TypeOK'
    <3>1. Safe /\ [Next]_vars => Moves(c)
      BY ConnectionMoves
    <3>2. Safe /\ [Next]_vars => TypeOK'
      BY TypeStep
    <3> QED
      BY <3>1, <3>2
  <2> USE DEF Moves, PcMoves, WireMoves, Onward, TypeOK
  <2>3. Safe /\ Told => Looking \/ Named \/ Queued \/ Sent \/ Down
    OBVIOUS
  <2>4. /\ Safe /\ Looking /\ [Next]_vars => Looking' \/ Named' \/ Stopped'
        /\ Safe /\ Looking /\ [Next]_vars /\ <<TaskStep(c)>>_vars => Named' \/ Stopped'
        /\ Looking => CanGoOn(c)
    BY <2>2, TasksAdvance DEF CanGoOn
  <2>12. /\ Safe /\ Named /\ [Next]_vars
             => Named' \/ Queued' \/ Sent' \/ Down' \/ Stopped'
         /\ Safe /\ Named /\ [Next]_vars /\ <<TaskStep(c)>>_vars
             => Queued' \/ Sent' \/ Down' \/ Stopped'
         /\ Named => CanGoOn(c)
    BY <2>2, TasksAdvance DEF CanGoOn
  <2>5. /\ Safe /\ Queued /\ [Next]_vars
             => Queued' \/ Sent' \/ Down' \/ Ended' \/ Stopped'
        /\ Safe /\ Queued /\ [Next]_vars /\ <<WriterCloses(c)>>_vars
             => Sent' \/ Ended' \/ Stopped'
        /\ Safe /\ Queued => CanClose(c)
    <3>1. Safe /\ Queued /\ [Next]_vars
             => Queued' \/ Sent' \/ Down' \/ Ended' \/ Stopped'
      BY <2>2
    <3>2. Safe /\ Queued /\ [Next]_vars /\ <<WriterCloses(c)>>_vars
             => Sent' \/ Ended' \/ Stopped'
      BY <2>2, TasksAdvance
    <3>3. Safe /\ Queued => CanClose(c)
      BY DEF CanClose, WriterServes
    <3> QED
      BY <3>1, <3>2, <3>3
  <2>6. /\ Safe /\ Sent /\ [Next]_vars => Sent' \/ Down' \/ Ended' \/ Stopped'
        /\ Safe /\ Sent /\ [Next]_vars /\ <<Answers(c)>>_vars
             => Down' \/ Ended' \/ Stopped'
        /\ Sent => MustAnswer(c)
    BY <2>2, TasksAdvance DEF MustAnswer
  <2>7. /\ Safe /\ Down /\ [Next]_vars => Down' \/ Ended' \/ Stopped'
        /\ Safe /\ Down /\ [Next]_vars /\ <<TaskStep(c)>>_vars => Ended' \/ Stopped'
        /\ Down => CanGoOn(c)
    BY <2>2, TasksAdvance DEF CanGoOn
  <2>8. /\ Safe /\ Ended /\ [Next]_vars => Ended' \/ Emptied' \/ Left' \/ Stopped'
        /\ Safe /\ Ended /\ [Next]_vars /\ <<TaskStep(c)>>_vars
             => Emptied' \/ Left' \/ Stopped'
        /\ Ended => CanGoOn(c)
    BY <2>2, TasksAdvance DEF CanGoOn
  <2>9. /\ Safe /\ Emptied /\ [Next]_vars => Emptied' \/ Left' \/ Stopped'
        /\ Safe /\ Emptied /\ [Next]_vars /\ <<TaskStep(c)>>_vars => Left' \/ Stopped'
        /\ Emptied => CanGoOn(c)
    BY <2>2, TasksAdvance DEF CanGoOn
  <2>10. /\ Safe /\ Left /\ [Next]_vars => Left' \/ Last' \/ Stopped'
         /\ Safe /\ Left /\ [Next]_vars /\ <<TaskStep(c)>>_vars => Last' \/ Stopped'
         /\ Left => CanGoOn(c)
    BY <2>2, TasksAdvance DEF CanGoOn
  <2>11. /\ Safe /\ Last /\ [Next]_vars => Last' \/ Stopped'
         /\ Safe /\ Last /\ [Next]_vars /\ <<TaskStep(c)>>_vars => Stopped'
         /\ Last => CanGoOn(c)
    BY <2>2, TasksAdvance DEF CanGoOn
  <2> DEFINE Fair1 == []<>~CanGoOn(c) \/ []<><<TaskStep(c)>>_vars
             Fair2 == []<>~CanClose(c) \/ []<><<WriterCloses(c)>>_vars
             Fair3 == []<>~MustAnswer(c) \/ []<><<Answers(c)>>_vars
  <2>13. FairTasks(c) => Fair1 /\ Fair2 /\ Fair3
    BY DEF FairTasks, Polled
  <2> HIDE DEF Told, Looking, Named, Queued, Sent, Down, Ended, Emptied, Left, Last, Stopped, Safe
  <2>14. Spec /\ Fair1 => (Looking ~> Named \/ Stopped)
    BY <2>1, <2>4, PTL DEF Spec
  <2>24. Spec /\ Fair1 => (Named ~> Queued \/ Sent \/ Down \/ Stopped)
    BY <2>1, <2>12, PTL DEF Spec
  <2>15. Spec /\ Fair2 => (Queued ~> Sent \/ Down \/ Ended \/ Stopped)
    BY <2>1, <2>5, PTL DEF Spec
  <2>16. Spec /\ Fair3 => (Sent ~> Down \/ Ended \/ Stopped)
    BY <2>1, <2>6, PTL DEF Spec
  <2>17. Spec /\ Fair1 => (Down ~> Ended \/ Stopped)
    BY <2>1, <2>7, PTL DEF Spec
  <2>18. Spec /\ Fair1 => (Ended ~> Emptied \/ Left \/ Stopped)
    BY <2>1, <2>8, PTL DEF Spec
  <2>19. Spec /\ Fair1 => (Emptied ~> Left \/ Stopped)
    BY <2>1, <2>9, PTL DEF Spec
  <2>20. Spec /\ Fair1 => (Left ~> Last \/ Stopped)
    BY <2>1, <2>10, PTL DEF Spec
  <2>21. Spec /\ Fair1 => (Last ~> Stopped)
    BY <2>1, <2>11, PTL DEF Spec
  <2>22. Spec /\ Fair1 /\ Fair2 /\ Fair3 => (Told ~> Stopped)
    BY <2>1, <2>3, <2>14, <2>24, <2>15, <2>16, <2>17, <2>18, <2>19, <2>20, <2>21, PTL
  <2>23. QED
    BY <2>13, <2>22 DEF Told, Stopped
<1>2. PolledSpec => \A c \in Conns : Spec /\ FairTasks(c)
  BY DEF PolledSpec
<1> QED
  BY <1>1, <1>2 DEF ClosingStops
==============================================================================
