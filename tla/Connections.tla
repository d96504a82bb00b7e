----------------------------- MODULE Connections -----------------------------
(***************************************************************************)
(* The WebSocket actors of the server, the connection registry they share, *)
(* the presence they publish and the moderation requests that close them   *)
(* (server/src/ws, chat/presence.rs, moderation/).                         *)
(*                                                                         *)
(* One element of Conns is one upgraded socket for its whole life.  The    *)
(* steps of a handler are cut where the code awaits, and where it gives up *)
(* the guard of a DashMap entry: between two steps every other task of the *)
(* server may run.                                                         *)
(***************************************************************************)

EXTENDS Naturals

CONSTANTS Users, Conns, Requests, PublicKeys,
          UserOf,       \* the user whose token opened a connection
          FirstKey,     \* the key in the row of each user when the server boots
          Owners,       \* users.is_owner: they can be neither banned nor kicked
          Asked,        \* the statuses clients ask for over REST
          MaxRenamings, \* bound: key changes and failed lookups in a behaviour
          NoBan, NoName

ASSUME UserOfAssumption == UserOf \in [Conns -> Users]
ASSUME OwnersAssumption == Owners \subseteq Users
ASSUME AskedAssumption  == Asked \subseteq {"online", "away", "dnd", "offline"}
ASSUME FirstKeyAssumption == FirstKey \in [Users -> PublicKeys]
ASSUME MaxRenamingsAssumption == MaxRenamings \in Nat
ASSUME NoBanAssumption  == NoBan \notin Requests

(* What AppState.presence is keyed by: the public key the row of a user held *)
(* when it was looked up, or the user's fingerprint when the lookup failed.  *)
(* A fingerprint is of one user and stands here as that user.                *)
Names == PublicKeys \cup Users

ASSUME NoNameAssumption == NoName \notin Names

VARIABLES
  pc,         \* where the task of each connection is
  rx,         \* the receiving half of its mailbox, owned by the writer task
  wire,       \* the socket: up, closed (we sent a Close), down (peer is gone)
  closing,    \* a Close frame has been put into the mailbox
  registry,   \* AppState.connections: the senders registered for each user
  keys,       \* the users that have an entry in that map, empty or not
  publicKey,  \* users.public_key, which rotations and cancellations change
  renamings,  \* key changes and failed lookups used up of MaxRenamings
  held,       \* history: the keys the row held while this process was up
  shownAs,    \* user_pubkey of each actor: the name it publishes under
  presence,   \* AppState.presence: the last status published under each name
  setBy,      \* history: who wrote that status, an actor ("ws") or "rest"
  skipped,    \* history: the actors that ended without publishing OFFLINE
  bans,       \* the bans table: the request whose row is stored, if any
  request,    \* the moderation requests being handled
  inFlight    \* history: connections past check_ban when a ban was inserted

connVars == <<pc, rx, wire, closing>>
modVars  == <<bans, request, inFlight>>
keyVars  == <<publicKey, held, renamings>>
shown    == <<shownAs, presence, setBy, skipped>>
vars == <<pc, rx, wire, closing, registry, keys, keyVars, shown, modVars>>

ConnPC == {"idle", "checked", "registered", "named", "reading", "closed", "emptied",
           "unregistered", "goingOffline", "stopped"}

Status == {"absent", "online", "away", "dnd", "offline"}

RequestState == [step : {"idle", "ban", "kick", "done", "dropped"},
                 user : Users,
                 term : {"forever", "timed", "lapsed"}]

ConnsOf(u) == {c \in Conns : UserOf[c] = u}

(* The actor's own task still has its socket and its place in the server.  *)
Open(c) == pc[c] \in {"registered", "named", "reading"}

(* The task is running: it has registered and has not finished cleaning up. *)
Running(c) == pc[c] \in ConnPC \ {"idle", "checked", "stopped"}

TypeOK ==
  /\ pc \in [Conns -> ConnPC]
  /\ rx \in [Conns -> {"open", "dropped"}]
  /\ wire \in [Conns -> {"up", "closed", "down"}]
  /\ closing \in [Conns -> BOOLEAN]
  /\ registry \in [Users -> SUBSET Conns]
  /\ keys \in SUBSET Users
  /\ publicKey \in [Users -> PublicKeys]
  /\ held \in [Users -> SUBSET PublicKeys]
  /\ renamings \in 0..MaxRenamings
  /\ shownAs \in [Conns -> Names \cup {NoName}]
  /\ presence \in [Names -> Status]
  /\ setBy \in [Names -> {"ws", "rest"}]
  /\ skipped \in SUBSET Conns
  /\ bans \in [Users -> Requests \cup {NoBan}]
  /\ request \in [Requests -> RequestState]
  /\ inFlight \in [Requests -> SUBSET Conns]

(* A request may never come ("dropped" from the start), and a behaviour may *)
(* use less than its bound of renamings.                                     *)
Init ==
  /\ pc = [c \in Conns |-> "idle"]
  /\ rx = [c \in Conns |-> "open"]
  /\ wire = [c \in Conns |-> "up"]
  /\ closing = [c \in Conns |-> FALSE]
  /\ registry = [u \in Users |-> {}]
  /\ keys = {}
  /\ publicKey = FirstKey
  /\ held = [u \in Users |-> {publicKey[u]}]
  /\ renamings \in 0..MaxRenamings
  /\ shownAs = [c \in Conns |-> NoName]
  /\ presence = [n \in Names |-> "absent"]
  /\ setBy = [n \in Names |-> "ws"]
  /\ skipped = {}
  /\ bans = [u \in Users |-> NoBan]
  /\ request \in [Requests -> [step : {"idle", "dropped"}, user : Users, term : {"forever"}]]
  /\ inFlight = [r \in Requests |-> {}]

-----------------------------------------------------------------------------
(* Bans.                                                                   *)

(* The rows the lazy cleanup of check_ban and list_bans leaves: a row whose *)
(* expires_at has passed is deleted by whichever of the two runs first.     *)
Unexpired ==
  [u \in Users |-> IF bans[u] \in Requests /\ request[bans[u]].term = "lapsed"
                   THEN NoBan ELSE bans[u]]

(* The time of a temporary ban passes; nobody is told.                      *)
BanLapses(r) ==
  /\ request[r].step \notin {"idle", "kick"}
  /\ request[r].term = "timed"
  /\ request' = [request EXCEPT ![r].term = "lapsed"]
  /\ UNCHANGED <<pc, rx, wire, closing, registry, keys, keyVars, shown, bans,
                 inFlight>>

(* ban_user up to the end of its spawn_blocking: the target is looked up,   *)
(* an owner is refused, and INSERT OR REPLACE keeps one row per fingerprint. *)
BanInsert(r) ==
  /\ request[r].step = "idle"
  /\ request[r].user \notin Owners
  /\ \E term \in {"forever", "timed"} :
       request' = [request EXCEPT ![r].step = "ban", ![r].term = term]
  /\ bans' = [bans EXCEPT ![request[r].user] = r]
  /\ inFlight' = [inFlight EXCEPT
                    ![r] = {c \in ConnsOf(request[r].user) : pc[c] = "checked"}]
  /\ UNCHANGED <<pc, rx, wire, closing, registry, keys, keyVars, shown>>

(* kick_user up to the end of its spawn_blocking.                            *)
KickCheck(r) ==
  /\ request[r].step = "idle"
  /\ request[r].user \notin Owners
  /\ request' = [request EXCEPT ![r].step = "kick"]
  /\ UNCHANGED <<pc, rx, wire, closing, registry, keys, keyVars, shown, bans,
                 inFlight>>

(* force_close_user: under the guard of the user's entry a Close frame goes  *)
(* into every registered mailbox.  The broadcast of the moderation event and *)
(* the reply follow; they change nothing modelled here.                      *)
ForceClose(r) ==
  /\ request[r].step \in {"ban", "kick"}
  /\ closing' = [c \in Conns |->
                   closing[c] \/ (/\ c \in registry[request[r].user]
                                  /\ rx[c] = "open")]
  /\ request' = [request EXCEPT ![r].step = "done"]
  /\ UNCHANGED <<pc, rx, wire, registry, keys, keyVars, shown, bans,
                 inFlight>>

(* The handler's future is dropped at its await because the moderator's HTTP *)
(* connection went away: the blocking closure has run, the rest never does.  *)
RequestDropped(r) ==
  /\ request[r].step \in {"ban", "kick"}
  /\ request' = [request EXCEPT ![r].step = "dropped"]
  /\ UNCHANGED <<pc, rx, wire, closing, registry, keys, keyVars, shown, bans,
                 inFlight>>

Unban(u) ==
  /\ bans[u] # NoBan
  /\ bans' = [bans EXCEPT ![u] = NoBan]
  /\ UNCHANGED <<pc, rx, wire, closing, registry, keys, keyVars, shown,
                 request, inFlight>>

ListBans ==
  /\ bans' = Unexpired
  /\ UNCHANGED <<pc, rx, wire, closing, registry, keys, keyVars, shown,
                 request, inFlight>>

-----------------------------------------------------------------------------
(* The life of a connection.                                                *)

(* Altered: the ban is not looked up.                                        *)
UpgradeUnchecked(c) ==
  /\ pc[c] = "idle"
  /\ pc' = [pc EXCEPT ![c] = "checked"]
  /\ UNCHANGED <<rx, wire, closing, registry, keys, keyVars, shown, modVars>>

(* ws_upgrade: the token is valid; check_ban runs under the database lock    *)
(* and a banned user's socket is upgraded only to be sent a Close frame.     *)
Upgrade(c) ==
  /\ pc[c] = "idle"
  /\ bans' = Unexpired
  /\ pc' = [pc EXCEPT ![c] = IF bans'[UserOf[c]] = NoBan THEN "checked"
                                                       ELSE "stopped"]
  /\ UNCHANGED <<rx, wire, closing, registry, keys, keyVars, shown, request,
                 inFlight>>

(* The client never completes the handshake: on_upgrade's future is dropped. *)
UpgradeAbandoned(c) ==
  /\ pc[c] = "checked"
  /\ pc' = [pc EXCEPT ![c] = "stopped"]
  /\ UNCHANGED <<rx, wire, closing, registry, keys, keyVars, shown, modVars>>

(* register_connection: entry().or_default().push(tx).                       *)
Register(c) ==
  /\ pc[c] = "checked"
  /\ pc' = [pc EXCEPT ![c] = "registered"]
  /\ registry' = [registry EXCEPT ![UserOf[c]] = @ \cup {c}]
  /\ keys' = keys \cup {UserOf[c]}
  /\ UNCHANGED <<rx, wire, closing, keyVars, shown, modVars>>

(* The closure that looks the user up ran, or failed: the key it read is     *)
(* what the actor calls its user from here to its end.                       *)
LookUpUser(c) ==
  /\ pc[c] = "registered"
  /\ pc' = [pc EXCEPT ![c] = "named"]
  /\ \/ /\ shownAs' = [shownAs EXCEPT ![c] = publicKey[UserOf[c]]]
        /\ UNCHANGED renamings
     \/ /\ renamings < MaxRenamings
        /\ shownAs' = [shownAs EXCEPT ![c] = UserOf[c]]
        /\ renamings' = renamings + 1
  /\ UNCHANGED <<rx, wire, closing, registry, keys, publicKey, held, presence,
                 setBy, skipped, modVars>>

(* The lookup is awaited: set_user_presence(Online), the snapshot is queued, *)
(* the writer and ping tasks are spawned, the reader loop starts.            *)
GoOnline(c) ==
  /\ pc[c] = "named"
  /\ pc' = [pc EXCEPT ![c] = "reading"]
  /\ presence' = [presence EXCEPT ![shownAs[c]] = "online"]
  /\ setBy' = [setBy EXCEPT ![shownAs[c]] = "ws"]
  /\ UNCHANGED <<rx, wire, closing, registry, keys, keyVars, shownAs, skipped,
                 modVars>>

(* The peer closes, answers our Close frame, or its TCP connection is        *)
(* reported broken.                                                          *)
PeerGone(c) ==
  /\ pc[c] \in {"checked", "registered", "named", "reading"}
  /\ wire[c] # "down"
  /\ wire' = [wire EXCEPT ![c] = "down"]
  /\ UNCHANGED <<pc, rx, closing, registry, keys, keyVars, shown, modVars>>

(* The ping task: no pong within PONG_TIMEOUT, so it queues a Close frame    *)
(* and ends; the reader loop is not told.                                    *)
PongTimeout(c) ==
  /\ pc[c] = "reading"
  /\ rx[c] = "open"
  /\ ~closing[c]
  /\ closing' = [closing EXCEPT ![c] = TRUE]
  /\ UNCHANGED <<pc, rx, wire, registry, keys, keyVars, shown, modVars>>

(* The writer task reaches the Close frame in the mailbox and sends it.      *)
WriterCloses(c) ==
  /\ pc[c] = "reading"
  /\ rx[c] = "open"
  /\ closing[c]
  /\ wire[c] = "up"
  /\ wire' = [wire EXCEPT ![c] = "closed"]
  /\ UNCHANGED <<pc, rx, closing, registry, keys, keyVars, shown, modVars>>

(* The writer's next send fails, because a Close was sent or the peer is     *)
(* gone; the task returns and drops the receiver.                            *)
WriterFails(c) ==
  /\ pc[c] = "reading"
  /\ rx[c] = "open"
  /\ wire[c] # "up"
  /\ rx' = [rx EXCEPT ![c] = "dropped"]
  /\ UNCHANGED <<pc, wire, closing, registry, keys, keyVars, shown, modVars>>

(* Altered: the reader's end waits for the writer task instead of aborting it. *)
ReaderEndsAfterWriter(c) ==
  /\ pc[c] = "reading"
  /\ wire[c] = "down"
  /\ rx[c] = "dropped"
  /\ pc' = [pc EXCEPT ![c] = "closed"]
  /\ UNCHANGED <<rx, wire, closing, registry, keys, keyVars, shown, modVars>>

(* The stream ends; writer_handle.abort() asks the runtime to drop the       *)
(* writer task, which it does at some later moment, in WriterAborted.        *)
ReaderEnds(c) ==
  /\ pc[c] = "reading"
  /\ wire[c] = "down"
  /\ pc' = [pc EXCEPT ![c] = "closed"]
  /\ UNCHANGED <<rx, wire, closing, registry, keys, keyVars, shown, modVars>>

WriterAborted(c) ==
  /\ pc[c] \in {"closed", "emptied", "unregistered", "goingOffline", "stopped"}
  /\ rx[c] = "open"
  /\ rx' = [rx EXCEPT ![c] = "dropped"]
  /\ UNCHANGED <<pc, wire, closing, registry, keys, keyVars, shown, modVars>>

(* The first half of unregister_connection: under the guard of the entry,    *)
(* keep the senders whose receiver still exists.  The guard is released      *)
(* before remove_user is looked at.                                          *)
RetainOpen(c) ==
  /\ pc[c] = "closed"
  /\ LET u == UserOf[c]
         left == {s \in registry[u] : rx[s] = "open"}
     IN  /\ registry' = [registry EXCEPT ![u] = left]
         /\ pc' = [pc EXCEPT ![c] = IF u \in keys /\ left = {}
                                    THEN "emptied" ELSE "unregistered"]
  /\ UNCHANGED <<rx, wire, closing, keys, keyVars, shown, modVars>>

(* The second half: connections.remove(user_id), whatever the entry holds    *)
(* by now.                                                                   *)
RemoveEntry(c) ==
  /\ pc[c] = "emptied"
  /\ pc' = [pc EXCEPT ![c] = "unregistered"]
  /\ registry' = [registry EXCEPT ![UserOf[c]] = {}]
  /\ keys' = keys \ {UserOf[c]}
  /\ UNCHANGED <<rx, wire, closing, keyVars, shown, modVars>>

(* The voice clean-up (module VoiceChannels), then the read of has_remaining. *)
ReadRemaining(c) ==
  /\ pc[c] = "unregistered"
  /\ LET hasRemaining == UserOf[c] \in keys /\ registry[UserOf[c]] # {}
     IN  /\ pc' = [pc EXCEPT ![c] = IF hasRemaining THEN "stopped" ELSE "goingOffline"]
         /\ skipped' = IF hasRemaining THEN skipped \cup {c} ELSE skipped
  /\ UNCHANGED <<rx, wire, closing, registry, keys, keyVars, shownAs, presence,
                 setBy, modVars>>

(* Altered: OFFLINE is broadcast and not stored.                             *)
GoOfflineUnstored(c) ==
  /\ pc[c] = "goingOffline"
  /\ pc' = [pc EXCEPT ![c] = "stopped"]
  /\ UNCHANGED <<rx, wire, closing, registry, keys, keyVars, shown, modVars>>

(* set_user_presence(Offline), under the name of this actor only; its future *)
(* returns.                                                                  *)
GoOffline(c) ==
  /\ pc[c] = "goingOffline"
  /\ pc' = [pc EXCEPT ![c] = "stopped"]
  /\ presence' = [presence EXCEPT ![shownAs[c]] = "offline"]
  /\ setBy' = [setBy EXCEPT ![shownAs[c]] = "ws"]
  /\ UNCHANGED <<rx, wire, closing, registry, keys, keyVars, shownAs, skipped,
                 modVars>>

(* POST /api/presence: any user with a token, connected or not, any status.  *)
(* The key was read before an await, so it is one that the row has held.     *)
SetPresence(u) ==
  /\ \E k \in held[u], s \in Asked :
       /\ presence' = [presence EXCEPT ![k] = s]
       /\ setBy' = [setBy EXCEPT ![k] = "rest"]
  /\ UNCHANGED <<connVars, registry, keys, keyVars, shownAs, skipped, modVars>>

(* rotate_key stores another key in the row of the user, cancel_rotation the *)
(* one before it (module Sessions); no connection and no presence is touched. *)
KeyChanges(u) ==
  /\ renamings < MaxRenamings
  /\ renamings' = renamings + 1
  /\ \E k \in PublicKeys \ {publicKey[u]} :
       /\ publicKey' = [publicKey EXCEPT ![u] = k]
       /\ held' = [held EXCEPT ![u] = @ \cup {k}]
  /\ UNCHANGED <<connVars, registry, keys, shown, modVars>>

(* The process dies and starts again: the database stays, everything else   *)
(* is gone, every socket is broken and no handler continues.                *)
Restart ==
  /\ \E c \in Conns : pc[c] \notin {"idle", "stopped"}
  /\ pc' = [c \in Conns |-> IF pc[c] = "idle" THEN "idle" ELSE "stopped"]
  /\ rx' = [c \in Conns |-> IF pc[c] = "idle" THEN rx[c] ELSE "dropped"]
  /\ wire' = [c \in Conns |-> IF pc[c] = "idle" THEN wire[c] ELSE "down"]
  /\ registry' = [u \in Users |-> {}]
  /\ keys' = {}
  /\ held' = [u \in Users |-> {publicKey[u]}]
  /\ shownAs' = [c \in Conns |-> NoName]
  /\ presence' = [n \in Names |-> "absent"]
  /\ setBy' = [n \in Names |-> "ws"]
  /\ skipped' = {}
  /\ request' = [r \in Requests |->
                   IF request[r].step \in {"ban", "kick"}
                   THEN [request[r] EXCEPT !.step = "dropped"] ELSE request[r]]
  /\ UNCHANGED <<closing, publicKey, renamings, bans, inFlight>>

-----------------------------------------------------------------------------
(* What the task of one connection does by itself once it has registered, in *)
(* the order the code takes the steps.                                       *)
TaskStep(c) ==
  \/ LookUpUser(c)
  \/ GoOnline(c)
  \/ ReaderEnds(c)
  \/ RetainOpen(c)
  \/ RemoveEntry(c)
  \/ ReadRemaining(c)
  \/ GoOffline(c)

ConnStep(c) ==
  \/ Upgrade(c)
  \/ UpgradeAbandoned(c)
  \/ Register(c)
  \/ PeerGone(c)
  \/ PongTimeout(c)
  \/ WriterCloses(c)
  \/ WriterFails(c)
  \/ WriterAborted(c)
  \/ TaskStep(c)

RequestStep(r) ==
  \/ BanInsert(r)
  \/ KickCheck(r)
  \/ ForceClose(r)
  \/ RequestDropped(r)
  \/ BanLapses(r)

Next ==
  \/ \E c \in Conns : ConnStep(c)
  \/ \E r \in Requests : RequestStep(r)
  \/ \E u \in Users : SetPresence(u) \/ KeyChanges(u) \/ Unban(u)
  \/ ListBans
  \/ Restart

Spec == Init /\ [][Next]_vars

(* The runtime polls every task that can continue; a peer that was sent a    *)
(* Close frame answers it or is eventually reported broken by its transport. *)
Fairness ==
  \A c \in Conns :
    /\ WF_vars(TaskStep(c))
    /\ WF_vars(WriterCloses(c))
    /\ WF_vars(wire[c] = "closed" /\ PeerGone(c))

FairSpec == Spec /\ Fairness

-----------------------------------------------------------------------------
(* Properties that hold.                                                     *)

(* An actor left n online: it skipped its OFFLINE because the registry held  *)
(* a sender of its user.                                                     *)
LeftOnline(c, n) == c \in skipped /\ shownAs[c] = n

(* The actors of a name show it online only while one of them is still to    *)
(* run its clean-up, or after one skipped the OFFLINE of actor.rs:208 and    *)
(* the sender it counted on is still registered.  The one other way is the   *)
(* named exception: it counted on a connection of its user that carries      *)
(* another name, because the key was rotated, or a lookup failed, between    *)
(* the two.  That connection takes only its own name offline, and n stays    *)
(* online with nobody behind it.                                             *)
OnlineIsExplained ==
  \A n \in Names :
    presence[n] = "online" /\ setBy[n] = "ws" =>
      \/ \E c \in Conns : Running(c) /\ shownAs[c] = n
      \/ \E c \in Conns : /\ LeftOnline(c, n)
                         /\ UserOf[c] \in keys /\ registry[UserOf[c]] # {}
      \/ \E c \in Conns : /\ LeftOnline(c, n)
                         /\ \E d \in ConnsOf(UserOf[c]) : shownAs[d] \notin {n, NoName}

(* ban_user misses only two kinds of connection: one that had passed         *)
(* check_ban and not yet registered when the row was inserted, and one that  *)
(* another connection's clean-up took out of the registry.  Every other open *)
(* connection of a user whose ban was carried out has been told to close.    *)
BanMissesOnlyInFlight ==
  \A c \in Conns :
    LET u == UserOf[c] IN
    /\ Open(c)
    /\ rx[c] = "open"
    /\ bans[u] # NoBan
    /\ request[bans[u]].step = "done"
    => closing[c] \/ c \in inFlight[bans[u]] \/ c \notin registry[u]

(* The promise of force_close_user and of the ping task: a connection with a *)
(* Close frame in its mailbox runs its whole clean-up and stops.             *)
ClosingStops ==
  \A c \in Conns : (Open(c) /\ closing[c]) ~> (pc[c] = "stopped")

-----------------------------------------------------------------------------
(* What the comments say and the code does not keep.                         *)

(* actor.rs:201 "Only broadcast OFFLINE if this was the user's last          *)
(* connection": no actor publishes OFFLINE for a user one of whose           *)
(* connections is being served.                                              *)
OfflineOnlyIfLast ==
  [][\A d \in Conns : GoOffline(d) =>
       ~ \E c \in ConnsOf(UserOf[d]) : pc[c] = "reading" /\ wire[c] = "up"]_vars

(* actor.rs:253 "After the reader loop exits, the tx sender is dropped, so   *)
(* any corresponding receivers are closed": once all connections of a user   *)
(* have stopped, and their writers with them, no name they published is      *)
(* shown online.                                                             *)
AllGoneIsOffline ==
  \A c \in Conns :
    /\ \A d \in ConnsOf(UserOf[c]) : pc[d] = "stopped" /\ rx[d] = "dropped"
    /\ shownAs[c] # NoName /\ setBy[shownAs[c]] = "ws"
    => presence[shownAs[c]] # "online"

(* actor.rs:252 "Remove closed connections from the registry for a user":    *)
(* nothing but a sender whose receiver is gone leaves the registry.          *)
OnlyClosedAreRemoved ==
  [][\A u \in Users : \A c \in registry[u] \ registry'[u] :
       rx'[c] = "dropped"]_vars
==============================================================================
