# A TLA+ model of UNITED

UNITED is a self-hosted chat server in Rust (`src/server`) with an Electron
client (`src/client`).  This directory holds TLA+ modules translated from its
code, the TLC configurations that check them on small instances, and TLAPS
proofs of their properties.  `PROJECT.json` lists the runs, the theorems,
the hazards each is aimed at, and, for every definition, the source lines it
stands for.

    tlc -config Connections_all.cfg MCConnections      # check a run
    tlapm Connections_proofs.tla                         # check the proofs

## The system

**One process, many tasks.**  The server is one tokio process.  Every HTTP
request is a future that may be *dropped at any await* when its client goes
away; every WebSocket is an actor task with a writer and a ping task beside it.

**Three kinds of shared state.**

1. The database is a *single* SQLite connection in a mutex (`db/mod.rs`), in
   autocommit: no handler opens a transaction.  A `spawn_blocking` closure that
   holds the mutex is alone while it runs, but the process may die, or a
   statement fail, between two of its statements; and a handler made of several
   closures lets all others run in between.
2. `DashMap`s in `AppState` (`state.rs`): challenges, the connection registry,
   presence, voice rooms.  What happens under the guard of one entry is atomic;
   the code sometimes gives the guard up between a test and its consequence.
3. Mailboxes (`mpsc`), one per socket.  Events are put into them after the
   database lock was released.

Only the database survives a restart.

### Components

| Component | State | Operations | What makes it correct | What is hard |
|---|---|---|---|---|
| WebSocket actors, registry (`server/src/ws`) | senders per user | upgrade, register, read, write, ping, unregister, force-close | the registry holds exactly the open sockets; a closed socket is cleaned up | clean-ups of one connection against arrivals of another; `abort()` is asynchronous |
| Presence (`chat/presence.rs`) | last status per public key | set by actors and over REST, snapshot, broadcast | online only while connected | decided from a registry read that may be stale; key captured at connect |
| Moderation (`moderation/`) | `bans` | ban, kick, unban, list, lazy expiry | a banned user has no open socket | ban checked before the upgrade; request dropped after the row |
| Voice rooms (`voice/`) | members per room | join, leave, sweep on disconnect, relay | one room per user, limit kept, no ghosts | two sweeps and joins interleave; empty rooms removed after the guard |
| Registration, owner bootstrap (`identity/registration.rs`, `admin/setup.rs`) | users and six tables, setup token | register; token printed at boot, verified, consumed | one owner; all rows or none; setup never reopens | token checked and consumed under different locks; crash between inserts |
| Invites (`invite/`) | invites, use counts | create, delete, consume | at most `max_uses` members | counted before the user exists |
| Server settings (`admin/settings.rs`) | settings rows | read, update | what is declared is enforced | the enforced copy is another one |
| Login, refresh (`auth/challenge.rs`, `auth/jwt.rs`) | challenges, refresh tokens | challenge, verify, refresh | a token is single-use, one session per login | consume, issue and store are three closures |
| Key rotation (`identity/rotation.rs`) | rotation records, `users.public_key` | rotate, cancel within 72 h | the chain ends in the key; all sessions end | clock read before the lock; three statements, no transaction |
| Two-factor codes (`auth/totp.rs`) | secret, enrolled flag | enrol, confirm, verify | only a confirmed secret is enrolled | confirm is read, check, write |
| Roles (`roles/`) | roles, assignments | create, update, delete, assign, remove | nobody acts without permission | permission read under an earlier lock |
| Channels (`channels/`) | categories, channels, positions | create, update, reorder, delete | positions order the list | rows rewritten one by one |
| Messages (`chat/messages.rs`, `reactions.rs`) | messages with a sequence per channel, read markers | create, edit, delete, react, mark read | every client converges on the stored list | broadcast after the lock; markers move back |
| Direct messages (`dm/`) | conversations, messages, offline queue | send, fetch queue, acknowledge | delivered at least once | queue written by an un-awaited task; marked delivered at read |
| Server blocks (`blocks/`) | rows and files | put, get, delete, purge | a row has its file | row and file change in separate steps |
| Peer directory (`p2p/`) | peer id, user | register, unregister | the directory names live peers | an old peer's departure removes the new one |
| Client socket (`client/src/main/ws/client.ts`) | status, socket, retry timer | connect, close, retry, refresh | always one way back to the server | close codes and a token refresh beside the retries |
| Client node (`client/src/main/p2p`) | node, directory slot, retry chains | start, stop, ask, dial again | one node; every wait ends | callers share one slot; a node stopped under a start |
| Client stores (`client/src/renderer/src/stores`) | pages of messages, markers, presence, voice | load, append, trim, mark read | shows what the server stored | replies and events out of order |
| Client blocks (`client/src/main/blocks`, `useBlockContent`) | rows and files, tiers, key | put, get, sweep, cascade | a row can be read back; the picture is the one asked for | separate steps, several sources, late answers |
| Voice mesh (`client/src/renderer/src/voice`) | peer connections, roster | join, offer, answer, leave | every pair connects once | who offers depends on event order |
| Device transfer (`client/src/main/ipc/provisioning.ts`) | listener, timer, ephemeral key | start, cancel, send, receive | a code gives the identity to one device, while it is valid | callbacks of old sessions clear the new one's variables |
| Onboarding (`client/src/renderer/src/pages`, `main/ipc/crypto.ts`, `auth.ts`, `connection.ts`) | stored identity, session keys, server rows, pages | create, recover, unlock, connect, register | what is shown is what is stored | answers reach pages that were left |
| Composer (`MessageComposer.tsx`, `ipc/media.ts`) | draft, files, reply, uploads | stage, reply, send | a message goes where it was written | survives a switch of the channel |

The components talk as follows.  On the server HTTP handlers write the database
and then put events into the registry's mailboxes (`broadcast_to_all`,
`send_to_user`); the actor's reader passes voice messages to
`voice/signaling.rs`; the actor's clean-up calls the voice rooms and presence;
moderation writes `bans`, which the upgrade reads, and closes sockets through the
registry; rotation deletes the rows that refresh and login insert; registration
consumes invites and the setup token, seeds channels and assigns roles.  The
client is two JavaScript processes: the *main* process holds the keys, the
database, the socket and the libp2p node, and the *renderer* shows one page.
The renderer asks main over an IPC channel that keeps its order; main asks the
server over HTTP, whose answers come in any order, and forwards the socket's
events.  In each process a handler runs alone between two `await`s, and what was
read before an `await` may be stale after it: that is where the client's
hazards are.

## Modules

| Module | Models | Composes |
|---|---|---|
| `Connections` | `ws/actor.rs`, `ws/handler.rs`, `ws/broadcast.rs`, `chat/presence.rs`, `moderation/` | actors, presence and moderation over one registry |
| `VoiceChannels` | `voice/state.rs`, join and leave in `voice/signaling.rs` | rooms and the clean-up of a connection |
| `Registration` | `identity/registration.rs`, `admin/setup.rs`, `invite/`, `channels/seed.rs` | registration, invites, boots |
| `Sessions` | `auth/challenge.rs`, `auth/jwt.rs`, `identity/rotation.rs` | login, refresh and rotation over one table |
| `ChannelMessages` | `chat/messages.rs`, `chat/reactions.rs`, `p2p/messages.rs`; `stores/messages.ts`, `hooks/useMessages.ts` | the rows of a channel and one client's window of them |
| `ReadMarkers` | `last_read` in `chat/messages.rs`; `stores/messages.ts`, `hooks/useMessages.ts`, `ChatView.tsx` | the stored markers, two channels' windows and the scrolling |
| `ClientBlocks` | `main/blocks/`, `useBlockContent.ts`, the session keys | store, sweep, cascade and hook; implements `BlockViewer` |
| `BlockViewer` | what `useBlockContent` promises a picture (abstract) | |
| `VoiceMesh` | `voice/signaling.rs`; `VoiceManager.ts`, `SignalingClient.ts`, `useVoice.ts`, `stores/voice.ts` | the server's rooms and the clients' peer connections |
| `Transfer` | `ipc/provisioning.ts`, `DeviceProvisioning.tsx` | both devices of a transfer |
| `Onboarding` | the pages from Welcome to JoinServer, `ipc/crypto.ts`, `ipc/auth.ts`, `ipc/connection.ts` | renderer, main process and servers |
| `ClientSocket` | `main/ws/client.ts`, the refresh in `ipc/connection.ts` | |
| `PeerMesh` | `main/p2p/node.ts`, `discovery.ts`, `gossipsub.ts`, `ipc/p2p.ts` | the node over `ClientSocket` |
| `Composer` | `MessageComposer.tsx`, `ipc/media.ts`, `ChatView.tsx` | the composer and the uploads of its sends |
| `MC...` | instances for TLC | |
| `..._proofs` | theorems and proofs | |

An operator preceded by a comment that begins "Altered:" is not part of a model:
it is the next definition with a plausible mistake in it, and `PROJECT.json`
names the property the mistake violates.

### Connections

A member of `Conns` is one socket for its whole life, and `UserOf` says whose
token opened it.  `pc[c]` is the place in `run_connection`:

| `pc` | Place in `ws/actor.rs` |
|---|---|
| `idle` | before the request; `checked` after `check_ban`, while the handshake is under way |
| `registered` | after `register_connection`, the user's row not read yet |
| `named` | the lookup ran and is awaited: `shownAs` is what it found |
| `reading` | ONLINE published, writer and ping tasks running, in the reader loop |
| `closed` | loop over, `abort()` called |
| `emptied` | the entry was empty under its guard; the guard is gone, `remove` is next |
| `unregistered` | after `unregister_connection` |
| `goingOffline` | `has_remaining` was false |
| `stopped` | returned (or never upgraded) |

`rx` is the receiving half of the mailbox, which the writer task owns:
`is_closed()` on a sender in the registry means `rx = "dropped"`.
`WriterAborted` is a step of its own because `abort()` only schedules the drop.
`registry` and `keys` are the DashMap (an entry may exist with an empty list).
`request` are the bans and kicks being handled: `BanInsert` or `KickCheck`, then
`ForceClose`, or `RequestDropped` when the moderator's client hangs up in
between.  `setBy`, `held`, `skipped` and `inFlight` are history variables for the
properties only.

Presence is stored under a name: the public key of the user's row, or the fingerprint
when the lookup fails.  An actor reads it once, in `LookUpUser`, and publishes ONLINE
and OFFLINE under it (`shownAs`), whatever `KeyChanges` (a rotation or its
cancellation) makes of the row meanwhile; `SetPresence` uses a key the row has held.
So `OnlineIsExplained` speaks of names, and one of its three cases is the code's own
gap: a clean-up under one name that skips its OFFLINE because another connection of
the user is registered, and that connection carries another name.  Nobody takes the
first name offline again until the server restarts; one rotation between two
connections is enough, and TLC reaches it (strike the last disjunct to see it).

`Restart` keeps `bans`, drops everything else and kills all sockets.

### VoiceChannels

`participants` and `keys` are the DashMap of rooms.  A join is `StartSweep`
(collect the ids), one `SweepChannel` per id with `SweepRemove` for an entry
found empty, `SweepDone` (the await on `max_participants`), `Join`.  A disconnect
is the same sweep with no channel to join.  `Leave` and `LeaveRemove` are the two
halves of `leave_channel`.  A connection handles one message at a time, as the
reader loop awaits each handler.  `max_participants` is written by no handler of
this version, so `Limit` is a constant.  A read of it that fails counts as no limit
(`signaling.rs:55-68`): `Join` may then enter a full room, and `unread` remembers the
members who did.  A join whose user is not found does nothing here; what it does to
the client is in `VoiceMesh`.

Seen while modelling: after a failed read a room stays over its limit until enough
members have left, and refuses everybody meanwhile; two connections of a user may
put the user in two rooms (`VoiceChannels_moved.cfg`), which is why `OneChannelPerUser`
and `DepartedIsOut` speak of users with one connection (`Alone`).

### Registration

One request per member of `Requests`.  The places of the closure follow its
statements, `lock` is the mutex; `StatementFails` and `Reboot` may strike at each
place.  A client may hang up while the handler awaits the closure, which runs on;
only what follows the closure depends on it, so `InsertSession` chooses whether
the handler is still there.  `verify_setup_token` and `consume_setup_token` are
called without an await.  Setup
tokens are numbered by the boot that printed them: `stored` is the token whose
hash is in `server_settings`.  `InviteOnly` is the mode the handler compares,
which comes from the configuration file and never changes while the server runs:
the `registration_mode` row that `update_server_settings` writes is read by
`get_server_settings` only.  Requests that fail
the syntactic checks at the top of the handler change nothing and are left out.

### Sessions

One user.  A refresh token is named by the request that issued it; `root` traces
it to the challenge its session began with.  `Verify` or `Consume`, `Issue`,
`Store` are the three closures of login and refresh, with `Abandon` between any
two.  `Rotate` or `Cancel`, `SwitchKey`, `DeleteTokens` are the statements of one
closure under `lock`.  `past[r]` are the records whose deadline had passed when
request `r` read its clock, before it asked for the mutex.  Access tokens are
stateless and have no part in the model.

### ChannelMessages

One channel and one client.  `log` is the channel's part of the table `messages`,
indexed by `server_sequence`; an operation of the server changes it under the
mutex and puts the change into `pending`, as the broadcast comes after the lock.
`Deliver(k)` takes *any* pending change: two handlers may broadcast in either
order.  The mailbox and the socket keep the order of broadcasts, so the time an
event spends in them is counted as time before its broadcast.  `Miss(k)` is an
event that reaches nobody: no connection, no mounted `ChatView` to listen, a
handler dropped before its broadcast, or a gossip message that is not a chat
message, which gets a row and no event.

`window` is the client's `channelMessages[channel]`, `view` what is on the screen,
`fetch` the history requests (`first`, `older`, `prefetch`): asked for, read by
the server, applied, or failed, each at its own time.  A message broadcast from
gossip carries its sender's id and not the row's (`rowId`), so later events about
it find nothing to change.  Text is the number of edits; one reaction stands for
all, as reactions of different users or emojis touch different rows and different
entries of the message.

`disturbed` is a history variable.  It names every cause the code has for showing
something else than the rows, and only a fresh page takes it back:

| Set when | Because |
|---|---|
| an event is handled after a later one about the same message, or a new message after a newer one | broadcast after the lock (`messages.rs`) |
| an event is missed once the window was loaded | nothing is sent again on reconnection |
| an edit, deletion or reaction arrives for a channel that is not shown, or a gossip id | the listener compares with the active channel; `useMessages.ts` |
| a page is applied that an event overtook | the page replaces, or goes before, what the event changed |
| an older page is trimmed at the newest end, or the cursor moved while it was under way | `MAX_MESSAGES_PER_CHANNEL` in `stores/messages.ts` |

`Faithful` is the claim that this list is complete: the causes themselves, which are
hazards of the code, it exempts.

`get_channel_messages` joins the messages with `users` on the sender's key, which
`migrations.rs:12` does not make unique and registration does not compare.  A page
may therefore hold a row twice, and its limit counts the row twice; neither
`loadMessages` nor `loadOlderMessages` looks for repetitions inside a page, so the
window shows the message twice.  `ReadPage` chooses at each read which rows are
`shared` in this way (by two users at most), and the history variable `repeated`
names the rows that the pages in the window brought twice.  `ShownOnce` excepts
those and no others: a row is never shown twice because an event and a page, or two
pages, both brought it.  `Faithful` excepts nothing for it, as the limit cuts the
oldest end of a page, so it compares sets of rows and their order.

A sender sees its own messages
as everyone does, by their events.  Read markers are in `ReadMarkers`; the
channels' counts of mentions are left out.

### ReadMarkers

`marker` are the rows of `last_read`; `puts` the updates on their way, any of
which may be stored next (`UpdateLastRead(k)`) or lost; `windows` the part of
`channelMessages` the markers depend on; `fetches` the requests for pages, with
the second request that reads the stored marker (`GetLastRead`) between the page
and its application.  `Change` is a change of the store together with the render
and the effects it causes: `useMessages` sends a marker when `newestLoaded`
changes, `ChatView` when the list grows at the bottom, and `HandleScroll` when
the user reaches it.  `clean[c]` is a history variable with the causes that may
move a marker back: a put that passed another, an event that passed another, a
first page that is older than what came live, another device.

The code is of two minds about a user who has scrolled up.  `ChatView.tsx` means
to wait for the bottom ("If viewing the active channel and at bottom, mark as
read", line 154; "Mark as read when user scrolls to bottom", line 211), but
`useMessages.ts:79` marks the channel shown on every change of `newestLoaded`,
wherever the user is.  `Rerender` does what the code does, and `BottomIsRead`
claims only what both agree on: at the bottom, everything loaded is read.

Seen while modelling: a first page that brings an older marker and no newer message
leaves the channel on the screen unread.  Counts of mentions, deletions, the cap
(they are in `ChannelMessages`) and the button for new messages are left out.

### ClientBlocks and BlockViewer

`row` is the index with the tier of each block, `file` what is on disk: the key a
file is encrypted under, which is the number of a passphrase, since the salt is kept.
`identity` is the passphrase of the stored row and `key` the one the key in memory
was derived from, at the last unlock; `SaveIdentity` writes the row over any other.
`PutCut` and `EraseCut` are the statements that fail and the process that dies
between file and row; `torn` remembers the rows a cut deletion left.  `call` are the
`resolveBlock` cascades, each at its layer: `local`, `peers` (those connected, then
those of the directory), `server`.  A peer may deliver any block; `Accepted` is the
comparison with the hash.  `hook` is one `useBlockContent` with its two timers.

`Sweep` counts the bytes over the budget into `toFree`, as `runEvictionSweep` does
once, and `EvictNext` is one turn of its loop: one block, the highest tier first,
until `toFree` is spent or nothing is left.  The loop has no `await`, so that no other
handler of the main process runs meanwhile, but the renderer does and the process may
die (`Restart`) or a statement throw (`SweepThrows`).  Access times only order the
blocks of a tier: `NextVictim` takes any of them.

`BlockViewer` is the abstract specification: asked, loading, loaded with the block
asked for or in error, and nothing shown is taken back.  The refinement maps its
variables to fields of the hook (`Viewer == INSTANCE BlockViewer WITH ...`).

Seen while modelling: nothing calls `init` of `blocks/index.ts`, so there is no
memory cache, no time-to-live and no sweep at start-up; `createIdentity` and
`recoverIdentity` do not set the block store key, so that `putBlock` throws until
the next unlock (`store.ts:133`), and a cascade then discards what it fetched; a
row whose file was lost is repaired by no later `putBlock`, and neither is one whose
file was encrypted under an earlier passphrase, which is why `RowsReadBack` promises
that a row can be read back only while the identity has had one passphrase.

### VoiceMesh

`room` and `handler` are the server: a join sweeps, awaits the limit, enters, and
replies before it announces.  `outbox` and `inbox` are the two directions of a
socket.  `setup` are the handlers of join responses in `useVoice`, each awaiting
the audio pipeline and the microphone; `manager` is the `VoiceManager` the refs
point to, and `links` the signaling state of its peer connections.  A change of
`voiceChannelId` and the effects it causes are one step, as the store is read
through `useSyncExternalStore`.  A client that registered in this session has no
id of its own until it restarts (`Nameless`), and then offers to everybody.

What goes wrong is counted in `mishaps`.  `SocketLost` loses what was on its way in
both directions and has the closing connection sweep the user; `SocketBack` is the
reconnect, which the voice module takes no notice of.  `LookUpFails` answers a join
before the sweep, `Enter` passes a full room whose limit could not be read,
`AudioFails` and `MicDenied` end a set-up.  Of a connection's transport two states
matter, because they change who offers or whom the manager has: `IceFails`, in which
each end may restart and offer, whoever of them offered first, and `PeerGone`, the end
of the disconnect timer.  `astray` remembers the clients the server may have elsewhere
than they think, from the loss of a socket or a failed look-up to the next join that
is begun; `RoomFollowsClient` and `RosterComplete` name them as their exception.

Left out: ICE candidates, speaking, mute, deafen, push-to-talk, the other states of
the transport and how long the timer runs, and a new socket that opens before the old
one's connection has swept (`VoiceChannels` has users with two connections).

Seen while modelling: a client that has lost its socket goes on showing its channel
and never joins again, and one whose look-up failed shows the new channel while the
others hear it in the old one; both ends of a failed connection offer at once, and
both then wait with an offer of their own; the member with the smaller id offers at
once while the newcomer still waits for the microphone, and that offer is lost
(`VoiceMesh_full.cfg`); of two joins in a row the audio of the earlier may be ready
last, and its manager takes the place of the one that is connected, which is why
`NewcomerLinks` is about a newcomer with one join under way; leaving during `getUserMedia` leaves the microphone
captured (`AudioPipeline.ts:234`); the error for a full room is ignored; a second
response overwrites the manager without closing its connections; push-to-talk
does not gate the microphone.

### Transfer

`server`, `timer` and `key` are the three module variables of the old device that
every session and callback shares; `open` the listeners that accept; `conn` the
connection of each session with each device, with what travels each way.  A
payload is named by the session whose key encrypts it, and only the code of that
session decrypts it.  `Revoked(n)` is a session cleaned up before its identity
went out.

Seen while modelling: the close of an older session's connection cleans up the
newer session (`Transfer_waits.cfg`); the old device never shows `complete`; the
receiver confirms before it stores, and has no handler for a closed connection,
so that its time-out ends every attempt; no page leads to the sending mode.

### Onboarding

`stack` is the history of pages, `mail` what main has sent to the renderer, in
order, and `calls` the requests to servers and to the device an identity is
received from, answered in any order.  A page that
is left keeps its continuations: `Kept` only marks them as no longer `live`, and
they still write the store and navigate.  An identity is its key pair; `rows` is
main's table of servers and `accounts` what the servers know.  One slot of the
history is one page, and the oldest is forgotten at `Remembered`.

Create and recover replace the session keys before they write the row
(`crypto.ts:203`, `auth.ts:109`): `Saved` is the whole handler and `NotSaved` the
one whose write throws.  `IdentityReceived` writes the row when the other device
delivers, which may be after the user has gone on to create another identity.
`apart` remembers which of the two has come between the identity shown, the keys
and the row since the last save or unlock; `StoreFollowsSession` names them as its
only exceptions.

Seen while modelling: Back after Create leaves an identity whose phrase was never
shown; the row of the server connected meanwhile gets the new user id
(`Onboarding_row.cfg`, `auth.ts:206`); Create and Recover, reached by Back,
replace the key of an account (`Onboarding_key.cfg`); reconnecting erases the
user id of the row; after a save that failed, a registration sends the new public
key with the encrypted key of the old row (`auth.ts:177`), and the application
that has received an identity does not know of it until it is started again, so
that the welcome page it returns to still offers to create one;
`parseInviteInput` never matches `united://invite/CODE`.

### ClientSocket and PeerMesh

`ClientSocket` is `WsClient` with the handler of its authentication errors:
`socket`, `retryTimer`, `status`, `refreshing`.  `PeerMesh` extends it with the
node that `AutoStart` starts when the socket opens: `current` is `p2pNode`,
`node` the libp2p nodes there are, `start` and `stops` the calls that wait,
`slot` the one `pendingDirectoryResolve`, `asked` who still waits, `chain` the
back-off chains and `lostPeers` the map that ends them.  libp2p is external: a
node is up from its creation to its stop and tells of peers that come and go.

Seen while modelling: nothing opens the client's socket in this commit (the first
connect is an action of the environment); two starts may leave a node that runs
and that nothing refers to (`PeerMesh_lost.cfg`); a token that cannot be refreshed
leads to an endless connect and close.  Payloads on the topics, statistics and the
dev panel are left out.

### Composer

`shown` is the channel of the chat view; the composer's local state outlives a
switch of the channel and dies with the chat view; `send` are the calls of
`handleSend`, `here` while their composer is mounted.  The files of a send are
uploaded one by one, each stored, then uploaded; `uploaded` is what the server
has, `local` what the own store has.  The file dialog is modal, but a
notification may switch the channel under it.

Seen while modelling: files chosen in the dialog go to the channel shown when it
closes (`Composer_files.cfg`); a send that completes clears the files and the
reply chosen meanwhile; the draft follows the user to the next channel; a post
whose answer is lost is posted again by a retry.

## Runs

Every run passes; `PROJECT.json` has a mutant of the code for each of its
properties.  `VoiceChannels`, `Registration`, `Sessions`, `VoiceMesh` and
`PeerMesh` say `CHECK_DEADLOCK FALSE`: a finite set of connections, requests,
joins, nodes or chains is used up, after which the model rightly stops.  The
others check deadlock.

| Run | Instance | Shows |
|---|---|---|
| `Connections_all` | 2 connections of one user, REST presence, restarts, and either a ban or kick by the owner or one change of a key or failed lookup (`OneTrouble`); fairness | `OnlineIsExplained`: a stale ONLINE has two causes only, a sender left in the registry and a connection of the same user under another name; `BanMissesOnlyInFlight`; `ClosingStops` |
| `VoiceChannels_all` | a user with 2 connections and another with one, 2 rooms of which one is for one member; fairness | `OneChannelPerUser` for the user with one connection; `NoGhostParticipants`; `CapacityRespected`: only members whose limit could not be read are too many; `DepartedIsOut` |
| `Registration_all` | 3 requests, names and fingerprints, a single-use invite, invite-only, 2 tokens printed | `OwnersShareToken`, `ReplyMeansComplete`, `InviteAdmitsItsUses`, `SetupNeverReopens` |
| `Sessions_all` | 4 requests, 1 challenge, 3 keys, 3 records | `OneTokenPerChallenge`, `AtMostOnePending`, `ChainEndsInKey` |
| `ChannelMessages_all` | 1 row stored, 2 changes after it, pages of 2 (prefetched ones of 1), a cap of 3, 2 history requests at a time | `ShownOnce`: twice only what one page had twice; `LoadingIsOwned`: the flag that stops every other load always has a request that will clear it; `Faithful` |
| `ReadMarkers_all` | 2 channels, 1 stored and 1 new message in one, a prefetch of it, pages of 1, 2 puts and 2 requests on their way | `BottomIsRead`: a channel shown at its bottom is read once the puts are through; `MarkerAdvances`: `clean` names every cause that moves a marker back; `ScrollNotStuck` |
| `ClientBlocks_all` | 2 blocks of 1 and 2 bytes, a budget of 2, 2 cascades, 2 passphrases; fairness | `RowsReadBack`; `SweepKeepsBudget`; `ViewerImplemented`: the refinement; `LoadingIsBounded` |
| `VoiceMesh_all` | 2 clients, one without an id, 2 rooms of which one is for one, 1 and 2 joins, 1 leave, 1 mishap; fairness | `NoGlare`; `RosterComplete`; `RoomFollowsClient`; `NewcomerLinks` |
| `Transfer_all` | 2 devices with 2 attempts each, 2 sessions; fairness | `ListenerIsArmed`; `RevokedCodesAreDead`; `ReceiveEnds` |
| `Onboarding_all` | 2 identities, 1 server, a history of 3 pages, 2 calls under way | `StoreFollowsSession`; `PhraseIsOfTheKey`; `BusyIsAnswered` |
| `PeerMesh_all` | 1 node, 1 peer, 1 channel, 1 chain of 2 tries; fairness | `SlotsWait`; `OneWayBack`; `StartsEnd`; `ChainsEnd` |
| `Composer_all` | 2 channels, 2 files, 2 staged files, 1 send under way | `RepliesStayHome`; `PostsAreBacked` |

`Composer_all` is the largest, with 878 thousand distinct states; `ClientBlocks_all` takes
longest, because of its refinement and its liveness property (about a minute).  `PeerMesh_two.cfg` checks two
nodes, one stopped under the start of the other, without retry chains (198,271
states; it passes).

**Type invariants.**  Every module but the abstract `BlockViewer` has a `TypeOK` (`MeshTypeOK`,
`OnboardingTypeOK` and so on where one module of proofs holds two).  All are proved;
to check one with TLC, add it to the `INVARIANTS` of the run.

**Configurations that end in a counterexample.**  Each states what a comment or
document of the repository says (or, where noted, the limit of one of the
properties above), and TLC shows a behaviour of the code that differs.  They are
no runs of `PROJECT.json`; run them by hand.

| Configuration (module) | Says | What happens |
|---|---|---|
| `Connections_offline` (`MCConnections`) | OFFLINE only for the last connection (`actor.rs:201`) | registry read, other connection goes online, OFFLINE published over it |
| `Connections_gone` (`MCConnections`) | receivers are closed once the reader exits (`actor.rs:253`) | the aborted writer still owns the receiver; the connection counts itself, no OFFLINE ever |
| `Connections_removed` (`MCConnections`) | only closed connections are removed (`actor.rs:252`) | entry removed after its guard, with a new connection in it |
| `VoiceChannels_moved` (`MCVoiceChannels`) | a join leaves the other room first (`signaling.rs:15`) | two connections sweep, then both join |
| `Registration_oneowner` (`MCRegistration`) | the first user becomes the owner (`README.md:112`) | two requests verify before either consumes |
| `Registration_atomic` (`MCRegistration`) | in a transaction (`registration.rs:102`) | autocommit; a crash splits the rows |
| `Sessions_reauth` (`MCSessions`) | all sessions must re-auth (`rotation.rs:229`) | a refresh in flight stores its token afterwards |
| `Onboarding_row` (`MCOnboarding`) | "Save server info with user ID" (`auth.ts:205`) | the user connects to another server while registering |
| `Onboarding_key` (`MCOnboarding`) | (limit) an account's key stays on its device | Create or Recover, reached by Back, replaces it |
| `VoiceMesh_full` (`MCVoiceMesh`) | a full mesh (`VoiceManager.ts:2`) | the member's offer reaches a newcomer who has no manager yet |
| `VoiceMesh_glare` (`MCVoiceMesh`) | the order of ids prevents glare (`VoiceManager.ts:255`) | two clients that do not know their own id offer to each other (a failed connection parts them, too, which is why `NoGlare` names it) |
| `Transfer_waits` (`Transfer`) | the session waits five minutes (`provisioning.ts:13`) | the close of an older session's connection ends the new one |
| `PeerMesh_lost` (`PeerMesh`) | the node is stopped on shutdown and restart (`connection.ts:141`) | two starts overlap, the first node is forgotten while it runs |
| `Composer_files` (`Composer`) | switching clears the staged files (`MessageComposer.tsx:79`) | a dialog opened before the switch returns after it |

The models also contain, without a configuration of their own: an empty voice
room removed with a user who joined after the guard was given up (`RemoveRoom`,
`LeaveRemove`), a starter template cut off half-way and never completed
(`SeedRest`), a rotation record whose key was never installed (`torn` of
`Sessions`), and a socket that passed `check_ban` and registers after
`force_close_user` ran, which `BanMissesOnlyInFlight` allows for by name
(`inFlight`).  In `ChannelMessages` a live message that arrives while the first
page is under way vanishes when the page replaces the messages (`ApplyFirst` with
a stale page), and a reaction can be removed from a deleted message
(`RemoveReaction`).

**Bounds.**  The races of the server are between two tasks and what a third did
meanwhile: a connection's clean-up against the arrival of another of the same
user, with a moderation request, a presence request or a rotation as the third
(`Connections_all`), or three connections (`Connections_removed`).  A request and a
rotation meet nowhere but in the connections' own steps, so `OneTrouble` takes them
apart; the theorems have both.  Two users share an entry of a map only where they
share a key, which nothing forbids and `SharedKey` sets; otherwise one user's
connections are enough where properties speak of one user.  `Registration_all` is invite-only, which
makes an invite or the token necessary; the open mode adds only requests with
neither, and `Registration_oneowner` and `Registration_atomic` use it.  Three
requests are an owner, who makes the invite, and two that want its one use.
`MaxBoots = 2` allows a token to be replaced once while a request with the old one
is under way; further boots repeat that.  `MaxRecords = 3` allows a rotation, its
cancellation or settling, and another, with a request whose clock is older than
either.  Three keys allow a rotation back to the genesis key and on to a third.
Two changes in `ChannelMessages_all` are two messages, two events about one, or one
of each, which is what it takes to be late, to be applied twice, or to pass a page
in either direction; with one stored row they make up to three rows and, as each may
be in a page twice, up to six entries, so that a page (2) is less than the window (3)
and the window less than the channel, and trimming happens at both ends.  A page of
one could not repeat a row, and a prefetched page of one leaves older rows to be
loaded; two requests let a prefetch race a load.

On the client: two blocks of different sizes make a budget that holds either
alone and not both, which is what the order of victims decides, and two cascades
let an answer for an earlier question come after a later one.  In `VoiceMesh_all`
two clients with one and two joins meet, move apart, and meet again with old
messages still on their way, and one thing goes wrong at any point of that; one
without an id is the case the tie-break is not
symmetric for.  Two sessions of `Transfer` are what it takes for a callback of one
to strike the other, two devices for two connections to one listener, two attempts
for a device to hold a code that is no longer valid.  Two calls under way in
`Onboarding` let a page's answer arrive at another page that asked the same, or a
device deliver after the next identity was created; one server is enough for
properties that do not name it, and `Onboarding_row.cfg` has two.  One node of `PeerMesh` is enough for a start
whose node is stopped under it; two tries make a chain that fails, waits and asks
the directory.  Two files of `Composer` are one that is uploaded and a later one that is
not; two sends, of a composer that was left and of the new one, share nothing its
properties speak of, and take a hundred times the states (with one file: 2.9 million;
it passes).  Two messages of `ReadMarkers`, of which one is stored when the client starts, are
needed for two markers that pass each other, and the second channel for a view that
is left and returned to.
`Requests` is also the bound on users in `Registration`.  Symmetry is used only
for invariants and action properties, never for liveness, over constants that only
equality tells apart.  The theorems below hold for any number of all of these.

**Fairness.**  `Connections!Fairness` is weak fairness of the steps the runtime
owes: a spawned task is polled (`TaskStep`), the writer takes the Close
frame (`WriterCloses`), and a peer that was sent one answers it or is reported
broken by TCP.  The arrival of pongs, peers leaving by themselves and
`WriterAborted` are not assumed.  `VoiceChannels!FairSpec` is weak fairness of
the rest of a started handler, which waits for no other handler.
`ClientBlocks!FairSpec` assumes only that the hook's timers fire, as one condition
on both; no layer need ever answer.  `VoiceMesh!FairMeshSpec` assumes that the server
works off what it was sent and that the clients handle what arrives and are given or
refused their microphones; joining and leaving are the user's, and no socket need be
lost or come back, nor any connection fail.  It is one condition
on all of it, which is enough because all of it is finite: what the users begin is
worked off before the model stops.  `Transfer!FairTransferSpec` assumes the timers of
both sides, the device's time-out among them, and the sender's callbacks, and nothing
of the network.
`PeerMesh!Fairness` assumes the promises and timers named there, the answers of
`fetch`, and that libp2p closes the connections of a node that stops; nothing of
the user, the peers and the socket.  The remaining modules state no liveness: a
request may always be dropped, an event or an answer lost.

## Proofs

Each theorem holds for every value of the constants that satisfies the modules'
`ASSUME`s.  All follow one argument: an inductive invariant made of named parts,
one step of the proof per action.

* `Connections_proofs`.  `OnlineIsExplained` is inductive together with `TypeOK` and
  `ActorsAreNamed` (an actor has a name from its lookup on): each step that could take
  an explanation away gives up the online status with it, leaves another sender
  behind, or is taken by an actor with another name (`EmptiedByActor`), which is the
  third explanation.  `BanMisses` proves `BanInv`, which adds that a row that is enforced was
  inserted (`RowsAreInserted`) and that a connection past `check_ban` when a row
  came is among those in flight at its insert (`CheckedIsInFlight`): a connection
  still open after `ForceClose` was then registered, in flight, or displaced.
  `ClosingAlwaysStops` follows a connection from the Close frame to its end, place by
  place; it rests on `WriterAlwaysServes`, without which the frame could be in a
  mailbox nobody reads.
* `VoiceChannels_proofs`.  `NoGhosts` proves `GhostInv`: a room with a member has a
  key (`RoomsHaveKeys`), so a connection that starts its last sweep has every room
  its user is in still in `todo` (`MembersAreSwept`, `WillSweep`).  `OneChannel`
  proves `SingleInv`: while a user's only connection sweeps on its way to a join,
  the rooms it is still in are ahead of the sweep (`MembersAreAhead`), so none is
  left when it joins.  Without `Alone` the statement is false
  (`VoiceChannels_moved`).  `Capacity` uses the finite-set theorems; it needs no
  invariant about who joins when, as the limit and the count are compared under
  the guard under which the member is added: one who passes it joins a room that is
  below its limit with everybody counted, one who does not is not among the
  `Entitled`.  The module also holds the proofs of
  `VoiceMesh`.  `RoomInv` is its types with what is known of each client's room
  (`Following`): a handler works on the first request, a join (`Working`), and has
  the client nowhere else (`InOneRoom`); a leave request names no channel
  (`RequestsName`), so the one a move sends after its join does nothing; the last
  join on its way is for the channel the client shows (`LastJoinNames`), and when
  none is and the client is not `astray`, the server has it there (`Placed`); a client
  without a socket is astray and has nothing on its way (`Down`), so that the sweep of
  a lost connection never meets a join.  The channel a leave request
  names is what `RoomAlwaysFollows` rests on.  `RosterAlwaysComplete` needs
  `SetupInv`, a count of the joins that are left, and of joins and responses on their
  way, against the setups that none has taken, so that a response always finds one,
  after losses too; and `RosterInv`, which
  explains what each of two members of a room knows of the other (`Knows`): he is
  shown, or an event that tells of him is on its way, or will be sent when one of
  the two joins is answered, and nothing after it says that he has left.  A client
  with a join still to be entered knows nothing (`Entered`), and needs not: the
  response will list the room.  `NeverGlare` rests on a first offer following the order of the
  ids (`OffersFollowIds`), which the restart of a failed connection does not: its
  state is kept apart (`"restarting"`) and named by the property.  It has as its
  hypothesis that only the smallest id may be unknown to its owner; without it the
  property is false (`VoiceMesh_glare`).
  `DepartedIsAlwaysOut` is an invariant and a step: once the connection of such a
  user has swept the last room, it is in no room and nothing adds it again.
* `Registration_proofs`.  `RegInv` is `TypeOK`, who holds the mutex (`LockInv`),
  what each place of the closure has written (`RowInv`), and what is known of
  tokens (`TokenInv`): only the last token printed is ever stored, a request
  found to be an owner's that is still under way or has a row sent that one, and
  complete setup leaves no token and at least one user.  The second is inductive
  because a boot prints a token only without users, and ends all requests.
  `InvitesAreNotOverused` proves `InviteInv`: members and the one request between
  its consume and its insert together never exceed `use_count`.  The module also
  holds the proofs of `Onboarding`, whose answers are messages in a sequence.
  `StoreAlwaysFollows` and `PhraseIsAlwaysRight` prove `OnboardingInv`: the last
  answer still on its way is about the identity in memory and the stored one, and
  when none is on its way page and phrase are (`Owed`), each but for what `apart`
  names, which the two steps that part them put there (`StaysRight`); while
  `CreateIdentity` waits for a phrase or shows one, every answer on its way brings
  one to this page (`FormOwed`), so an answer to another page cannot come between.
  `BusyIsAlwaysAnswered` proves `BusyInv` over the calls and the messages together,
  as the call becomes the message in one step.
* `Sessions_proofs`.  `OneToken` proves `RootInv`: a challenge that is unused has
  no request going back to it, and of those that do only one holds a token or is
  in flight, because taking the challenge or the row out is what puts a request
  in flight.  `OnePending` proves `PendingInv`: a record that was past for a
  request's clock is no longer pending, so a rotation that finds nothing active
  leaves the new record alone in its window.  `ChainEnds` proves `ChainInv`.  That the
  key is the end of the chain is not inductive: between the record and the key the
  mutex is held and the key is only due (`KeyIsDue`, `HolderInv`); each standing
  record must start where the ones before it end (`Linked`), and the record a
  cancellation takes out must be the last one that stands.  The last is why the
  order of records and of clocks is needed (`EarlierAreOver`, `ClocksAreInOrder`): a
  clock beyond a record is beyond all that stand before it.
* `ChannelMessages_proofs`.  `LoadingEnds` proves `LoadInv`: every step that takes
  a `first` or `older` request away clears the flag, or is a prefetch's, which
  leaves it alone when the window has messages and clears it when it has none.
  Its converse is false: a prefetch that is applied clears the flag while a load
  is in flight, and a second load may start.  `ShownOnceAlways` proves `OnceInv`:
  a page is distinct but for the rows it repeats, a selection of it keeps that
  (`FreshIsDistinct`), and a merged window has a message twice only if its page has
  or the window had it twice, as what the window shows is filtered
  (`MergedIsDistinct`).  `FaithfulAlways` proves `FaithInv`, for any log, any queue of changes
  and any requests.  `Faithful` speaks only of a client for which nothing is left
  to be announced; its invariant has to say what may differ until then, and that
  is `Told`: what is shown of a row is what the row holds, or a change that says
  so is pending.  `QueueInv` makes the pending changes worth that: the change that
  adds a row comes before the others of that row and after those that added
  earlier rows, and the last of a kind that was not overtaken says what the row
  holds.  `RequestsRight` says it of every page read and not applied, `WindowRight`
  of a window nothing disturbed, and both that what is missing has its addition
  pending, or lies beyond the page.  `InOrder`, which the module uses for what the
  code gets from `ORDER BY` and `filter`, is defined by rank and without recursion,
  so that `SelectedKeeps`, `AppendedIs`, `TakeIs`, `WithPatchIs` and `MergedIs` can
  say what the model's operators return; `JoinedBelowIs` uses it for the join, which
  is in order and complete and repeats rows; `FirstOfNaturals` is the library's
  well-foundedness of the naturals.
* `ClientBlocks_proofs`.  `Inv` is `StoreInv` (the types of the store and
  `RowsAnnounceFiles`, the first half of `RowsReadBack`, kept by every put, sweep and deletion, cut off or not, with
  `KeysFit`: no file and no key in memory is of a passphrase the identity has not had
  yet), `LookInv` (a cascade under way looks for a block, the one the hook waits for
  looks for the hook's block, and the timers run while it waits) and `SweepInv`.
  `ViewerIsImplemented` is the refinement: under `LookInv` each step is a step of
  `BlockViewer` or leaves it alone, because an answer reaches the hook only from
  the cascade it waits for and only with the block that was asked for.
  `SweepAlwaysKeepsBudget` counts bytes: `UsageOf` is the cardinality of the set of
  all bytes of some blocks, so that the library's facts on finite sets apply, with
  `BlocksAssumption` that there are finitely many.  `SweepInv` says that `toFree` is
  `Excess(budget)` of the table as it is now: `ExcessIs` gives it at the start, and
  `EvictedFrees`, by `UsageOfOne`, says that deleting a block takes exactly its bytes
  off.  Of blocks without bytes any may stay behind when the sweep ends, as the
  property says.
  `LoadingIsAlwaysBounded` rests on `LoadingIsAlwaysTimed`.
* `PeerMesh_proofs`.  `OneWay` says that a retry is pending exactly while a session
  goes on without a socket; every handler of the socket keeps it (`SocketKeepsOneWay`)
  and every other step leaves the socket alone (`MeshLeavesSocket`).
  `SlotsAlwaysWait` needs no more than the property itself: a caller that times
  out leaves the slot empty, whoever is in it.  The module also holds the proofs of
  `Transfer`.  `ListenerArmed` is inductive with the types, which say what each end
  of a connection can expect next.  `RevokedAreDead` rests on
  one fact of a single session: once its key is neither held nor on its way nor
  stored it stays so (`RevokedStays`), as every new key is of a younger session.
  `ReceiveAlwaysEnds` rests on `Attempt`: a device that receives has one connection
  that its own time-out may end.  `NodesTypeCorrect` proves `MeshInv`, which bounds
  the listeners of a node by the starts that have ended.  `StartsAlwaysEnd` takes a
  start from each `await` to the next: no step of another call leaves it at a place
  where nothing of its own can go on (`StartsMove`, `StartsWait`), even when that
  call takes its slot or stops its node (`LivesOK`: a node comes up once).
  `ChainsAlwaysEnd` counts the tries (`TriesHold`, `ChainMoves`).  As a proof by
  induction over them is out of reach, it is stated for at most seven, which is what
  `MAX_RECONNECT_BEFORE_DIRECTORY` in `discovery.ts` says.
* `Composer_proofs`.  `Shape` are the types the other proofs need, and
  `ComposerTypeCorrect` adds the rest.  `ReplyInv` adds
  that the reply the composer holds is of the channel shown, which every switch
  and every notification must keep; `BackedInv` that the files a send has behind
  it are uploaded; `BusyIsASend` is inductive with `Shape`.  The module also holds
  the proofs of `ReadMarkers`, all from `ReadInv`.  The markers on their way are a
  sequence of which any may be stored next: the ones that were overtaken come first
  (`LatePrefix`), the others ask for more and more up to the newest message loaded
  (`MarksInOrder`), and the last of them is the newest message on the screen, or the
  row is already (`LastMark`).  `ScrollNotStuck` needs that a channel that is hidden
  is scrolled as if just mounted (`HiddenIsMounted`).

**Liveness.**  The prover cannot reason about ENABLED, which is inside `WF_`.  The
theorems on liveness therefore spell weak fairness out, with the guard of the step
in the place of ENABLED: `[]<>~Guard \/ []<><<Step>>_vars` (`PolledSpec`,
`TimedSpec`, `TimedTransferSpec`, `TimedStartSpec`, `TimedChainSpec`).  That the
guard is enough for the step to be possible is to be read from the actions, and TLC
found it equal to ENABLED in every state of the runs' instances.  Three of them have
one more hypothesis, of the form "what has begun ends":

| Theorem | Assumes | Because |
|---|---|---|
| `StartsAlwaysEnd` | libp2p's `stop()` resolves for a start that waits for it | it waits for connections to be closed one by one: an induction over them |
| `ChainsAlwaysEnd` | libp2p's dial succeeds or fails | the same; a dial is external |
| `DepartedIsAlwaysOut` | the sweep of a closed connection ends | its loop is over a finite list: an induction over its length |

TLC checks that these follow from the fairness of `PeerMesh!FairSpec` and
`VoiceChannels!FairSpec`, on the instances of `PeerMesh_all` and `VoiceChannels_all`.

Only model-checked: `NewcomerLinks`, which follows a newcomer through the queues of
two clients and the server, and so needs an induction over their lengths; that the
guards above are what ENABLED says; and the three hypotheses of the table.

## What to add next

Of the components below, in this order: the channel list with its positions
(`channels/`, the client's overlapping fetches of it); what clients see of
presence; the server's block store; the
microphone under push-to-talk, mute and leaving.  Then their proofs.

## Not modelled

* **Direct messages**, on both sides.  They are dead in this commit: the connection
  registry is keyed by user id and is asked for public keys, so nothing is ever
  pushed, and no client publishes the key without which nothing can be sent.
* **Roles.**  Single statements behind the mutex; the client's page for them throws
  on the list it is given.
* **Channels and categories**, but for the starter template.  Reordering and
  renaming of categories are always refused, as client and server disagree on the
  fields; the rest are single closures.
* **Two-factor codes, identity blobs, settings, invite landing page, TURN
  credentials, authorization.**  One statement or a pure function each.
* **The server's block store and peer directory.**  External to `ClientBlocks` and
  `PeerMesh`, where they answer or do not.
* **Presence as clients see it, notifications, the other stores.**  Caches of what
  was last sent, replaced whole by each answer.
* **Audio, push-to-talk, the dev panel, thumbnails, encryption**, and everything
  that only renders a store or declares a type.  This is most of the client's
  text: of its lines about a fifth are code that changes state in an order that
  matters, and those are what the map covers.

Message contents, formatting, logging, rate limits, routing and configuration
parsing are left out everywhere; a signature is either right or refused.  The
reasons stand with the components in `PROJECT.json`.
