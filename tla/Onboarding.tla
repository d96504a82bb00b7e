------------------------------ MODULE Onboarding ------------------------------
(* From the welcome page to the application: creating, recovering, receiving *)
(* and unlocking the identity of the device, connecting to a server, joining *)
(* by a link, registering.  The renderer shows one page at a time and asks the *)
(* main process over a channel that keeps its order; the main process asks  *)
(* servers over the network, whose answers come in any order.  A page that  *)
(* has been left does not take back the calls it made: their continuations  *)
(* still write the store and still navigate.                                *)
(*                                                                          *)
(* An identity is its key pair.  A row of the servers table holds the user  *)
(* id a registration returned, here the account <<server, identity>>.       *)
EXTENDS Naturals, Sequences

CONSTANTS
  Ids,         \* identities
  Servers,     \* servers
  None,        \* null
  Remembered,  \* bound on the pages the history keeps
  MaxPending   \* bound on the calls under way when the user makes another

ASSUME NoneAssumption == None \notin Ids \cup Servers
ASSUME RememberedAssumption == Remembered \in Nat \ {0}

VARIABLES
  disk,      \* the identity in the database
  session,   \* the session keys of the main process
  current,   \* currentServerUrl
  serverRows, \* the servers table: an account, None for no user id, or NoRow
  active,    \* active_server_id
  accounts,  \* the identities registered from here, on each server
  apart,     \* history, since the last save or unlock: "session" if a save
             \* failed after the session keys had been replaced, "disk" if
             \* another device's identity has replaced the stored one
  stack,     \* the history; its last element is the page shown
  has,       \* hasIdentity
  shown,     \* fingerprint of the unlocked identity, None while locked
  words,     \* the identity whose phrase CreateIdentity shows, None for its form
  join,      \* the local state of JoinServer
  calls,     \* calls to servers and to another device under way
  mail       \* what main has sent the renderer

main == <<disk, session, current, apart>>
server == <<serverRows, active, accounts>>
store == <<has, shown>>
local == <<words, join>>
onboardingVars == <<disk, session, current, apart, serverRows, active, accounts, stack, has,
          shown, words, join, calls, mail>>

Pages == {"welcome", "create", "recover", "receive", "join", "app"}
Steps == {"choose", "url", "invite", "unlock", "register"}
NoRow == <<>>
Blank == [step |-> "choose", busy |-> FALSE]
Page == stack[Len(stack)]

(* A call and the message that answers it.  live: the page that made it is  *)
(* still mounted.  locked: what its handler had read of the store.          *)
Call(kind, id, s, locked) ==
  [kind |-> kind, id |-> id, server |-> s, locked |-> locked, live |-> TRUE]

Room == Len(calls) + Len(mail) < MaxPending
Without(s, k) == SubSeq(s, 1, k - 1) \o SubSeq(s, k + 1, Len(s))

OnboardingInit ==
  /\ disk = None /\ session = None /\ current = None /\ apart = {}
  /\ serverRows = [s \in Servers |-> NoRow] /\ active = None
  /\ accounts = [s \in Servers |-> {}]
  /\ stack = <<"welcome">>
  /\ has = FALSE /\ shown = None /\ words = None /\ join = Blank
  /\ calls = <<>> /\ mail = <<>>

------------------------------------------------------------------------------
(* Navigation.                                                              *)

(* A page left behind has lost its local state, and its calls their page.   *)
Kept(p, s) == IF p = Page THEN s ELSE [k \in DOMAIN s |-> [s[k] EXCEPT !.live = FALSE]]

Show(p, cs, ms, w, j) ==
  /\ calls' = Kept(p, cs) /\ mail' = Kept(p, ms)
  /\ words' = IF p = Page THEN w ELSE None
  /\ join' = IF p = Page THEN j ELSE Blank

Pushed(p) == LET s == Append(stack, p)
             IN  IF Len(s) > Remembered THEN Tail(s) ELSE s

NavigateTo(p, ms) == stack' = Pushed(p) /\ Show(p, calls, ms, words, join)

(* DeviceProvisioning waits for the identity it asked for, without a button. *)
Connecting == \E k \in DOMAIN calls : calls[k].kind = "receive" /\ calls[k].live

(* The buttons that only lead to another page.                              *)
Follow ==
  /\ \/ /\ Page = "welcome" /\ ~has
        /\ \E p \in {"create", "recover", "receive"} : NavigateTo(p, mail)
     \/ Page = "welcome" /\ has /\ NavigateTo("join", mail)
     \/ Page = "create" /\ words = None /\ NavigateTo("welcome", mail)
     \/ Page = "create" /\ words # None /\ NavigateTo("join", mail)
     \/ Page = "recover" /\ NavigateTo("welcome", mail)
     \/ Page = "receive" /\ ~Connecting /\ NavigateTo(IF has THEN "app" ELSE "welcome", mail)
     \/ Page = "receive" /\ ~Connecting /\ NavigateTo("welcome", mail)
  /\ UNCHANGED <<main, server, store>>

(* navigate(-1), the way back from JoinServer.                              *)
Back ==
  /\ Page = "join" /\ join.step = "choose" /\ Len(stack) > 1
  /\ stack' = SubSeq(stack, 1, Len(stack) - 1)
  /\ Show(stack[Len(stack) - 1], calls, mail, words, join)
  /\ UNCHANGED <<main, server, store>>

(* The buttons within JoinServer.                                           *)
Choose ==
  /\ Page = "join"
  /\ \/ /\ join.step = "choose"
        /\ \E t \in {"url", "invite"} : join' = [join EXCEPT !.step = t]
     \/ /\ join.step \in {"url", "invite", "register"}
        /\ join' = [join EXCEPT !.step = "choose"]
  /\ UNCHANGED <<main, server, stack, store, words, calls, mail>>

------------------------------------------------------------------------------
(* The identity.  The main process does these calls at once, in order.      *)

Ask(kind, i) == mail' = Append(mail, Call(kind, i, None, FALSE))

(* A key pair that was just generated is new to everyone.                   *)
Unused(i) == i # disk /\ \A s \in Servers : i \notin accounts[s]

(* createIdentity or recoverIdentity replaces the session keys, and then    *)
(* saveIdentity the row.                                                    *)
Saved(i, kind) ==
  /\ session' = i /\ disk' = i /\ apart' = {}
  /\ Ask(kind, i)

(* The write of the row throws: the page shows an error, the keys are those *)
(* of the identity that was not saved.                                      *)
NotSaved(i) ==
  /\ session' = i /\ disk' = disk /\ apart' = apart \cup {"session"}
  /\ UNCHANGED mail

SubmitCreate(i) ==
  /\ Page = "create" /\ words = None /\ Room /\ Unused(i)
  /\ Saved(i, "created") \/ NotSaved(i)
  /\ UNCHANGED <<current, server, stack, store, local, calls>>

(* Altered: the session keys are left to the next unlock.                   *)
SubmitRecoverLocked(i) ==
  /\ Page = "recover" /\ Room
  /\ disk' = i /\ session' = session /\ apart' = {}
  /\ Ask("recovered", i)
  /\ UNCHANGED <<current, server, stack, store, local, calls>>

(* From a phrase of any identity.                                           *)
SubmitRecover(i) ==
  /\ Page = "recover" /\ Room
  /\ Saved(i, "recovered") \/ NotSaved(i)
  /\ UNCHANGED <<current, server, stack, store, local, calls>>

(* unlockIdentity, from Welcome and from JoinServer.                        *)
Unlock ==
  /\ Room /\ disk # None
  /\ \/ Page = "welcome" /\ has /\ Ask("unlocked", disk)
     \/ Page = "join" /\ join.step = "unlock" /\ Ask("joinUnlocked", disk)
  /\ session' = disk /\ apart' = {}
  /\ UNCHANGED <<disk, current, server, stack, store, local, calls>>

(* handleReceive: main connects to the device whose code was entered.       *)
AskDevice ==
  /\ Page = "receive" /\ ~Connecting /\ Room
  /\ calls' = Append(calls, Call("receive", None, None, FALSE))
  /\ UNCHANGED <<main, server, stack, store, local, mail>>

(* Altered: a phrase that is shown is not replaced.                         *)
OnCreatedOnce(m) ==
  /\ m.kind = "created"
  /\ has' = TRUE /\ shown' = m.id
  /\ words' = IF m.live /\ words = None THEN m.id ELSE words
  /\ mail' = Tail(mail)
  /\ UNCHANGED <<main, server, stack, join, calls>>

OnCreated(m) ==
  /\ m.kind = "created"
  /\ has' = TRUE /\ shown' = m.id
  /\ words' = IF m.live THEN m.id ELSE words
  /\ mail' = Tail(mail)
  /\ UNCHANGED <<main, server, stack, join, calls>>

OnRecovered(m) ==
  /\ m.kind = "recovered"
  /\ has' = TRUE /\ shown' = m.id
  /\ NavigateTo("join", Tail(mail))
  /\ UNCHANGED <<main, server>>

(* Welcome asks for the active server next.                                 *)
OnUnlocked(m) ==
  /\ m.kind = "unlocked"
  /\ shown' = m.id
  /\ mail' = Append(Tail(mail), [m EXCEPT !.kind = "active", !.server = active])
  /\ UNCHANGED <<main, server, stack, has, local, calls>>

OnActive(m) ==
  /\ m.kind = "active"
  /\ NavigateTo(IF m.server = None THEN "join" ELSE "app", Tail(mail))
  /\ UNCHANGED <<main, server, store>>

OnJoinUnlocked(m) ==
  /\ m.kind = "joinUnlocked"
  /\ shown' = m.id
  /\ join' = IF m.live THEN [join EXCEPT !.step = "register"] ELSE join
  /\ mail' = Tail(mail)
  /\ UNCHANGED <<main, server, stack, has, words, calls>>

------------------------------------------------------------------------------
(* Servers.                                                                 *)

(* handleConnect: main has the new address at once, the page waits for the  *)
(* answer.                                                                  *)
Connect(s) ==
  /\ Page = "join" /\ join.step = "url" /\ Room
  /\ current' = s
  /\ calls' = Append(calls, Call("connect", None, s, has /\ shown = None))
  /\ UNCHANGED <<disk, session, apart, server, stack, store, local, mail>>

(* handleJoin, of an invite the server has found valid.                     *)
JoinInvite(s) ==
  /\ Page = "join" /\ join.step = "invite" /\ Room
  /\ current' = s
  /\ calls' = Append(calls, Call("connect", None, s, has /\ shown = None))
  /\ UNCHANGED <<disk, session, apart, server, stack, store, local, mail>>

(* handleRegister, by the button or by Enter: main sends the key it holds   *)
(* to the server it has, or refuses; it also asks for the stored row, of    *)
(* which the encrypted key is sent along.                                   *)
Register ==
  /\ Page = "join" /\ join.step = "register" /\ Room
  /\ IF current # None /\ session # None /\ disk # None
     THEN /\ calls' = Append(calls, Call("register", session, current, FALSE))
          /\ mail' = mail
     ELSE /\ mail' = Append(mail, Call("failed", None, None, FALSE))
          /\ calls' = calls
  /\ join' = [join EXCEPT !.busy = TRUE]
  /\ UNCHANGED <<main, server, stack, store, words>>

Answered(k, kind) ==
  /\ calls' = Without(calls, k)
  /\ mail' = Append(mail, [calls[k] EXCEPT !.kind = kind])

(* The server's information is cached in a new row.                         *)
ConnectAnswered(k) ==
  /\ calls[k].kind = "connect"
  /\ serverRows' = [serverRows EXCEPT ![calls[k].server] = None]
  /\ active' = calls[k].server
  /\ Answered(k, "connected")
  /\ UNCHANGED <<main, accounts, stack, store, local>>

Accepts(k) ==
  /\ calls[k].kind = "register"
  /\ calls[k].id \notin accounts[calls[k].server]
  /\ accounts' = [accounts EXCEPT ![calls[k].server] = @ \cup {calls[k].id}]

(* The user id is saved in the row of the server main has now.              *)
RegisterAnswered(k) ==
  /\ Accepts(k)
  /\ serverRows' = [serverRows EXCEPT ![current] =
                IF @ = NoRow THEN @ ELSE <<calls[k].server, calls[k].id>>]
  /\ Answered(k, "registered")
  /\ UNCHANGED <<main, active, stack, store, local>>

(* The account exists, its answer is lost.                                  *)
RegisterLost(k) ==
  /\ Accepts(k)
  /\ Answered(k, "failed")
  /\ UNCHANGED <<main, serverRows, active, stack, store, local>>

ChannelsAnswered(k) ==
  /\ calls[k].kind = "channels"
  /\ Answered(k, "channels")
  /\ UNCHANGED <<main, server, stack, store, local>>

(* The identity of the other device replaces the stored one, wherever the   *)
(* user is by then; the page only tells of it.                              *)
IdentityReceived(k) ==
  /\ calls[k].kind = "receive"
  /\ disk' \in Ids
  /\ apart' = apart \cup {"disk"}
  /\ calls' = Without(calls, k)
  /\ UNCHANGED <<session, current, server, stack, store, local, mail>>

(* Any call may fail; of two kinds the page only shows an error.            *)
CallFailed(k) ==
  /\ IF calls[k].kind \in {"connect", "receive"}
     THEN calls' = Without(calls, k) /\ mail' = mail
     ELSE Answered(k, "failed")
  /\ UNCHANGED <<main, server, stack, store, local>>

OnConnected(m) ==
  /\ m.kind = "connected"
  /\ join' = IF m.live
             THEN [join EXCEPT !.step = IF m.locked THEN "unlock" ELSE "register"]
             ELSE join
  /\ mail' = Tail(mail)
  /\ UNCHANGED <<main, server, stack, store, words, calls>>

(* The page goes on to fetch the channels.                                  *)
OnRegistered(m) ==
  /\ m.kind = "registered"
  /\ calls' = Append(calls, [m EXCEPT !.kind = "channels"])
  /\ mail' = Tail(mail)
  /\ UNCHANGED <<main, server, stack, store, local>>

OnChannels(m) ==
  /\ m.kind = "channels"
  /\ NavigateTo("app", Tail(mail))
  /\ UNCHANGED <<main, server, store>>

(* Altered: the error leaves the button disabled.                           *)
OnFailedBusy(m) ==
  /\ m.kind = "failed"
  /\ mail' = Tail(mail)
  /\ UNCHANGED <<main, server, stack, store, local, calls>>

OnFailed(m) ==
  /\ m.kind = "failed"
  /\ join' = IF m.live THEN [join EXCEPT !.busy = FALSE] ELSE join
  /\ mail' = Tail(mail)
  /\ UNCHANGED <<main, server, stack, store, words, calls>>

------------------------------------------------------------------------------
(* An invite link opened outside the application.                           *)
DeepLink(s) ==
  /\ Room
  /\ mail' = Append(mail, Call("link", None, s, FALSE))
  /\ UNCHANGED <<main, server, stack, store, local, calls>>

(* Every page goes to JoinServer; a JoinServer that is mounted is kept.     *)
OnLink(m) ==
  /\ m.kind = "link"
  /\ stack' = Pushed("join")
  /\ calls' = Kept("join", calls) /\ mail' = Kept("join", Tail(mail))
  /\ words' = None
  /\ join' = IF Page = "join" THEN [join EXCEPT !.step = "invite"]
             ELSE [Blank EXCEPT !.step = "invite"]
  /\ UNCHANGED <<main, server, store>>

(* The application is closed and started again; hydrate reads the database. *)
Restart ==
  /\ session' = None /\ current' = None /\ apart' = {}
  /\ stack' = <<"welcome">>
  /\ has' = (disk # None) /\ shown' = None /\ words' = None /\ join' = Blank
  /\ calls' = <<>> /\ mail' = <<>>
  /\ UNCHANGED <<disk, server>>

UserStep ==
  \/ Follow \/ Back \/ Choose \/ Unlock \/ AskDevice \/ Register \/ Restart
  \/ \E i \in Ids : SubmitCreate(i) \/ SubmitRecover(i)
  \/ \E s \in Servers : Connect(s) \/ JoinInvite(s) \/ DeepLink(s)

Answer(k) ==
  /\ k \in DOMAIN calls
  /\ \/ ConnectAnswered(k) \/ RegisterAnswered(k) \/ RegisterLost(k)
     \/ ChannelsAnswered(k) \/ IdentityReceived(k) \/ CallFailed(k)

Receive ==
  /\ mail # <<>>
  /\ LET m == Head(mail)
     IN  \/ OnCreated(m) \/ OnRecovered(m) \/ OnUnlocked(m) \/ OnActive(m)
         \/ OnJoinUnlocked(m) \/ OnConnected(m) \/ OnRegistered(m) \/ OnChannels(m)
         \/ OnFailed(m) \/ OnLink(m)

OnboardingNext == UserStep \/ Receive \/ \E k \in 1..MaxPending : Answer(k)

OnboardingSpec == OnboardingInit /\ [][OnboardingNext]_onboardingVars

------------------------------------------------------------------------------
(* Properties.                                                              *)

Calls == [kind : {"connect", "register", "channels", "receive"}, id : Ids \cup {None},
          server : Servers \cup {None}, locked : BOOLEAN, live : BOOLEAN]
Mail == [kind : {"created", "recovered", "unlocked", "active", "joinUnlocked", "connected",
                 "registered", "channels", "failed", "link"},
         id : Ids \cup {None}, server : Servers \cup {None}, locked : BOOLEAN, live : BOOLEAN]
Accounts == Servers \X Ids

(* A call to a server has one, a registration a key to register.            *)
OnboardingTypeOK ==
  /\ disk \in Ids \cup {None} /\ session \in Ids \cup {None}
  /\ current \in Servers \cup {None} /\ active \in Servers \cup {None}
  /\ apart \subseteq {"session", "disk"}
  /\ serverRows \in [Servers -> Accounts \cup {None, NoRow}]
  /\ accounts \in [Servers -> SUBSET Ids]
  /\ stack \in Seq(Pages) /\ Len(stack) \in 1..Remembered
  /\ has \in BOOLEAN /\ shown \in Ids \cup {None} /\ words \in Ids \cup {None}
  /\ join \in [step : Steps, busy : BOOLEAN]
  /\ calls \in Seq(Calls) /\ mail \in Seq(Mail)
  /\ \A k \in DOMAIN calls : /\ calls[k].kind = "register" => calls[k].id \in Ids
                             /\ calls[k].kind # "receive" => calls[k].server \in Servers

NoIdentityAnswer ==
  \A k \in DOMAIN mail : mail[k].kind \notin {"created", "recovered", "unlocked", "joinUnlocked"}

(* The identity the store shows as unlocked is the one main signs with and  *)
(* the one that will be unlocked tomorrow, whichever pages answered last.   *)
(* Since the last save or unlock only two things come between them: a save  *)
(* that failed leaves main with keys the store does not show, and an        *)
(* identity received from a device is stored but not shown.                 *)
StoreFollowsSession ==
  (shown # None /\ NoIdentityAnswer) =>
    /\ shown = session \/ "session" \in apart
    /\ shown = disk \/ "disk" \in apart

(* The phrase the user is told to write down is that of the stored key,     *)
(* unless an identity received since has replaced it.                       *)
PhraseIsOfTheKey ==
  (words # None /\ NoIdentityAnswer) => words = disk \/ "disk" \in apart

(* While the button says "Registering..." and is disabled, an answer that   *)
(* will enable it or leave the page is on its way to this very page.        *)
BusyIsAnswered ==
  join.busy =>
    \/ \E k \in DOMAIN calls : calls[k].live /\ calls[k].kind \in {"register", "channels"}
    \/ \E k \in DOMAIN mail : mail[k].live /\ mail[k].kind \in {"registered", "channels", "failed"}

(* auth.ts:205 saves "server info with user ID": the id of that server's    *)
(* account.  The address is read again after the wait.                      *)
RowIsOfItsServer ==
  \A s \in Servers : serverRows[s] \in Accounts => serverRows[s][1] = s

(* The key of an account made here stays on the device.  Create and Recover *)
(* are reached from JoinServer's Back and replace it.                       *)
AccountKeepsItsKey ==
  \A s \in Servers : accounts[s] \subseteq {disk}
==============================================================================
