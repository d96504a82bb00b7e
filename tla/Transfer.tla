------------------------------- MODULE Transfer -------------------------------
(* Moving an identity to a new device.  The old device's main process opens *)
(* a TCP server for one connection and shows a code with its address and an *)
(* ephemeral key; the new device connects, sends its own ephemeral key,     *)
(* gets the identity encrypted under the shared secret, confirms and stores *)
(* it.  The server, its timer and the ephemeral key are variables of the    *)
(* main process that every session and every callback shares.               *)
(*                                                                          *)
(* A payload is the session whose private key it was encrypted under: the   *)
(* receiver can read it if that is the session of its code.                 *)
(*                                                                          *)
(* The main process that does this also keeps the mesh: where PeerMesh has  *)
(* a definition of the same name, the one here is named for the transfer.   *)
EXTENDS Naturals, FiniteSets

CONSTANTS
  Devices,      \* the new devices
  MaxSessions,  \* bound on the sessions the old device starts
  Attempts      \* bound on the attempts of one new device

ASSUME SessionsAssumption == MaxSessions \in Nat
ASSUME TriesAssumption == Attempts \in Nat

VARIABLES
  server,   \* activeServer: the session it was made for, 0 for null
  timer,    \* activeTimeout
  key,      \* activeEphemeralPrivateKey
  open,     \* the sessions whose TCP server accepts
  last,     \* the number of sessions started; their codes are known
  screen,   \* sendStatus of the old device
  conn,     \* the connection of each session with each device
  tries,    \* attempts of each device
  receiveStatus,  \* of each new device
  code,     \* the session of the code of the last attempt
  stored    \* the session an identity was stored from, 0 for none

main == <<server, timer, key, open>>
device == <<tries, receiveStatus, code, stored>>
transferVars == <<server, timer, key, open, last, screen, conn, tries, receiveStatus, code, stored>>

Sessions == 1..MaxSessions
Keys == 0..MaxSessions

(* The two ends, what is on its way to the sender, and the payload on its   *)
(* way to the receiver.                                                     *)
NoConnection == [here |-> "none", there |-> "none", up |-> "nothing", down |-> 0]
Accepted == [here |-> "open", there |-> "open", up |-> "pub", down |-> 0]

TransferInit ==
  /\ server = 0 /\ timer = 0 /\ key = 0 /\ open = {}
  /\ last = 0
  /\ screen = "idle"
  /\ conn = [n \in Sessions |-> [d \in Devices |-> NoConnection]]
  /\ tries = [d \in Devices |-> 0]
  /\ receiveStatus = [d \in Devices |-> "idle"]
  /\ code = [d \in Devices |-> 0]
  /\ stored = [d \in Devices |-> 0]

------------------------------------------------------------------------------
(* The old device.                                                          *)

(* Altered: the timer is cleared, the server not closed.                    *)
CleanupLeavesServer ==
  /\ server' = 0 /\ timer' = 0 /\ key' = 0
  /\ open' = open

(* cleanupProvisioning, whatever session is active.                         *)
Cleanup ==
  /\ server' = 0 /\ timer' = 0 /\ key' = 0
  /\ open' = open \ {server}

(* startProvisioning: clean up, a key, a server, a timer, a code.           *)
Start ==
  /\ screen = "idle" /\ last < MaxSessions
  /\ last' = last + 1
  /\ server' = last' /\ timer' = last' /\ key' = last'
  /\ open' = (open \ {server}) \cup {last'}
  /\ screen' = "waiting"
  /\ UNCHANGED <<conn, device>>

(* The port cannot be bound.                                                *)
BindFails ==
  /\ screen = "idle"
  /\ Cleanup
  /\ screen' = "error"
  /\ UNCHANGED <<last, conn, device>>

(* Cancel, and Back, which cancels too.                                     *)
Cancel ==
  /\ Cleanup
  /\ screen' = "idle"
  /\ UNCHANGED <<last, conn, device>>

(* The countdown of the page reaches zero.                                  *)
CountedDown ==
  /\ screen = "waiting"
  /\ screen' = "timeout"
  /\ UNCHANGED <<main, last, conn, device>>

TryAgain ==
  /\ screen \in {"timeout", "error"}
  /\ screen' = "idle"
  /\ UNCHANGED <<main, last, conn, device>>

(* PROVISIONING_TIMEOUT_MS.                                                 *)
TimeoutFires ==
  /\ timer # 0
  /\ Cleanup
  /\ UNCHANGED <<last, screen, conn, device>>

(* Altered: the key the session was started with, kept by its callback.     *)
OnPublicKeyOwnKey(n, d) ==
  /\ conn[n][d].here = "open" /\ conn[n][d].up = "pub"
  /\ conn' = [conn EXCEPT ![n][d].here = "sent", ![n][d].up = "nothing", ![n][d].down = n]
  /\ UNCHANGED <<main, last, screen, device>>

(* The device's key: the payload goes out under the key that is active now, *)
(* or the connection is destroyed if there is none.                         *)
OnPublicKey(n, d) ==
  /\ conn[n][d].here = "open" /\ conn[n][d].up = "pub"
  /\ conn' = IF key = 0
             THEN [conn EXCEPT ![n][d].here = "closing", ![n][d].up = "nothing"]
             ELSE [conn EXCEPT ![n][d].here = "sent", ![n][d].up = "nothing", ![n][d].down = key]
  /\ UNCHANGED <<main, last, screen, device>>

(* The confirmation: the session is over, and so is whatever is active.     *)
OnConfirmation(n, d) ==
  /\ conn[n][d].here = "sent" /\ conn[n][d].up = "hmac"
  /\ Cleanup
  /\ conn' = [conn EXCEPT ![n][d].here = "closing", ![n][d].up = "nothing"]
  /\ UNCHANGED <<last, screen, device>>

(* The socket's close or error event.                                       *)
OnClose(n, d) ==
  /\ \/ conn[n][d].here = "closing"
     \/ conn[n][d].here \in {"open", "sent"} /\ conn[n][d].there = "closed" /\ conn[n][d].up # "hmac"
  /\ Cleanup
  /\ conn' = [conn EXCEPT ![n][d].here = "closed", ![n][d].up = "nothing"]
  /\ UNCHANGED <<last, screen, device>>

------------------------------------------------------------------------------
(* A new device.                                                            *)

(* An attempt with any code shown so far.                                   *)
Trying(d, n) ==
  /\ receiveStatus[d] \in {"idle", "error"} /\ tries[d] < Attempts /\ n <= last
  /\ tries' = [tries EXCEPT ![d] = @ + 1]
  /\ code' = [code EXCEPT ![d] = n]

(* The server accepts one connection and stops listening.                   *)
Connect(d, n) ==
  /\ Trying(d, n)
  /\ n \in open /\ conn[n][d] = NoConnection
  /\ open' = open \ {n}
  /\ conn' = [conn EXCEPT ![n][d] = Accepted]
  /\ receiveStatus' = [receiveStatus EXCEPT ![d] = "connecting"]
  /\ UNCHANGED <<server, timer, key, last, screen, stored>>

(* Nobody listens, or the devices do not reach each other.                  *)
ConnectFails(d, n) ==
  /\ Trying(d, n)
  /\ receiveStatus' = [receiveStatus EXCEPT ![d] = "error"]
  /\ UNCHANGED <<main, last, screen, conn, stored>>

Receiving(d, n) ==
  receiveStatus[d] = "connecting" /\ code[d] = n /\ conn[n][d].there = "open"

(* A payload that can be read is confirmed and stored.                      *)
OnPayload(d, n) ==
  /\ Receiving(d, n) /\ conn[n][d].down = n
  /\ conn' = [conn EXCEPT ![n][d].there = "closed", ![n][d].down = 0,
                          ![n][d].up = IF conn[n][d].here = "sent" THEN "hmac" ELSE "nothing"]
  /\ stored' = [stored EXCEPT ![d] = n]
  /\ receiveStatus' = [receiveStatus EXCEPT ![d] = "complete"]
  /\ UNCHANGED <<main, last, screen, tries, code>>

(* It is confirmed, but the database refuses it.                            *)
OnPayloadNotStored(d, n) ==
  /\ Receiving(d, n) /\ conn[n][d].down = n
  /\ conn' = [conn EXCEPT ![n][d].there = "closed", ![n][d].down = 0,
                          ![n][d].up = IF conn[n][d].here = "sent" THEN "hmac" ELSE "nothing"]
  /\ receiveStatus' = [receiveStatus EXCEPT ![d] = "error"]
  /\ UNCHANGED <<main, last, screen, tries, code, stored>>

(* A payload under another key cannot be decrypted.                         *)
OnForeignPayload(d, n) ==
  /\ Receiving(d, n) /\ conn[n][d].down \notin {0, n}
  /\ conn' = [conn EXCEPT ![n][d].there = "closed", ![n][d].down = 0]
  /\ receiveStatus' = [receiveStatus EXCEPT ![d] = "error"]
  /\ UNCHANGED <<main, last, screen, tries, code, stored>>

(* Altered: the timeout is cleared once the sender has read the key.        *)
GiveUpBeforeKey(d, n) ==
  /\ Receiving(d, n) /\ conn[n][d].up = "pub"
  /\ conn' = [conn EXCEPT ![n][d].there = "closed", ![n][d].down = 0]
  /\ receiveStatus' = [receiveStatus EXCEPT ![d] = "error"]
  /\ UNCHANGED <<main, last, screen, tries, code, stored>>

(* Thirty seconds without the whole payload.                                *)
GiveUp(d, n) ==
  /\ Receiving(d, n)
  /\ conn' = [conn EXCEPT ![n][d].there = "closed", ![n][d].down = 0]
  /\ receiveStatus' = [receiveStatus EXCEPT ![d] = "error"]
  /\ UNCHANGED <<main, last, screen, tries, code, stored>>

(* The sender's end is gone and the socket reports an error.  A regular end *)
(* has no handler.                                                          *)
OnError(d, n) ==
  /\ Receiving(d, n) /\ conn[n][d].here = "closed" /\ conn[n][d].down = 0
  /\ conn' = [conn EXCEPT ![n][d].there = "closed"]
  /\ receiveStatus' = [receiveStatus EXCEPT ![d] = "error"]
  /\ UNCHANGED <<main, last, screen, tries, code, stored>>

SenderStep(n, d) == OnPublicKey(n, d) \/ OnConfirmation(n, d) \/ OnClose(n, d)

DeviceStep(d, n) ==
  \/ OnPayload(d, n) \/ OnPayloadNotStored(d, n) \/ OnForeignPayload(d, n)
  \/ OnError(d, n)

UserStep ==
  \/ Start \/ BindFails \/ Cancel \/ TryAgain
  \/ \E d \in Devices, n \in Sessions : Connect(d, n) \/ ConnectFails(d, n)

TransferNext ==
  \/ UserStep \/ CountedDown \/ TimeoutFires
  \/ \E d \in Devices, n \in Sessions : SenderStep(n, d) \/ DeviceStep(d, n) \/ GiveUp(d, n)

TransferSpec == TransferInit /\ [][TransferNext]_transferVars

(* Timers fire and the callbacks of sockets run while the programs are up.  *)
FairTransferSpec ==
  /\ TransferSpec
  /\ WF_transferVars(TimeoutFires)
  /\ \A d \in Devices :
       /\ WF_transferVars(\E n \in Sessions : GiveUp(d, n))
       /\ \A n \in Sessions : WF_transferVars(SenderStep(n, d))

------------------------------------------------------------------------------
(* Properties.                                                              *)

(* What the sender has yet to read is what its end of the connection        *)
(* expects next: the key on a new connection, the confirmation after it.    *)
TransferTypeOK ==
  /\ server \in Keys /\ timer \in Keys /\ key \in Keys /\ open \subseteq Sessions
  /\ last \in Keys
  /\ screen \in {"idle", "waiting", "timeout", "error"}
  /\ conn \in [Sessions -> [Devices ->
       [here : {"none", "open", "sent", "closing", "closed"}, there : {"none", "open", "closed"},
        up : {"nothing", "pub", "hmac"}, down : Keys]]]
  /\ \A n \in Sessions, d \in Devices :
       /\ conn[n][d].up = "pub" => conn[n][d].here = "open"
       /\ conn[n][d].up = "hmac" => conn[n][d].here = "sent"
  /\ tries \in [Devices -> 0..Attempts]
  /\ receiveStatus \in [Devices -> {"idle", "connecting", "complete", "error"}]
  /\ code \in [Devices -> Keys]
  /\ stored \in [Devices -> Keys]

(* A server that accepts is the active one, has its timer running and its   *)
(* key in place: none outlives five minutes unseen, whatever callbacks of   *)
(* older sessions did to the shared variables.                              *)
ListenerIsArmed ==
  \A n \in open : server = n /\ timer = n /\ key = n

(* A session cleaned up by Cancel, a timeout or a new session before the    *)
(* identity went out under its key gives the identity to nobody any more,   *)
(* though its connection may be open and another session's key active.      *)
Revoked(n) ==
  /\ n <= last /\ key # n
  /\ \A d \in Devices : conn[n][d].down # n /\ stored[d] # n

RevokedCodesAreDead ==
  \A n \in Sessions : [](Revoked(n) => [](\A d \in Devices : stored[d] # n))

(* Every attempt to receive ends, with the identity or an error.            *)
ReceiveEnds ==
  \A d \in Devices : receiveStatus[d] = "connecting" ~> receiveStatus[d] \in {"complete", "error"}

(* The page says of a session "Auto-cancels in" five minutes and offers to  *)
(* cancel it: nothing else ends it before a device has connected.  The      *)
(* close of an older session's connection does.                             *)
WaitsItsTime ==
  [][\A n \in Sessions :
       (n \in open \ open' /\ screen = "waiting" /\ screen' = "waiting" /\ ~TimeoutFires)
         => \E d \in Devices : conn[n][d] = NoConnection /\ conn'[n][d] # NoConnection]_transferVars
==============================================================================
