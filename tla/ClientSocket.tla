----------------------------- MODULE ClientSocket -----------------------------
(* The client's WebSocket: WsClient, which reconnects for ever with a       *)
(* back-off, and the handler of its authentication errors, which exchanges  *)
(* the refresh token and connects again beside the retries.  The tokens and *)
(* the delays are left out: whether the server takes a token, and whether   *)
(* it exchanges one, is open; maxAttempts is Infinity in the code.          *)

VARIABLES
  socket,     \* ws: "none", "connecting" or "open"
  retryTimer, \* reconnectTimer
  status,     \* status, which the pages and the mesh are told about
  refreshing  \* a call of refreshTokens waits for the server

socketVars == <<socket, retryTimer, status, refreshing>>

SocketTypeOK ==
  /\ socket \in {"none", "connecting", "open"}
  /\ retryTimer \in BOOLEAN
  /\ status \in {"disconnected", "reconnecting", "connected"}
  /\ refreshing \in BOOLEAN

SocketInit ==
  /\ socket = "none" /\ retryTimer = FALSE
  /\ status = "disconnected"
  /\ refreshing = FALSE

(* readyState is OPEN: send does not throw.                                 *)
CanSend == socket = "open"

(* scheduleReconnect.                                                       *)
ScheduleReconnect ==
  /\ socket' = "none"
  /\ retryTimer' = TRUE
  /\ status' = "reconnecting"

(* Altered: a pending retry is left behind.                                 *)
DoConnectKeepsTimer ==
  \/ socket' = "connecting" /\ UNCHANGED <<retryTimer, status>>
  \/ ScheduleReconnect

(* doConnect: the pending retry is cancelled, the socket there is is        *)
(* detached and closed, and a new one is made; the constructor may throw.   *)
DoConnect ==
  \/ socket' = "connecting" /\ retryTimer' = FALSE /\ UNCHANGED status
  \/ ScheduleReconnect

(* The first connect of the session.                                        *)
FirstConnect ==
  /\ status = "disconnected" /\ socket = "none"
  /\ DoConnect
  /\ UNCHANGED refreshing

(* The timer of a retry.                                                    *)
Retry ==
  /\ retryTimer
  /\ DoConnect
  /\ UNCHANGED refreshing

(* onopen: a token that has expired is refused only after this.             *)
Opened ==
  /\ socket = "connecting"
  /\ socket' = "open"
  /\ status' = "connected"
  /\ UNCHANGED <<retryTimer, refreshing>>

(* onclose: the connection is lost, cannot be made, or is closed with a     *)
(* code that is no error of the session's.                                  *)
Lost ==
  /\ socket # "none"
  /\ ScheduleReconnect
  /\ UNCHANGED refreshing

(* onclose with TOKEN_INVALID or BANNED: no retry, and the pages are told.  *)
ClosedForGood ==
  /\ socket = "open"
  /\ socket' = "none" /\ status' = "disconnected"
  /\ UNCHANGED <<retryTimer, refreshing>>

(* onclose with TOKEN_EXPIRED: the tokens are refreshed beside the retry.   *)
(* At most one refresh is under way here.                                   *)
ClosedExpired ==
  /\ socket = "open" /\ ~refreshing
  /\ refreshing' = TRUE
  /\ ScheduleReconnect

(* The new tokens are there: connect, whatever the retries have done since. *)
Refreshed ==
  /\ refreshing
  /\ refreshing' = FALSE
  /\ DoConnect

(* There was no refresh token, or the server refused it.                    *)
RefreshFails ==
  /\ refreshing
  /\ refreshing' = FALSE
  /\ UNCHANGED <<socket, retryTimer, status>>

(* A connection that is up or being retried has a socket or a retry, and    *)
(* never both: two sockets would feed one session, none would wait for ever.*)
OneWayBack == status # "disconnected" => (retryTimer <=> socket = "none")

==============================================================================
