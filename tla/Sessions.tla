------------------------------- MODULE Sessions -------------------------------
(***************************************************************************)
(* The sessions and the key of one user: challenges and refresh tokens     *)
(* (server/src/auth/challenge.rs, jwt.rs) and the rotation of the identity  *)
(* key (identity/rotation.rs), which is to end every session.              *)
(*                                                                         *)
(* Each spawn_blocking closure takes the database mutex, so a handler that  *)
(* awaits three of them lets others run between; inside a closure of        *)
(* several statements nobody runs, but the process may die or a statement   *)
(* may fail, and there is no transaction to undo the first ones.            *)
(***************************************************************************)
EXTENDS Naturals, Sequences

CONSTANTS Requests,       \* requests; a refresh token is named by who issued it
          Challenges, Keys,
          Genesis,        \* the key of the genesis record
          MaxRecords,     \* bound: rotation records
          Free, NoChallenge

ASSUME GenesisAssumption     == Genesis \in Keys
ASSUME MaxRecordsAssumption  == MaxRecords \in Nat
ASSUME FreeAssumption        == Free \notin Requests
ASSUME NoChallengeAssumption == NoChallenge \notin Challenges

VARIABLES
  pc,          \* where each request is
  challenges,  \* AppState.challenges
  root,        \* history: the challenge a request's session goes back to
  tokens,      \* refresh_tokens: the rows, by the request that issued each
  expired,     \* the tokens whose expires_at has passed
  old,         \* history: the requests that act on a login made before a key change
  key,         \* users.public_key
  chain,       \* rotation_records after the genesis record
  past,        \* the records whose deadline a request's `now` is beyond
  target,      \* the key a rotation or a cancellation is to install
  lock,        \* who holds the database mutex between two statements
  torn         \* history: a rotation or a cancellation stopped half-way

loginVars == <<challenges, root, tokens, expired, old>>
keyVars   == <<key, chain, past, target, lock, torn>>
vars == <<pc, loginVars, keyVars>>

(* "verified" is a login past its signature check or a refresh past its     *)
(* consumed token; "done" has been answered with tokens.                    *)
PC == {"idle", "verified", "issued", "done", "lost", "refused",
       "rotate", "cancel", "recorded", "switched", "finished"}

InFlight(r) == pc[r] \in {"verified", "issued"}

Record == [prev : Keys, new : Keys, status : {"pending", "settled", "cancelled"}]

TypeOK ==
  /\ pc \in [Requests -> PC]
  /\ challenges \in [Challenges -> {"none", "fresh", "stale", "removed"}]
  /\ root \in [Requests -> Challenges \cup {NoChallenge}]
  /\ tokens \in SUBSET Requests
  /\ expired \in SUBSET Requests
  /\ old \in SUBSET Requests
  /\ key \in Keys
  /\ chain \in Seq(Record)
  /\ past \in [Requests -> SUBSET Nat]
  /\ target \in [Requests -> Keys]
  /\ lock \in Requests \cup {Free}
  /\ torn \in BOOLEAN

Init ==
  /\ pc = [r \in Requests |-> "idle"]
  /\ challenges = [ch \in Challenges |-> "none"]
  /\ root = [r \in Requests |-> NoChallenge]
  /\ tokens = {} /\ expired = {} /\ old = {}
  /\ key = Genesis
  /\ chain = <<>>
  /\ past = [r \in Requests |-> {}]
  /\ target = [r \in Requests |-> Genesis]
  /\ lock = Free
  /\ torn = FALSE

GoTo(r, place) == pc' = [pc EXCEPT ![r] = place]

-----------------------------------------------------------------------------
(* Challenges and tokens.                                                    *)

IssueChallenge(ch) ==
  /\ challenges[ch] = "none"
  /\ challenges' = [challenges EXCEPT ![ch] = "fresh"]
  /\ UNCHANGED <<pc, root, tokens, expired, old, keyVars>>

(* Its 60 seconds pass; the entry stays until somebody presents it.          *)
ChallengeExpires(ch) ==
  /\ challenges[ch] = "fresh"
  /\ challenges' = [challenges EXCEPT ![ch] = "stale"]
  /\ UNCHANGED <<pc, root, tokens, expired, old, keyVars>>

(* verify_challenge up to its first await: the entry is taken out of the map, *)
(* then its expiry and the signature are looked at.                          *)
Verify(r, ch) ==
  /\ pc[r] = "idle"
  /\ IF challenges[ch] \in {"fresh", "stale"}
     THEN challenges' = [challenges EXCEPT ![ch] = "removed"]
     ELSE UNCHANGED challenges
  /\ \/ /\ challenges[ch] = "fresh"
        /\ GoTo(r, "verified")
        /\ root' = [root EXCEPT ![r] = ch]
     \/ /\ GoTo(r, "refused")
        /\ UNCHANGED root
  /\ UNCHANGED <<tokens, expired, old, keyVars>>

(* Altered: the token that is presented stays in the table.                  *)
ConsumeWithoutDelete(r, t) ==
  /\ pc[r] = "idle"
  /\ pc[t] = "done"
  /\ lock = Free
  /\ IF t \in tokens \ expired
     THEN /\ GoTo(r, "verified")
          /\ root' = [root EXCEPT ![r] = root[t]]
          /\ old' = IF t \in old THEN old \cup {r} ELSE old
     ELSE /\ GoTo(r, "refused")
          /\ UNCHANGED <<root, old>>
  /\ UNCHANGED <<challenges, tokens, expired, keyVars>>

(* validate_and_consume_refresh_token: the row is found, not expired, and    *)
(* deleted, under the mutex.  A client may present a token more than once.   *)
Consume(r, t) ==
  /\ pc[r] = "idle"
  /\ pc[t] = "done"
  /\ lock = Free
  /\ IF t \in tokens \ expired
     THEN /\ tokens' = tokens \ {t}
          /\ GoTo(r, "verified")
          /\ root' = [root EXCEPT ![r] = root[t]]
          /\ old' = IF t \in old THEN old \cup {r} ELSE old
     ELSE /\ GoTo(r, "refused")
          /\ UNCHANGED <<tokens, root, old>>
  /\ UNCHANGED <<challenges, expired, keyVars>>

(* The user's row is read and the new pair made: the same for a login and    *)
(* for a refresh.                                                            *)
Issue(r) ==
  /\ pc[r] = "verified"
  /\ lock = Free
  /\ GoTo(r, "issued")
  /\ UNCHANGED <<loginVars, keyVars>>

(* store_refresh_token, and the answer if the client is still there.         *)
Store(r) ==
  /\ pc[r] = "issued"
  /\ lock = Free
  /\ tokens' = tokens \cup {r}
  /\ \E place \in {"done", "lost"} : GoTo(r, place)
  /\ UNCHANGED <<challenges, root, expired, old, keyVars>>

(* The handler's future is dropped at one of its awaits, or a statement of   *)
(* its own fails.                                                            *)
Abandon(r) ==
  /\ InFlight(r)
  /\ GoTo(r, "lost")
  /\ UNCHANGED <<loginVars, keyVars>>

(* The 7 days of a token pass; its row stays.                                *)
TokenExpires(t) ==
  /\ t \in tokens \ expired
  /\ expired' = expired \cup {t}
  /\ UNCHANGED <<pc, challenges, root, tokens, old, keyVars>>

-----------------------------------------------------------------------------
(* Rotation.                                                                 *)

Indices(status) == {i \in DOMAIN chain : chain[i].status = status}

(* rotate_key and cancel_rotation read the clock before they ask for the     *)
(* mutex: a record whose deadline passes in between still counts for them.   *)
Ask(r, place) ==
  /\ place \in {"rotate", "cancel"}
  /\ pc[r] = "idle"
  /\ GoTo(r, place)
  /\ past' = [past EXCEPT ![r] = Indices("settled")]
  /\ UNCHANGED <<loginVars, key, chain, target, lock, torn>>

(* The 72 hours of a record pass.                                            *)
DeadlinePasses(i) ==
  /\ i \in Indices("pending")
  /\ chain' = [chain EXCEPT ![i].status = "settled"]
  /\ UNCHANGED <<pc, loginVars, key, past, target, lock, torn>>

(* Altered: the deadline is compared the wrong way round.                    *)
ActiveOnceOver(r) == {i \in DOMAIN chain : chain[i].status # "cancelled" /\ i \in past[r]}

(* cancelled = 0 AND cancellation_deadline > now, at the request's now.      *)
Active(r) == {i \in DOMAIN chain : chain[i].status # "cancelled" /\ i \notin past[r]}

(* rotate_key's closure: prev_key must be the current key and no rotation    *)
(* active; the record is inserted.                                           *)
Rotate(r, prev, new) ==
  /\ pc[r] = "rotate"
  /\ lock = Free
  /\ IF prev = key /\ Active(r) = {}
     THEN /\ Len(chain) < MaxRecords
          /\ chain' = Append(chain, [prev |-> prev, new |-> new, status |-> "pending"])
          /\ target' = [target EXCEPT ![r] = new]
          /\ lock' = r
          /\ GoTo(r, "recorded")
     ELSE /\ GoTo(r, "refused")
          /\ UNCHANGED <<chain, target, lock>>
  /\ UNCHANGED <<loginVars, key, past, torn>>

(* Altered: ORDER BY created_at ASC.                                         *)
CancelOldest(r) ==
  /\ pc[r] = "cancel"
  /\ lock = Free
  /\ \/ \E i \in Active(r) :
          /\ \A j \in Active(r) : i <= j
          /\ chain' = [chain EXCEPT ![i].status = "cancelled"]
          /\ target' = [target EXCEPT ![r] = chain[i].prev]
          /\ lock' = r
          /\ GoTo(r, "recorded")
     \/ /\ GoTo(r, "refused")
        /\ UNCHANGED <<chain, target, lock>>
  /\ UNCHANGED <<loginVars, key, past, torn>>

(* cancel_rotation's closure: the newest active record, if there is one and  *)
(* its prev_key signed, is marked.                                           *)
Cancel(r) ==
  /\ pc[r] = "cancel"
  /\ lock = Free
  /\ \/ \E i \in Active(r) :
          /\ \A j \in Active(r) : j <= i
          /\ chain' = [chain EXCEPT ![i].status = "cancelled"]
          /\ target' = [target EXCEPT ![r] = chain[i].prev]
          /\ lock' = r
          /\ GoTo(r, "recorded")
     \/ /\ GoTo(r, "refused")
        /\ UNCHANGED <<chain, target, lock>>
  /\ UNCHANGED <<loginVars, key, past, torn>>

(* UPDATE users SET public_key, in both.                                     *)
SwitchKey(r) ==
  /\ pc[r] = "recorded"
  /\ GoTo(r, "switched")
  /\ key' = target[r]
  /\ UNCHANGED <<loginVars, chain, past, target, lock, torn>>

(* DELETE FROM refresh_tokens, in both.                                      *)
DeleteTokens(r) ==
  /\ pc[r] = "switched"
  /\ GoTo(r, "finished")
  /\ tokens' = {}
  /\ old' = old \cup tokens \cup {h \in Requests : InFlight(h)}
  /\ lock' = Free
  /\ UNCHANGED <<challenges, root, expired, key, chain, past, target, torn>>

(* A statement after the first fails; what was written stays.                *)
StatementFails(r) ==
  /\ pc[r] \in {"recorded", "switched"}
  /\ GoTo(r, "refused")
  /\ lock' = Free
  /\ torn' = TRUE
  /\ UNCHANGED <<loginVars, key, chain, past, target>>

-----------------------------------------------------------------------------
(* The process dies and boots again: the challenges are gone.                *)
Restart ==
  /\ \E r \in Requests : pc[r] # "idle"
  /\ challenges' = [ch \in Challenges |->
                      IF challenges[ch] = "none" THEN "none" ELSE "removed"]
  /\ pc' = [r \in Requests |->
              IF pc[r] \in {"idle", "done", "refused", "finished"} THEN pc[r] ELSE "lost"]
  /\ lock' = Free
  /\ torn' = (torn \/ lock # Free)
  /\ UNCHANGED <<root, tokens, expired, old, key, chain, past, target>>

Next ==
  \/ \E ch \in Challenges : IssueChallenge(ch) \/ ChallengeExpires(ch)
  \/ \E r \in Requests :
       \/ \E ch \in Challenges : Verify(r, ch)
       \/ \E t \in Requests : Consume(r, t)
       \/ Issue(r)
       \/ Store(r)
       \/ Abandon(r)
       \/ TokenExpires(r)
       \/ \E place \in {"rotate", "cancel"} : Ask(r, place)
       \/ \E prev, new \in Keys : Rotate(r, prev, new)
       \/ Cancel(r)
       \/ SwitchKey(r)
       \/ DeleteTokens(r)
       \/ StatementFails(r)
  \/ \E i \in 1..MaxRecords : DeadlinePasses(i)
  \/ Restart

Spec == Init /\ [][Next]_vars

-----------------------------------------------------------------------------
(* A challenge is worth one session at a time: of all the requests that go   *)
(* back to it, by login or by a chain of refreshes, at most one has a token  *)
(* stored or on its way, however often challenges and tokens are presented.  *)
OneTokenPerChallenge ==
  \A r, s \in Requests :
    /\ root[r] = root[s]
    /\ InFlight(r) \/ r \in tokens
    /\ InFlight(s) \/ s \in tokens
    => r = s

(* The clock is read before the mutex is taken, and still there are never    *)
(* two rotations in their cancellation window, which cancel_rotation's       *)
(* "most recent" and the conflict answer of rotate_key rely on.              *)
AtMostOnePending ==
  \A i, j \in Indices("pending") : i = j

(* The key the chain of records ends in: what another server that follows    *)
(* the chain takes for the user's.                                           *)
ChainKey ==
  LET live == {i \in DOMAIN chain : chain[i].status # "cancelled"}
  IN  IF live = {} THEN Genesis
      ELSE chain[CHOOSE i \in live : \A j \in live : j <= i].new

(* Rotations and cancellations that ran to their end leave the chain ending  *)
(* in users.public_key, in whatever order they came.                         *)
ChainEndsInKey == lock = Free /\ ~torn => key = ChainKey

(* "Invalidate all refresh tokens for this user (all sessions must re-auth)"  *)
(* (rotation.rs): no token goes back to a login made before a key change.    *)
(* One that was being refreshed meanwhile is stored after the DELETE.        *)
AllMustReauthenticate == lock = Free => tokens \cap old = {}
===============================================================================
