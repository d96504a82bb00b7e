----------------------------- MODULE Registration -----------------------------
(***************************************************************************)
(* How an identity becomes a member: POST /api/auth/register               *)
(* (server/src/identity/registration.rs) with the setup token of           *)
(* admin/setup.rs and the invites of invite/.                              *)
(*                                                                         *)
(* The database is one connection behind a mutex, in autocommit: between   *)
(* two statements of the handler's closure no other handler runs, but the  *)
(* process may die or a statement may fail, and what was written stays.    *)
(* The handler's own future may be dropped while its closure runs, because *)
(* the client hung up; the closure runs on and nothing after it does, so   *)
(* whether that happened is chosen where the closure ends.                 *)
(***************************************************************************)
EXTENDS Naturals, FiniteSets

CONSTANTS Requests,      \* registration requests; a user's id is its request
          Fingerprints, Names, Invites,
          MaxUses,       \* invites.max_uses; 0 stands for NULL
          InviteOnly,    \* registration_mode of the configuration, read at boot
          MaxBoots,      \* bound: boots that print a setup token
          NoInvite, Free

ASSUME MaxUsesAssumption    == MaxUses \in [Invites -> Nat]
ASSUME InviteOnlyAssumption == InviteOnly \in BOOLEAN
ASSUME MaxBootsAssumption   == MaxBoots \in Nat \ {0}
ASSUME NoInviteAssumption   == NoInvite \notin Invites
ASSUME FreeAssumption       == Free \notin Requests

VARIABLES
  pc,        \* where each request is
  form,      \* what it sent; token 0 is no setup token, n the one of boot n
  owner,     \* its is_owner, the answer of verify_setup_token
  lock,      \* the request whose closure holds the database mutex, or Free
  boots,     \* how many setup tokens have been printed
  stored,    \* the token whose hash is in server_settings; 0 when there is none
  complete,  \* server_settings.setup_complete
  invites,   \* the state of each invite
  uses,      \* invites.use_count
  users, genesis, blobs, everyone, sessions,  \* the requests that wrote a row
  template   \* the starter categories and channels

settings == <<boots, stored, complete>>
rows == <<users, genesis, blobs, everyone, sessions, template>>
vars == <<pc, form, owner, lock, settings, invites, uses, rows>>

(* The places of the closure, in order.  The mutex is held at each of them   *)
(* and inside consume_setup_token.  A request is over when it was refused,   *)
(* failed, or has nobody left to answer.                                     *)
Closure == {"invited", "inserted", "recorded", "blobbed", "seeding", "seeded"}
Locked  == Closure \cup {"consuming"}
Over    == {"replied", "over"}
PC      == {"idle", "admitted", "returned"} \cup Locked \cup Over

Forms == [fp : Fingerprints, name : Names, invite : Invites \cup {NoInvite},
          token : 0..MaxBoots]

TypeOK ==
  /\ pc \in [Requests -> PC]
  /\ form \in [Requests -> Forms]
  /\ owner \in [Requests -> BOOLEAN]
  /\ lock \in Requests \cup {Free}
  /\ boots \in 0..MaxBoots
  /\ stored \in 0..MaxBoots
  /\ complete \in BOOLEAN
  /\ invites \in [Invites -> {"unborn", "open", "expired", "deleted"}]
  /\ uses \in [Invites -> Nat]
  /\ users \in SUBSET Requests
  /\ genesis \in SUBSET Requests
  /\ blobs \in SUBSET Requests
  /\ everyone \in SUBSET Requests
  /\ sessions \in SUBSET Requests
  /\ template \in {"none", "partial", "full"}

(* The first boot: no users, so maybe_generate_setup_token printed token 1.  *)
Init ==
  /\ pc = [r \in Requests |-> "idle"]
  /\ form \in [Requests -> {f \in Forms : f.token = 0 /\ f.invite = NoInvite}]
  /\ owner = [r \in Requests |-> FALSE]
  /\ lock = Free
  /\ boots = 1 /\ stored = 1 /\ complete = FALSE
  /\ invites = [i \in Invites |-> "unborn"]
  /\ uses = [i \in Invites |-> 0]
  /\ users = {} /\ genesis = {} /\ blobs = {} /\ everyone = {} /\ sessions = {}
  /\ template = "none"

-----------------------------------------------------------------------------
GoTo(r, place) == pc' = [pc EXCEPT ![r] = place]

(* A request with some invite and the token of some boot so far, or without: *)
(* verify_setup_token, under a lock of its own, and the invite-only rule.    *)
Verify(r) ==
  /\ pc[r] = "idle"
  /\ \E i \in Invites \cup {NoInvite}, t \in 0..boots :
       /\ t = 0 \/ lock = Free
       /\ form' = [form EXCEPT ![r].invite = i, ![r].token = t]
       /\ owner' = [owner EXCEPT ![r] = t # 0 /\ t = stored]
       /\ GoTo(r, IF InviteOnly /\ ~owner'[r] /\ i = NoInvite THEN "over" ELSE "admitted")
  /\ UNCHANGED <<lock, settings, invites, uses, rows>>

(* Altered: one use too many.                                                *)
UsableOnceMore(i) ==
  /\ invites[i] = "open"
  /\ MaxUses[i] = 0 \/ uses[i] <= MaxUses[i]

(* The WHERE clause of consume_invite.                                       *)
Usable(i) ==
  /\ invites[i] = "open"
  /\ MaxUses[i] = 0 \/ uses[i] < MaxUses[i]

(* The closure gets the mutex and counts a use of the invite, if there is    *)
(* one, before anything else is looked at.                                   *)
ConsumeInvite(r) ==
  /\ pc[r] = "admitted"
  /\ lock = Free
  /\ \/ /\ form[r].invite = NoInvite
        /\ GoTo(r, "invited")
        /\ lock' = r
        /\ UNCHANGED uses
     \/ /\ form[r].invite # NoInvite
        /\ Usable(form[r].invite)
        /\ uses' = [uses EXCEPT ![form[r].invite] = @ + 1]
        /\ GoTo(r, "invited")
        /\ lock' = r
     \/ /\ form[r].invite # NoInvite
        /\ ~Usable(form[r].invite)
        /\ GoTo(r, "over")
        /\ UNCHANGED <<uses, lock>>
  /\ UNCHANGED <<form, owner, settings, invites, rows>>

Taken(r) ==
  \E u \in users : form[u].fp = form[r].fp \/ form[u].name = form[r].name

(* The fingerprint and the name are looked up, then the user row inserted.   *)
InsertUser(r) ==
  /\ pc[r] = "invited"
  /\ IF Taken(r)
     THEN GoTo(r, "over") /\ lock' = Free /\ UNCHANGED users
     ELSE GoTo(r, "inserted") /\ users' = users \cup {r} /\ UNCHANGED lock
  /\ UNCHANGED <<form, owner, settings, invites, uses, genesis, blobs,
                 everyone, sessions, template>>

InsertGenesis(r) ==
  /\ pc[r] = "inserted"
  /\ GoTo(r, "recorded")
  /\ genesis' = genesis \cup {r}
  /\ UNCHANGED <<form, owner, lock, settings, invites, uses, users, blobs,
                 everyone, sessions, template>>

InsertBlob(r) ==
  /\ pc[r] = "recorded"
  /\ GoTo(r, "blobbed")
  /\ blobs' = blobs \cup {r}
  /\ UNCHANGED <<form, owner, lock, settings, invites, uses, users, genesis,
                 everyone, sessions, template>>

(* The default role, made if it is missing, is assigned.  seed_starter_template *)
(* follows for an owner and does nothing once a category exists.             *)
AssignEveryone(r) ==
  /\ pc[r] = "blobbed"
  /\ everyone' = everyone \cup {r}
  /\ IF owner[r] /\ template = "none"
     THEN GoTo(r, "seeding") /\ template' = "partial"
     ELSE GoTo(r, "seeded") /\ UNCHANGED template
  /\ UNCHANGED <<form, owner, lock, settings, invites, uses, users, genesis,
                 blobs, sessions>>

SeedRest(r) ==
  /\ pc[r] = "seeding"
  /\ GoTo(r, "seeded")
  /\ template' = "full"
  /\ UNCHANGED <<form, owner, lock, settings, invites, uses, users, genesis,
                 blobs, everyone, sessions>>

(* The refresh token is stored and the closure ends; a handler whose client  *)
(* hung up meanwhile was dropped and does not see its result.                *)
InsertSession(r) ==
  /\ pc[r] = "seeded"
  /\ sessions' = sessions \cup {r}
  /\ lock' = Free
  /\ \E place \in {"returned", "over"} : GoTo(r, place)
  /\ UNCHANGED <<form, owner, settings, invites, uses, users, genesis, blobs,
                 everyone, template>>

(* Altered: a failed statement ends the closure with success.                *)
FailureIgnored(r) ==
  /\ pc[r] \in Locked
  /\ GoTo(r, "returned")
  /\ lock' = Free
  /\ UNCHANGED <<form, owner, settings, invites, uses, rows>>

(* A statement fails: the handler answers 500, the rows that are already     *)
(* there stay.                                                               *)
StatementFails(r) ==
  /\ pc[r] \in Locked
  /\ GoTo(r, "over")
  /\ lock' = Free
  /\ UNCHANGED <<form, owner, settings, invites, uses, rows>>

(* Back in the handler: an owner's request removes the setup token, under a  *)
(* new lock, and then records that setup is complete.                        *)
ConsumeSetupToken(r) ==
  /\ pc[r] = "returned"
  /\ owner[r]
  /\ lock = Free
  /\ lock' = r
  /\ stored' = 0
  /\ GoTo(r, "consuming")
  /\ UNCHANGED <<form, owner, boots, complete, invites, uses, rows>>

(* The answer: the user's id and tokens.                                     *)
Reply(r) ==
  /\ \/ /\ pc[r] = "returned"
        /\ ~owner[r]
        /\ UNCHANGED <<lock, complete>>
     \/ /\ pc[r] = "consuming"
        /\ lock' = Free
        /\ complete' = TRUE
  /\ GoTo(r, "replied")
  /\ UNCHANGED <<form, owner, boots, stored, invites, uses, rows>>

(* Altered: every boot prints and stores a setup token.                      *)
RebootPrintsToken ==
  /\ pc' = [r \in Requests |-> IF pc[r] \in {"idle"} \cup Over THEN pc[r] ELSE "over"]
  /\ lock' = Free
  /\ boots < MaxBoots
  /\ boots' = boots + 1
  /\ stored' = boots'
  /\ UNCHANGED <<form, owner, complete, invites, uses, rows>>

(* The process dies and boots again.  A setup token is printed, and replaces *)
(* the stored one, if there are no users.                                    *)
Reboot ==
  /\ pc' = [r \in Requests |-> IF pc[r] \in {"idle"} \cup Over THEN pc[r] ELSE "over"]
  /\ lock' = Free
  /\ IF users = {}
     THEN /\ boots < MaxBoots
          /\ boots' = boots + 1
          /\ stored' = boots'
     ELSE UNCHANGED <<boots, stored>>
  /\ UNCHANGED <<form, owner, complete, invites, uses, rows>>

(* An administrator is needed, and the first one is an owner.                *)
CreateInvite(i) ==
  /\ lock = Free
  /\ invites[i] = "unborn"
  /\ \E u \in users : owner[u]
  /\ invites' = [invites EXCEPT ![i] = "open"]
  /\ UNCHANGED <<pc, form, owner, lock, settings, uses, rows>>

ExpireInvite(i) ==
  /\ invites[i] = "open"
  /\ invites' = [invites EXCEPT ![i] = "expired"]
  /\ UNCHANGED <<pc, form, owner, lock, settings, uses, rows>>

DeleteInvite(i) ==
  /\ lock = Free
  /\ invites[i] \in {"open", "expired"}
  /\ invites' = [invites EXCEPT ![i] = "deleted"]
  /\ UNCHANGED <<pc, form, owner, lock, settings, uses, rows>>

RequestStep(r) ==
  \/ Verify(r)
  \/ ConsumeInvite(r)
  \/ InsertUser(r)
  \/ InsertGenesis(r)
  \/ InsertBlob(r)
  \/ AssignEveryone(r)
  \/ SeedRest(r)
  \/ InsertSession(r)
  \/ StatementFails(r)
  \/ ConsumeSetupToken(r)
  \/ Reply(r)

Next ==
  \/ \E r \in Requests : RequestStep(r)
  \/ Reboot
  \/ \E i \in Invites : CreateInvite(i) \/ ExpireInvite(i) \/ DeleteInvite(i)

Spec == Init /\ [][Next]_vars

-----------------------------------------------------------------------------
Members(i) == {u \in users : form[u].invite = i}

(* An invite lets in no more members than its max_uses, whatever requests    *)
(* race, crash or are repeated: consume_invite counts before the user row is *)
(* inserted and under the same lock.                                         *)
InviteAdmitsItsUses ==
  \A i \in Invites : MaxUses[i] = 0 \/ Cardinality(Members(i)) <= MaxUses[i]

(* Whoever is told of success has every row registration writes; an owner    *)
(* also finds a starter category, and the setup token gone.                  *)
ReplyMeansComplete ==
  \A r \in Requests : pc[r] = "replied" =>
    /\ r \in users \cap genesis \cap blobs \cap everyone \cap sessions
    /\ owner[r] => stored = 0 /\ template # "none"

(* All owners there ever are presented the same setup token: a boot prints a *)
(* new one only while there are no users, and nothing that began before that *)
(* boot can still insert one.                                                *)
OwnersShareToken ==
  \A u, v \in users : owner[u] /\ owner[v] => form[u].token = form[v].token

(* Once setup is complete no request is ever again found to be an owner's:   *)
(* no boot stores another token.                                             *)
SetupNeverReopens ==
  [][complete => \A r \in Requests : owner'[r] => owner[r]]_vars

(* "The first identity to register with this token becomes the server OWNER" *)
(* (main.rs): there is one owner.  The token is checked before the closure   *)
(* and consumed after it, under other locks, so two requests may pass.       *)
AtMostOneOwner ==
  \A u, v \in users : owner[u] /\ owner[v] => u = v

(* "Insert user, genesis rotation record, and identity blob in a transaction" *)
(* (registration.rs): when no closure holds the database, a user has both.   *)
(* There is no BEGIN, so a crash or a failed statement splits them.          *)
RegistrationIsAtomic ==
  lock = Free => users = genesis /\ users = blobs
=============================================================================
