------------------------- MODULE Registration_proofs -------------------------
(***************************************************************************)
(* Proofs about the two ends of joining a server: how the server makes an   *)
(* identity a member (Registration), for any set of requests, any invites   *)
(* and limits and any number of boots, and the client's pages and calls     *)
(* that lead there (Onboarding), for any identities, servers and bounds.    *)
(***************************************************************************)
EXTENDS Registration, Onboarding, FiniteSetTheorems, TLAPS

USE MaxUsesAssumption, MaxBootsAssumption, NoInviteAssumption, FreeAssumption
    DEF Closure, Locked, Over, PC, GoTo, rows, settings

LEMMA TypeInit == Init => TypeOK
<1> SUFFICES ASSUME Init PROVE TypeOK
  OBVIOUS
<1>1. form \in [Requests -> Forms]
  BY DEF Init
<1>2. owner \in [Requests -> BOOLEAN] /\ pc \in [Requests -> PC]
  BY DEF Init
<1>3. boots \in 0..MaxBoots /\ stored \in 0..MaxBoots
  BY DEF Init
<1>4. uses \in [Invites -> Nat] /\ invites \in [Invites -> {"unborn", "open", "expired", "deleted"}]
  BY DEF Init
<1> QED
  BY <1>1, <1>2, <1>3, <1>4 DEF Init, TypeOK

LEMMA TypeStep == TypeOK /\ [Next]_vars => TypeOK'
<1> SUFFICES ASSUME TypeOK, [Next]_vars PROVE TypeOK'
  OBVIOUS
<1> USE DEF TypeOK
<1>1. ASSUME NEW r \in Requests, Verify(r) PROVE TypeOK'
  <2>1. PICK i \in Invites \cup {NoInvite}, t \in 0..boots :
          /\ form' = [form EXCEPT ![r].invite = i, ![r].token = t]
          /\ owner' = [owner EXCEPT ![r] = t # 0 /\ t = stored]
          /\ \E place \in PC : GoTo(r, place)
    BY <1>1 DEF Verify
  <2>2. t \in 0..MaxBoots /\ form[r] \in Forms
    OBVIOUS
  <2>3. [form[r] EXCEPT !.invite = i, !.token = t] \in Forms
    BY <2>2 DEF Forms
  <2>4. form' \in [Requests -> Forms]
    BY <2>1, <2>3
  <2>5. owner' \in [Requests -> BOOLEAN] /\ pc' \in [Requests -> PC]
    BY <2>1
  <2> QED
    BY <1>1, <2>4, <2>5 DEF Verify
<1>2. ASSUME NEW r \in Requests, ConsumeInvite(r) PROVE TypeOK'
  <2>1. form[r].invite \in Invites \cup {NoInvite}
    BY DEF Forms
  <2>2. uses' \in [Invites -> Nat]
    BY <1>2, <2>1 DEF ConsumeInvite
  <2>3. pc' \in [Requests -> PC] /\ lock' \in Requests \cup {Free}
    BY <1>2 DEF ConsumeInvite
  <2> QED
    BY <1>2, <2>2, <2>3 DEF ConsumeInvite
<1>3. ASSUME NEW r \in Requests, InsertUser(r) PROVE TypeOK'
  BY <1>3 DEF InsertUser
<1>4. ASSUME NEW r \in Requests, InsertGenesis(r) PROVE TypeOK'
  BY <1>4 DEF InsertGenesis
<1>5. ASSUME NEW r \in Requests, InsertBlob(r) PROVE TypeOK'
  BY <1>5 DEF InsertBlob
<1>6. ASSUME NEW r \in Requests, AssignEveryone(r) PROVE TypeOK'
  BY <1>6 DEF AssignEveryone
<1>7. ASSUME NEW r \in Requests, SeedRest(r) PROVE TypeOK'
  BY <1>7 DEF SeedRest
<1>8. ASSUME NEW r \in Requests, InsertSession(r) PROVE TypeOK'
  BY <1>8 DEF InsertSession
<1>9. ASSUME NEW r \in Requests, StatementFails(r) PROVE TypeOK'
  BY <1>9 DEF StatementFails
<1>10. ASSUME NEW r \in Requests, ConsumeSetupToken(r) PROVE TypeOK'
  BY <1>10 DEF ConsumeSetupToken
<1>11. ASSUME NEW r \in Requests, Reply(r) PROVE TypeOK'
  BY <1>11 DEF Reply
<1>12. CASE Reboot
  BY <1>12 DEF Reboot
<1>13. ASSUME NEW i \in Invites, CreateInvite(i) \/ ExpireInvite(i) \/ DeleteInvite(i)
       PROVE  TypeOK'
  BY <1>13 DEF CreateInvite, ExpireInvite, DeleteInvite
<1>14. CASE UNCHANGED vars
  BY <1>14 DEF vars
<1> QED
  BY <1>1, <1>2, <1>3, <1>4, <1>5, <1>6, <1>7, <1>8, <1>9, <1>10, <1>11,
     <1>12, <1>13, <1>14 DEF Next, RequestStep

(* The type invariant of registration.                                       *)
THEOREM TypeCorrect == Spec => []TypeOK
  BY TypeInit, TypeStep, PTL DEF Spec

-----------------------------------------------------------------------------
(* The mutex is held exactly by the request that is inside it.               *)
LockInv == \A r \in Requests : pc[r] \in Locked => lock = r

(* What a request has written by the time it is somewhere.                   *)
HasUser     == {"inserted", "recorded", "blobbed", "seeding", "seeded", "returned",
                "consuming", "replied"}
HasGenesis  == HasUser \ {"inserted"}
HasBlob     == HasGenesis \ {"recorded"}
HasEveryone == HasBlob \ {"blobbed"}
HasSession  == HasEveryone \ {"seeding", "seeded"}

RowInv ==
  \A r \in Requests :
    /\ pc[r] \in HasUser => r \in users
    /\ pc[r] \in HasGenesis => r \in genesis
    /\ pc[r] \in HasBlob => r \in blobs
    /\ pc[r] \in HasEveryone => r \in everyone
    /\ pc[r] \in HasEveryone /\ owner[r] => template # "none"
    /\ pc[r] \in HasSession => r \in sessions
    /\ pc[r] = "consuming" => owner[r]
    /\ pc[r] \in {"consuming", "replied"} /\ owner[r] => stored = 0
    /\ r \in users => pc[r] \notin {"idle", "admitted", "invited"}

(* Only the last token printed is ever stored, and only before setup is over; *)
(* who was found to be an owner and is still going, or has a row, sent it.    *)
TokenInv ==
  /\ stored \in {0, boots}
  /\ complete => stored = 0 /\ users # {}
  /\ \A r \in Requests :
       owner[r] /\ (pc[r] \in {"admitted", "invited"} \/ r \in users)
         => form[r].token = boots

RegInv == TypeOK /\ LockInv /\ RowInv /\ TokenInv

LEMMA RegInit == Init => LockInv /\ RowInv /\ TokenInv
  BY DEF Init, LockInv, RowInv, TokenInv, HasUser, HasGenesis, HasBlob, HasEveryone,
         HasSession

LEMMA RegStep == RegInv /\ TypeOK' /\ [Next]_vars => RegInv'
<1> SUFFICES ASSUME RegInv, TypeOK', [Next]_vars PROVE RegInv'
  OBVIOUS
<1> USE DEF RegInv, TypeOK, LockInv, RowInv, TokenInv, HasUser, HasGenesis, HasBlob,
            HasEveryone, HasSession
<1>1. ASSUME NEW r \in Requests, Verify(r) PROVE RegInv'
  <2>1. PICK i \in Invites \cup {NoInvite}, t \in 0..boots :
          /\ form' = [form EXCEPT ![r].invite = i, ![r].token = t]
          /\ owner' = [owner EXCEPT ![r] = t # 0 /\ t = stored]
          /\ pc' = [pc EXCEPT ![r] = IF InviteOnly /\ ~owner'[r] /\ i = NoInvite
                                      THEN "over" ELSE "admitted"]
    BY <1>1 DEF Verify
  <2>2. pc[r] = "idle" /\ r \notin users /\ UNCHANGED <<lock, settings, users, genesis, blobs,
                                                      everyone, sessions, template>>
    BY <1>1 DEF Verify
  <2>3. LockInv' /\ RowInv'
    BY <2>1, <2>2
  <2>4. form'[r].token = t /\ (owner'[r] => t = boots)
    <3>1. form[r] \in Forms /\ form'[r] = [form[r] EXCEPT !.invite = i, !.token = t]
      BY <2>1
    <3>2. form'[r].token = t
      BY <3>1 DEF Forms
    <3>3. owner'[r] = (t # 0 /\ t = stored)
      BY <2>1
    <3> QED
      BY <3>2, <3>3
  <2>5. \A s \in Requests \ {r} : form'[s] = form[s] /\ owner'[s] = owner[s] /\ pc'[s] = pc[s]
    BY <2>1
  <2>6. TokenInv'
    BY <2>2, <2>4, <2>5
  <2> QED
    BY <2>3, <2>6
<1>2. ASSUME NEW r \in Requests, ConsumeInvite(r) PROVE RegInv'
  BY <1>2 DEF ConsumeInvite
<1>3. ASSUME NEW r \in Requests, InsertUser(r) PROVE RegInv'
  BY <1>3 DEF InsertUser
<1>4. ASSUME NEW r \in Requests, InsertGenesis(r) PROVE RegInv'
  BY <1>4 DEF InsertGenesis
<1>5. ASSUME NEW r \in Requests, InsertBlob(r) PROVE RegInv'
  BY <1>5 DEF InsertBlob
<1>6. ASSUME NEW r \in Requests, AssignEveryone(r) PROVE RegInv'
  BY <1>6 DEF AssignEveryone
<1>7. ASSUME NEW r \in Requests, SeedRest(r) PROVE RegInv'
  BY <1>7 DEF SeedRest
<1>8. ASSUME NEW r \in Requests, InsertSession(r) PROVE RegInv'
  BY <1>8 DEF InsertSession
<1>9. ASSUME NEW r \in Requests, StatementFails(r) PROVE RegInv'
  BY <1>9 DEF StatementFails
<1>10. ASSUME NEW r \in Requests, ConsumeSetupToken(r) PROVE RegInv'
  BY <1>10 DEF ConsumeSetupToken
<1>11. ASSUME NEW r \in Requests, Reply(r) PROVE RegInv'
  BY <1>11 DEF Reply
<1>12. CASE Reboot
  BY <1>12 DEF Reboot
<1>13. ASSUME NEW i \in Invites, CreateInvite(i) \/ ExpireInvite(i) \/ DeleteInvite(i)
       PROVE  RegInv'
  BY <1>13 DEF CreateInvite, ExpireInvite, DeleteInvite
<1>14. CASE UNCHANGED vars
  BY <1>14 DEF vars
<1> QED
  BY <1>1, <1>2, <1>3, <1>4, <1>5, <1>6, <1>7, <1>8, <1>9, <1>10, <1>11,
     <1>12, <1>13, <1>14 DEF Next, RequestStep

(* Every owner there ever is presented one and the same setup token: no boot  *)
(* between two registrations can make a second one count.                     *)
THEOREM OneToken == Spec => []OwnersShareToken
<1>1. RegInv => OwnersShareToken
  BY DEF RegInv, TypeOK, TokenInv, OwnersShareToken
<1>2. Init => RegInv
  BY TypeInit, RegInit DEF RegInv
<1> QED
  BY <1>1, <1>2, TypeStep, RegStep, PTL DEF Spec, RegInv

(* A success that is reported is a whole one: all rows of the user, and for   *)
(* an owner a template and no setup token, whatever crashed or failed.        *)
THEOREM RepliesAreComplete == Spec => []ReplyMeansComplete
<1>1. RegInv => ReplyMeansComplete
  BY DEF RegInv, RowInv, ReplyMeansComplete, HasUser, HasGenesis, HasBlob,
         HasEveryone, HasSession
<1>2. Init => RegInv
  BY TypeInit, RegInit DEF RegInv
<1> QED
  BY <1>1, <1>2, TypeStep, RegStep, PTL DEF Spec, RegInv

(* After setup is complete no request becomes an owner's, through any number  *)
(* of boots.                                                                  *)
THEOREM SetupStaysShut == Spec => SetupNeverReopens
<1>1. RegInv /\ [Next]_vars
        => [complete => \A r \in Requests : owner'[r] => owner[r]]_vars
  <2> SUFFICES ASSUME RegInv, Next, complete, NEW r \in Requests, owner'[r]
               PROVE  owner[r]
    OBVIOUS
  <2>1. ASSUME NEW s \in Requests, Verify(s) PROVE owner[r]
    <3>1. stored = 0
      BY DEF RegInv, TokenInv
    <3>2. owner' = [owner EXCEPT ![s] = FALSE]
      BY <2>1, <3>1 DEF Verify
    <3> QED
      BY <3>2 DEF RegInv, TypeOK
  <2>2. ASSUME NEW s \in Requests, ~ Verify(s), RequestStep(s) PROVE owner[r]
    BY <2>2 DEF RequestStep, ConsumeInvite, InsertUser, InsertGenesis, InsertBlob,
       AssignEveryone, SeedRest, InsertSession, StatementFails, ConsumeSetupToken,
       Reply
  <2>3. ASSUME ~ \E s \in Requests : RequestStep(s) PROVE owner[r]
    BY <2>3 DEF Next, Reboot, CreateInvite, ExpireInvite, DeleteInvite
  <2> QED
    BY <2>1, <2>2, <2>3
<1>2. Init => RegInv
  BY TypeInit, RegInit DEF RegInv
<1> QED
  BY <1>1, <1>2, TypeStep, RegStep, PTL DEF Spec, RegInv, SetupNeverReopens

-----------------------------------------------------------------------------
(* The use of i that has been counted for a request still to insert its user. *)
Pending(i) ==
  IF \E r \in Requests : pc[r] = "invited" /\ form[r].invite = i THEN 1 ELSE 0

(* Each invite has been counted for every member it let in, and for the one  *)
(* request that may be about to become a member; it is never counted beyond  *)
(* its limit.                                                                *)
InviteInv ==
  /\ IsFiniteSet(users)
  /\ \A i \in Invites :
       /\ Cardinality(Members(i)) + Pending(i) <= uses[i]
       /\ MaxUses[i] = 0 \/ uses[i] <= MaxUses[i]

LEMMA MembersAreFinite ==
  ASSUME IsFiniteSet(users), NEW i
  PROVE  IsFiniteSet(Members(i)) /\ Cardinality(Members(i)) \in Nat
  BY FS_Subset, FS_CardinalityType DEF Members

(* A step that leaves users, and what its members sent, alone, and lets no    *)
(* more requests be pending than it counts, keeps InviteInv.                  *)
LEMMA QuietStep ==
  ASSUME RegInv, InviteInv, RegInv', users' = users,
         \A u \in users : form'[u] = form[u], uses' = uses,
         \A r \in Requests : pc'[r] = "invited" => pc[r] = "invited" /\ form'[r] = form[r]
  PROVE  InviteInv'
<1>1. \A i \in Invites : Members(i)' = Members(i)
  BY DEF Members
<1>2. \A i \in Invites : Pending(i)' <= Pending(i)
  BY DEF Pending
<1>3. \A i \in Invites : Pending(i) \in {0, 1} /\ Pending(i)' \in {0, 1}
  BY DEF Pending
<1>4. \A i \in Invites : Cardinality(Members(i)) \in Nat
  BY MembersAreFinite DEF InviteInv
<1> QED
  BY <1>1, <1>2, <1>3, <1>4 DEF InviteInv, RegInv, TypeOK

LEMMA InviteStep == RegInv /\ InviteInv /\ RegInv' /\ [Next]_vars => InviteInv'
<1> SUFFICES ASSUME RegInv, InviteInv, RegInv', [Next]_vars PROVE InviteInv'
  OBVIOUS
<1>1. ASSUME NEW r \in Requests, Verify(r) PROVE InviteInv'
  <2>1. r \notin users /\ users' = users /\ uses' = uses
    BY <1>1 DEF Verify, RegInv, RowInv
  <2>2. \A u \in users : form'[u] = form[u]
    BY <1>1, <2>1 DEF Verify, RegInv, TypeOK
  <2>3. \A s \in Requests : pc'[s] = "invited" => pc[s] = "invited" /\ form'[s] = form[s]
    BY <1>1 DEF Verify, RegInv, TypeOK
  <2> QED
    BY <2>1, <2>2, <2>3, QuietStep
<1>2. ASSUME NEW r \in Requests, ConsumeInvite(r) PROVE InviteInv'
  <2> USE DEF RegInv, TypeOK
  <2>1. \A i \in Invites : Members(i)' = Members(i)
    BY <1>2 DEF ConsumeInvite, Members
  <2>2. \A i \in Invites : Cardinality(Members(i)) \in Nat
    BY MembersAreFinite DEF InviteInv
  <2>3. \A i \in Invites : Pending(i) = 0
    BY <1>2 DEF ConsumeInvite, Pending, LockInv
  <2>4. CASE pc'[r] # "invited"
    BY <1>2, <2>4, QuietStep DEF ConsumeInvite
  <2>5. CASE form[r].invite = NoInvite
    <3>1. \A i \in Invites : Pending(i)' = 0
      BY <1>2, <2>3, <2>5 DEF ConsumeInvite, Pending
    <3> QED
      BY <1>2, <2>1, <2>2, <2>3, <2>5, <3>1 DEF ConsumeInvite, InviteInv
  <2>6. CASE form[r].invite # NoInvite /\ pc'[r] = "invited"
    <3>1. PICK j \in Invites :
            j = form[r].invite /\ Usable(j) /\ uses' = [uses EXCEPT ![j] = @ + 1]
      BY <1>2, <2>6 DEF ConsumeInvite, Forms
    <3>2. \A i \in Invites \ {j} : Pending(i)' = 0
      BY <1>2, <2>3, <3>1 DEF ConsumeInvite, Pending
    <3>3. Pending(j)' \in {0, 1}
      BY DEF Pending
    <3>4. MaxUses[j] = 0 \/ uses'[j] <= MaxUses[j]
      BY <3>1 DEF Usable
    <3>5. users' = users
      BY <1>2 DEF ConsumeInvite
    <3>6. ASSUME NEW i \in Invites
          PROVE  Cardinality(Members(i)') + Pending(i)' <= uses'[i]
      <4>1. Cardinality(Members(i)) + Pending(i) <= uses[i]
        BY DEF InviteInv
      <4>2. Cardinality(Members(i)') = Cardinality(Members(i))
        BY <2>1
      <4>3. Cardinality(Members(i)) \in Nat /\ Pending(i) = 0 /\ uses[i] \in Nat
        BY <2>2, <2>3
      <4>4. CASE i = j
        <5>1. uses'[i] = uses[i] + 1
          BY <3>1, <4>4
        <5> QED
          BY <4>1, <4>2, <4>3, <5>1, <3>3, <4>4
      <4>5. CASE i # j
        BY <4>1, <4>2, <4>3, <4>5, <3>1, <3>2
      <4> QED
        BY <4>4, <4>5
    <3>7. ASSUME NEW i \in Invites
          PROVE  MaxUses[i] = 0 \/ uses'[i] <= MaxUses[i]
      BY <3>1, <3>4 DEF InviteInv
    <3> QED
      BY <3>5, <3>6, <3>7 DEF InviteInv
  <2> QED
    BY <2>4, <2>5, <2>6
<1>3. ASSUME NEW r \in Requests, InsertUser(r) PROVE InviteInv'
  <2> USE DEF RegInv, TypeOK
  <2>1. CASE users' = users
    BY <1>3, <2>1, QuietStep DEF InsertUser
  <2>2. CASE users' = users \cup {r} /\ r \notin users
    <3>1. \A i \in Invites :
            Members(i)' = IF form[r].invite = i THEN Members(i) \cup {r} ELSE Members(i)
      BY <1>3, <2>2 DEF InsertUser, Members
    <3>2. \A i \in Invites : IsFiniteSet(Members(i)) /\ Cardinality(Members(i)) \in Nat
      BY MembersAreFinite DEF InviteInv
    <3>3. \A i \in Invites : r \notin Members(i)
      BY <2>2 DEF Members
    <3>4. \A i \in Invites :
            Cardinality(Members(i) \cup {r}) = Cardinality(Members(i)) + 1
      BY <3>2, <3>3, FS_AddElement
    <3>5. \A i \in Invites : Pending(i)' = 0 /\ Pending(i) \in {0, 1}
      BY <1>3 DEF InsertUser, Pending, LockInv
    <3>6. \A i \in Invites : form[r].invite = i => Pending(i) = 1
      BY <1>3 DEF InsertUser, Pending
    <3>7. IsFiniteSet(users')
      BY <2>2, FS_AddElement DEF InviteInv
    <3>8. uses' = uses
      BY <1>3 DEF InsertUser
    <3>9. ASSUME NEW i \in Invites
          PROVE  Cardinality(Members(i))' + Pending(i)' <= uses'[i]
      <4>1. CASE form[r].invite = i
        BY <4>1, <3>1, <3>2, <3>4, <3>5, <3>6, <3>8 DEF InviteInv
      <4>2. CASE form[r].invite # i
        BY <4>2, <3>1, <3>2, <3>5, <3>8 DEF InviteInv
      <4> QED
        BY <4>1, <4>2
    <3> QED
      BY <3>7, <3>8, <3>9 DEF InviteInv
  <2>3. (users' = users) \/ (users' = users \cup {r} /\ r \notin users)
    BY <1>3 DEF InsertUser, Taken
  <2> QED
    BY <2>1, <2>2, <2>3
<1>4. ASSUME NEW r \in Requests,
             \/ InsertGenesis(r) \/ InsertBlob(r) \/ AssignEveryone(r) \/ SeedRest(r)
             \/ InsertSession(r) \/ StatementFails(r) \/ ConsumeSetupToken(r)
             \/ Reply(r)
      PROVE  InviteInv'
  <2>1. users' = users /\ form' = form /\ uses' = uses
    BY <1>4 DEF InsertGenesis, InsertBlob, AssignEveryone, SeedRest, InsertSession,
       StatementFails, ConsumeSetupToken, Reply
  <2>2. \A s \in Requests : pc'[s] = "invited" => pc[s] = "invited"
    BY <1>4 DEF InsertGenesis, InsertBlob, AssignEveryone, SeedRest, InsertSession,
       StatementFails, ConsumeSetupToken, Reply, RegInv, TypeOK
  <2> QED
    BY <2>1, <2>2, QuietStep
<1>5. CASE Reboot
  BY <1>5, QuietStep DEF Reboot, RegInv, TypeOK
<1>6. CASE UNCHANGED vars
  BY <1>6, QuietStep DEF vars
<1>7. ASSUME NEW i \in Invites, CreateInvite(i) \/ ExpireInvite(i) \/ DeleteInvite(i)
      PROVE  InviteInv'
  BY <1>7, QuietStep DEF CreateInvite, ExpireInvite, DeleteInvite
<1> QED
  BY <1>1, <1>2, <1>3, <1>4, <1>5, <1>6, <1>7 DEF Next, RequestStep

(* No invite lets in more members than its max_uses, for any number of        *)
(* requests in any interleaving, with crashes and failures between any two    *)
(* statements.                                                                *)
THEOREM InvitesAreNotOverused == Spec => []InviteAdmitsItsUses
<1>1. Init => RegInv
  BY TypeInit, RegInit DEF RegInv
<1>2. Init => InviteInv
  <2> SUFFICES ASSUME Init PROVE InviteInv
    OBVIOUS
  <2>1. \A i \in Invites : Members(i) = {} /\ Pending(i) = 0
    BY DEF Init, Members, Pending
  <2>2. Cardinality({}) = 0 /\ IsFiniteSet({})
    BY FS_EmptySet
  <2>3. \A i \in Invites : Cardinality(Members(i)) = 0
    BY <2>1, <2>2
  <2>4. \A i \in Invites : uses[i] = 0 /\ MaxUses[i] \in Nat
    BY DEF Init
  <2>5. IsFiniteSet(users)
    BY <2>2 DEF Init
  <2> QED
    BY <2>1, <2>3, <2>4, <2>5 DEF InviteInv
<1>3. RegInv /\ InviteInv => InviteAdmitsItsUses
  <2> SUFFICES ASSUME RegInv, InviteInv, NEW i \in Invites, MaxUses[i] # 0
               PROVE  Cardinality(Members(i)) <= MaxUses[i]
    BY DEF InviteAdmitsItsUses
  <2>1. Cardinality(Members(i)) \in Nat /\ Pending(i) \in {0, 1}
    BY MembersAreFinite DEF InviteInv, Pending
  <2> QED
    BY <2>1 DEF InviteInv, RegInv, TypeOK
<1> QED
  BY <1>1, <1>2, <1>3, TypeStep, RegStep, InviteStep, PTL DEF Spec, RegInv

------------------------------------------------------------------------------
(* Onboarding, the client's end of it.                                      *)

USE RememberedAssumption, NoneAssumption

(* A message that brings an identity to the store.                          *)
IsAnswer(m) == m.kind \in {"created", "recovered", "unlocked", "joinUnlocked"}

(* Calls and messages.  A call to a server has one, a registration a key to *)
(* register, and a server that answered it, which the next call is for.     *)
CallFine(c) ==
  /\ c.kind = "register" => c.id \in Ids
  /\ c.kind # "receive" => c.server \in Servers
CallsFine(cs) == cs \in Seq(Calls) /\ \A k \in 1..Len(cs) : CallFine(cs[k])
MailFine(ms) ==
  ms \in Seq(Mail) /\ \A k \in 1..Len(ms) : ms[k].kind = "registered" => ms[k].server \in Servers

MainFine ==
  /\ disk \in Ids \cup {None} /\ session \in Ids \cup {None}
  /\ current \in Servers \cup {None} /\ active \in Servers \cup {None}
  /\ apart \subseteq {"session", "disk"}
  /\ serverRows \in [Servers -> Accounts \cup {None, NoRow}]
  /\ accounts \in [Servers -> SUBSET Ids]
HistoryFine == stack \in Seq(Pages) /\ Len(stack) \in 1..Remembered
StoreFine   == has \in BOOLEAN /\ shown \in Ids \cup {None}
PageFine    == words \in Ids \cup {None} /\ join \in [step : Steps, busy : BOOLEAN]
AllFine == MainFine /\ HistoryFine /\ StoreFine /\ PageFine /\ CallsFine(calls) /\ MailFine(mail)

LEMMA KeptMail ==
  ASSUME NEW p, NEW s \in Seq(Mail)
  PROVE  /\ Kept(p, s) \in Seq(Mail) /\ Len(Kept(p, s)) = Len(s)
         /\ \A k \in 1..Len(s) : /\ Kept(p, s)[k].kind = s[k].kind
                                 /\ Kept(p, s)[k].id = s[k].id
                                 /\ Kept(p, s)[k].server = s[k].server
         /\ p = Page => Kept(p, s) = s
         /\ p # Page => \A k \in 1..Len(s) : ~Kept(p, s)[k].live
<1> DEFINE dead == [k \in 1..Len(s) |-> [s[k] EXCEPT !.live = FALSE]]
<1>0. \A m \in Mail : LET d == [m EXCEPT !.live = FALSE]
                      IN  /\ d \in Mail /\ d.kind = m.kind /\ d.id = m.id
                          /\ d.server = m.server /\ ~d.live
  BY DEF Mail
<1>1. \A k \in 1..Len(s) :
        /\ dead[k] \in Mail /\ dead[k].kind = s[k].kind /\ dead[k].id = s[k].id
        /\ dead[k].server = s[k].server /\ ~dead[k].live
  <2> TAKE k \in 1..Len(s)
  <2>1. s[k] \in Mail /\ dead[k] = [s[k] EXCEPT !.live = FALSE]
    OBVIOUS
  <2> QED
    BY <1>0, <2>1
<1>2. dead \in Seq(Mail) /\ Len(dead) = Len(s)
  BY <1>1
<1>3. CASE p = Page
  BY <1>3 DEF Kept
<1>4. CASE p # Page
  <2>1. Kept(p, s) = dead
    BY <1>4 DEF Kept
  <2> QED
    BY <1>1, <1>2, <1>4, <2>1
<1> QED
  BY <1>3, <1>4

LEMMA KeptCalls ==
  ASSUME NEW p, NEW s \in Seq(Calls)
  PROVE  /\ Kept(p, s) \in Seq(Calls) /\ Len(Kept(p, s)) = Len(s)
         /\ \A k \in 1..Len(s) : /\ Kept(p, s)[k].kind = s[k].kind
                                 /\ Kept(p, s)[k].id = s[k].id
                                 /\ Kept(p, s)[k].server = s[k].server
         /\ p = Page => Kept(p, s) = s
<1> DEFINE dead == [k \in 1..Len(s) |-> [s[k] EXCEPT !.live = FALSE]]
<1>0. \A c \in Calls : LET d == [c EXCEPT !.live = FALSE]
                       IN  /\ d \in Calls /\ d.kind = c.kind /\ d.id = c.id
                           /\ d.server = c.server
  BY DEF Calls
<1>1. \A k \in 1..Len(s) :
        /\ dead[k] \in Calls /\ dead[k].kind = s[k].kind /\ dead[k].id = s[k].id
        /\ dead[k].server = s[k].server
  <2> TAKE k \in 1..Len(s)
  <2>1. s[k] \in Calls /\ dead[k] = [s[k] EXCEPT !.live = FALSE]
    OBVIOUS
  <2> QED
    BY <1>0, <2>1
<1>2. dead \in Seq(Calls) /\ Len(dead) = Len(s)
  BY <1>1
<1>3. CASE p = Page
  BY <1>3 DEF Kept
<1>4. CASE p # Page
  <2>1. Kept(p, s) = dead
    BY <1>4 DEF Kept
  <2> QED
    BY <1>1, <1>2, <1>4, <2>1
<1> QED
  BY <1>3, <1>4

(* One call is answered and the others move up.                             *)
LEMMA OthersStay ==
  ASSUME NEW s \in Seq(Calls), NEW k \in 1..Len(s)
  PROVE  /\ Without(s, k) \in Seq(Calls) /\ Len(Without(s, k)) = Len(s) - 1
         /\ \A i \in 1..(Len(s) - 1) : Without(s, k)[i] = IF i < k THEN s[i] ELSE s[i + 1]
<1> DEFINE a == SubSeq(s, 1, k - 1)
           b == SubSeq(s, k + 1, Len(s))
<1>0. Len(s) \in Nat /\ k \in 1..Len(s)
  OBVIOUS
<1>1. a \in Seq(Calls) /\ b \in Seq(Calls)
  OBVIOUS
<1>2. Len(a) = k - 1 /\ \A i \in 1..(k - 1) : a[i] = s[i]
  OBVIOUS
<1>3. Len(b) = Len(s) - k /\ \A i \in 1..(Len(s) - k) : b[i] = s[k + i]
  OBVIOUS
<1>4. Without(s, k) = a \o b
  BY DEF Without
<1> HIDE DEF a, b
<1>5. a \o b \in Seq(Calls) /\ Len(a \o b) = Len(a) + Len(b)
  BY <1>1
<1>6. Len(a \o b) = Len(s) - 1
  BY <1>0, <1>2, <1>3, <1>5
<1>7. \A i \in 1..(Len(a) + Len(b)) :
        (a \o b)[i] = IF i <= Len(a) THEN a[i] ELSE b[i - Len(a)]
  BY <1>1
<1>8. ASSUME NEW i \in 1..(Len(s) - 1), i < k
      PROVE  (a \o b)[i] = s[i]
  BY <1>0, <1>2, <1>3, <1>7, <1>8
<1>9. ASSUME NEW i \in 1..(Len(s) - 1), ~(i < k)
      PROVE  (a \o b)[i] = s[i + 1]
  <2> DEFINE j == i - (k - 1)
  <2>1. j \in 1..(Len(s) - k) /\ k + j = i + 1
    BY <1>0, <1>9
  <2>2. b[j] = s[i + 1]
    BY <1>3, <2>1
  <2>3. i \in 1..(Len(a) + Len(b)) /\ ~(i <= Len(a)) /\ i - Len(a) = j
    BY <1>0, <1>2, <1>3, <1>9
  <2> QED
    BY <1>7, <2>2, <2>3
<1> QED
  BY <1>4, <1>5, <1>6, <1>8, <1>9

(* The page a step leads to.                                                *)
LEMMA PushedPage ==
  ASSUME stack \in Seq(Pages), Len(stack) \in 1..Remembered, NEW p \in Pages
  PROVE  /\ Pushed(p) \in Seq(Pages) /\ Len(Pushed(p)) \in 1..Remembered
         /\ Pushed(p)[Len(Pushed(p))] = p
<1> DEFINE s == Append(stack, p)
<1>1. s \in Seq(Pages) /\ Len(s) = Len(stack) + 1 /\ s[Len(s)] = p
  OBVIOUS
<1> HIDE DEF s
<1>2. Tail(s) \in Seq(Pages) /\ Len(Tail(s)) = Len(s) - 1 /\ Tail(s)[Len(s) - 1] = s[Len(s)]
  BY <1>1
<1> QED
  BY <1>1, <1>2 DEF Pushed, s

LEMMA FineIsTyped == AllFine => OnboardingTypeOK
  BY DEF AllFine, MainFine, HistoryFine, StoreFine, PageFine, CallsFine, CallFine, MailFine,
         OnboardingTypeOK

LEMMA MailGrows ==
  ASSUME NEW ms, MailFine(ms), NEW m \in Mail, m.kind # "registered" \/ m.server \in Servers
  PROVE  MailFine(Append(ms, m))
<1>1. ms \in Seq(Mail) /\ Append(ms, m) \in Seq(Mail) /\ Len(Append(ms, m)) = Len(ms) + 1
  BY DEF MailFine
<1>2. \A k \in 1..(Len(ms) + 1) : Append(ms, m)[k] = IF k <= Len(ms) THEN ms[k] ELSE m
  BY <1>1
<1> QED
  BY <1>1, <1>2 DEF MailFine

LEMMA CallsGrow ==
  ASSUME NEW cs, CallsFine(cs), NEW c \in Calls, CallFine(c)
  PROVE  CallsFine(Append(cs, c))
<1>1. cs \in Seq(Calls) /\ Append(cs, c) \in Seq(Calls) /\ Len(Append(cs, c)) = Len(cs) + 1
  BY DEF CallsFine
<1>2. \A k \in 1..(Len(cs) + 1) : Append(cs, c)[k] = IF k <= Len(cs) THEN cs[k] ELSE c
  BY <1>1
<1> QED
  BY <1>1, <1>2 DEF CallsFine

(* The renderer takes the first message.                                    *)
LEMMA MailTaken ==
  ASSUME MailFine(mail), mail # <<>>
  PROVE  /\ Head(mail) = mail[1] /\ mail[1] \in Mail /\ MailFine(Tail(mail))
         /\ mail[1].kind = "registered" => mail[1].server \in Servers
         /\ Len(mail) \in Nat \ {0} /\ Len(Tail(mail)) = Len(mail) - 1
         /\ \A k \in 1..(Len(mail) - 1) : Tail(mail)[k] = mail[k + 1]
<1>1. mail \in Seq(Mail) /\ Len(mail) \in Nat \ {0}
  BY DEF MailFine
<1>2. Head(mail) = mail[1] /\ mail[1] \in Mail
  BY <1>1
<1>3. Tail(mail) \in Seq(Mail) /\ Len(Tail(mail)) = Len(mail) - 1
  BY <1>1
<1>4. \A k \in 1..(Len(mail) - 1) : Tail(mail)[k] = mail[k + 1]
  BY <1>1
<1> QED
  BY <1>1, <1>2, <1>3, <1>4 DEF MailFine

LEMMA CallAnswered ==
  ASSUME CallsFine(calls), MailFine(mail), NEW k \in DOMAIN calls
  PROVE  /\ k \in 1..Len(calls) /\ calls[k] \in Calls /\ CallFine(calls[k])
         /\ CallsFine(Without(calls, k)) /\ Len(Without(calls, k)) = Len(calls) - 1
         /\ calls[k].kind # "receive" =>
              \A kind \in {"connected", "registered", "channels", "failed"} :
                MailFine(Append(mail, [calls[k] EXCEPT !.kind = kind]))
<1>1. calls \in Seq(Calls) /\ k \in 1..Len(calls) /\ calls[k] \in Calls /\ CallFine(calls[k])
  BY DEF CallsFine
<1>2. CallsFine(Without(calls, k)) /\ Len(Without(calls, k)) = Len(calls) - 1
  <2> DEFINE w == Without(calls, k)
  <2>1. /\ w \in Seq(Calls) /\ Len(w) = Len(calls) - 1
        /\ \A i \in 1..(Len(calls) - 1) : w[i] = IF i < k THEN calls[i] ELSE calls[i + 1]
    <3>1. calls \in Seq(Calls) /\ k \in 1..Len(calls)
      BY <1>1
    <3> QED
      BY <3>1, OthersStay
  <2>2. Len(calls) \in Nat
    BY <1>1
  <2> HIDE DEF w
  <2>3. \A i \in 1..Len(w) : CallFine(w[i])
    BY <2>1, <2>2 DEF CallsFine
  <2>4. CallsFine(w)
    BY <2>1, <2>3 DEF CallsFine
  <2> QED
    BY <2>1, <2>4 DEF w
<1>3. \A c \in Calls, kind \in {"connected", "registered", "channels", "failed"} :
        [c EXCEPT !.kind = kind] \in Mail /\ [c EXCEPT !.kind = kind].server = c.server
  BY DEF Calls, Mail
<1>4. calls[k].kind # "receive" => calls[k].server \in Servers
  BY <1>1 DEF CallFine
<1> QED
  BY <1>1, <1>2, <1>3, <1>4, MailGrows

LEMMA CallsKept ==
  ASSUME NEW p, NEW cs, CallsFine(cs) PROVE CallsFine(Kept(p, cs))
  BY KeptCalls DEF CallsFine, CallFine

LEMMA MailKept ==
  ASSUME NEW p, NEW ms, MailFine(ms) PROVE MailFine(Kept(p, ms))
<1>1. ms \in Seq(Mail)
  BY DEF MailFine
<1> DEFINE kept == Kept(p, ms)
<1>2. kept \in Seq(Mail) /\ Len(kept) = Len(ms)
  BY <1>1, KeptMail
<1>3. \A k \in 1..Len(ms) : kept[k].kind = ms[k].kind /\ kept[k].server = ms[k].server
  BY <1>1, KeptMail
<1> HIDE DEF kept
<1>4. MailFine(kept)
  BY <1>2, <1>3 DEF MailFine
<1> QED
  BY <1>4 DEF kept

LEMMA ShownFine ==
  ASSUME PageFine, CallsFine(calls), NEW p, NEW ms, MailFine(ms), Show(p, calls, ms, words, join)
  PROVE  PageFine' /\ CallsFine(calls)' /\ MailFine(mail)'
<1>1. calls' = Kept(p, calls) /\ mail' = Kept(p, ms)
  BY DEF Show
<1>2. CallsFine(calls)'
  BY <1>1, CallsKept
<1>3. MailFine(mail)'
  BY <1>1, MailKept
<1>4. words' \in {words, None} /\ join' \in {join, Blank} /\ Blank \in [step : Steps, busy : BOOLEAN]
  BY DEF Show, Blank, Steps
<1> QED
  BY <1>2, <1>3, <1>4 DEF PageFine

LEMMA NavigationFine ==
  ASSUME HistoryFine, PageFine, CallsFine(calls), NEW p \in Pages, NEW ms, MailFine(ms),
         NavigateTo(p, ms)
  PROVE  HistoryFine' /\ PageFine' /\ CallsFine(calls)' /\ MailFine(mail)'
  BY ShownFine, PushedPage DEF NavigateTo, HistoryFine

LEMMA OnboardingTypeInit == OnboardingInit => AllFine
<1> SUFFICES ASSUME OnboardingInit PROVE AllFine
  OBVIOUS
<1> USE DEF OnboardingInit
<1>1. MainFine
  BY DEF MainFine
<1>2. HistoryFine
  BY DEF HistoryFine, Pages
<1>3. StoreFine /\ PageFine
  BY DEF StoreFine, PageFine, Blank, Steps
<1>4. CallsFine(calls) /\ MailFine(mail)
  BY DEF CallsFine, MailFine
<1> QED
  BY <1>1, <1>2, <1>3, <1>4 DEF AllFine

LEMMA UserStepFine == AllFine /\ UserStep => AllFine'
<1> SUFFICES ASSUME AllFine, UserStep PROVE AllFine'
  OBVIOUS
<1> USE DEF AllFine
<1>1. CASE Follow
  <2>1. PICK p \in Pages : NavigateTo(p, mail)
    BY <1>1 DEF Follow, Pages
  <2> QED
    BY <1>1, <2>1, NavigationFine DEF Follow, MainFine, StoreFine, main, server, store
<1>2. CASE Back
  <2>1. /\ stack' \in Seq(Pages) /\ Len(stack') \in 1..Remembered
    BY <1>2 DEF Back, HistoryFine
  <2>2. PageFine' /\ CallsFine(calls)' /\ MailFine(mail)'
    BY <1>2, ShownFine DEF Back
  <2> QED
    BY <1>2, <2>1, <2>2 DEF Back, HistoryFine, MainFine, StoreFine, main, server, store
<1>3. CASE Choose
  <2>1. PageFine'
    BY <1>3 DEF Choose, PageFine, Steps
  <2> QED
    BY <1>3, <2>1
       DEF Choose, MainFine, HistoryFine, StoreFine, CallsFine, MailFine, main, server, store
<1>4. ASSUME NEW kind \in {"created", "recovered", "unlocked", "joinUnlocked"}, NEW i \in Ids,
             Ask(kind, i), disk' = i, session' = i, apart' = {},
             UNCHANGED <<current, server, stack, store, local, calls>>
      PROVE  AllFine'
  <2>1. Call(kind, i, None, FALSE) \in Mail /\ Call(kind, i, None, FALSE).kind # "registered"
    BY <1>4 DEF Call, Mail
  <2>2. MailFine(mail)'
    BY <1>4, <2>1, MailGrows DEF Ask
  <2> QED
    BY <1>4, <2>2
       DEF MainFine, HistoryFine, StoreFine, PageFine, CallsFine, server, store, local
<1>5. CASE \E i \in Ids : SubmitCreate(i) \/ SubmitRecover(i)
  <2>1. PICK i \in Ids : /\ Saved(i, "created") \/ Saved(i, "recovered") \/ NotSaved(i)
                         /\ UNCHANGED <<current, server, stack, store, local, calls>>
    BY <1>5 DEF SubmitCreate, SubmitRecover
  <2>2. CASE NotSaved(i)
    BY <2>1, <2>2 DEF NotSaved, MainFine, HistoryFine, StoreFine, PageFine, CallsFine, MailFine,
                      server, store, local
  <2> QED
    BY <1>4, <2>1, <2>2 DEF Saved
<1>6. CASE Unlock
  BY <1>4, <1>6 DEF Unlock, MainFine
<1>6a. CASE AskDevice
  <2> DEFINE c == Call("receive", None, None, FALSE)
  <2>1. c \in Calls /\ CallFine(c)
    BY DEF Call, Calls, CallFine
  <2>2. calls' = Append(calls, c) /\ UNCHANGED <<main, server, stack, store, local, mail>>
    BY <1>6a DEF AskDevice
  <2> HIDE DEF c
  <2>3. CallsFine(calls)'
    BY <2>1, <2>2, CallsGrow DEF CallsFine
  <2> QED
    BY <2>2, <2>3 DEF MainFine, HistoryFine, StoreFine, PageFine, MailFine, main, server, store,
                      local
<1>7. CASE Register
  <2>1. PageFine'
    BY <1>7 DEF Register, PageFine
  <2>2. CASE current # None /\ session # None /\ disk # None
    <3> DEFINE c == Call("register", session, current, FALSE)
    <3>1. c \in Calls /\ CallFine(c) /\ calls' = Append(calls, c) /\ mail' = mail
      BY <1>7, <2>2 DEF Call, CallFine, Calls, MainFine, Register
    <3> HIDE DEF c
    <3>2. CallsFine(Append(calls, c))
      BY <3>1, CallsGrow
    <3>3. CallsFine(calls)' /\ MailFine(mail)'
      BY <3>1, <3>2 DEF MailFine
    <3> QED
      BY <1>7, <2>1, <3>3 DEF Register, MainFine, HistoryFine, StoreFine, main, server, store
  <2>3. CASE ~(current # None /\ session # None /\ disk # None)
    <3> DEFINE m == Call("failed", None, None, FALSE)
    <3>1. m \in Mail /\ m.kind # "registered" /\ mail' = Append(mail, m) /\ calls' = calls
      BY <1>7, <2>3 DEF Call, Mail, Register
    <3> HIDE DEF m
    <3>2. MailFine(Append(mail, m))
      BY <3>1, MailGrows
    <3>3. CallsFine(calls)' /\ MailFine(mail)'
      BY <3>1, <3>2 DEF CallsFine
    <3> QED
      BY <1>7, <2>1, <3>3 DEF Register, MainFine, HistoryFine, StoreFine, main, server, store
  <2> QED
    BY <2>2, <2>3
<1>8. CASE Restart
  <2>1. Blank \in [step : Steps, busy : BOOLEAN] /\ <<"welcome">> \in Seq(Pages)
    BY DEF Blank, Steps, Pages
  <2>2. CallsFine(calls)' /\ MailFine(mail)'
    BY <1>8 DEF Restart, CallsFine, MailFine
  <2> QED
    BY <1>8, <2>1, <2>2 DEF Restart, MainFine, HistoryFine, StoreFine, PageFine, server
<1>9. ASSUME NEW s \in Servers, Connect(s) \/ JoinInvite(s) PROVE AllFine'
  <2> DEFINE locked == has /\ shown = None
             c == Call("connect", None, s, locked)
  <2>1. locked \in BOOLEAN
    BY DEF StoreFine
  <2>2. c \in Calls /\ CallFine(c)
    <3> HIDE DEF locked
    <3> QED
      BY <2>1 DEF Call, CallFine, Calls
  <2>3. calls' = Append(calls, c)
    BY <1>9 DEF Connect, JoinInvite
  <2> HIDE DEF c
  <2>4. CallsFine(calls)'
    <3>1. CallsFine(Append(calls, c))
      BY <2>2, CallsGrow
    <3> QED
      BY <2>3, <3>1 DEF CallsFine
  <2> QED
    BY <1>9, <2>4
       DEF Connect, JoinInvite, MainFine, HistoryFine, StoreFine, PageFine, MailFine, server,
           store, local
<1>10. ASSUME NEW s \in Servers, DeepLink(s) PROVE AllFine'
  <2>1. Call("link", None, s, FALSE) \in Mail /\ Call("link", None, s, FALSE).kind # "registered"
    BY DEF Call, Mail
  <2>2. MailFine(mail)'
    BY <1>10, <2>1, MailGrows DEF DeepLink
  <2> QED
    BY <1>10, <2>2
       DEF DeepLink, MainFine, HistoryFine, StoreFine, PageFine, CallsFine, main, server,
           store, local
<1> QED
  BY <1>1, <1>2, <1>3, <1>5, <1>6, <1>6a, <1>7, <1>8, <1>9, <1>10 DEF UserStep

LEMMA AnswerFine ==
  ASSUME AllFine, NEW k \in DOMAIN calls, Answer(k)
  PROVE  AllFine'
<1> USE DEF AllFine
<1>1. /\ calls[k] \in Calls /\ CallFine(calls[k]) /\ CallsFine(Without(calls, k))
      /\ calls[k].kind # "receive" =>
           \A kind \in {"connected", "registered", "channels", "failed"} :
             MailFine(Append(mail, [calls[k] EXCEPT !.kind = kind]))
  BY CallAnswered
<1>2. UNCHANGED <<session, current, stack, has, shown, words, join>>
  BY DEF Answer, ConnectAnswered, RegisterAnswered, RegisterLost, ChannelsAnswered,
         IdentityReceived, CallFailed, main, store, local, server
<1>3. CallsFine(calls)' /\ MailFine(mail)'
  <2>1. /\ calls' = Without(calls, k)
        /\ \/ mail' = mail
           \/ /\ calls[k].kind # "receive"
              /\ \E kind \in {"connected", "registered", "channels", "failed"} :
                   mail' = Append(mail, [calls[k] EXCEPT !.kind = kind])
    BY DEF Answer, ConnectAnswered, RegisterAnswered, RegisterLost, ChannelsAnswered, Accepts,
           IdentityReceived, CallFailed, Answered
  <2>2. MailFine(mail')
    BY <1>1, <2>1
  <2>3. CallsFine(calls')
    BY <1>1, <2>1
  <2> QED
    BY <2>2, <2>3 DEF CallsFine, MailFine
<1>4. active' \in Servers \cup {None} /\ accounts' \in [Servers -> SUBSET Ids]
  <2>1. /\ Accepts(k) => calls[k].id \in Ids /\ calls[k].server \in Servers
        /\ ConnectAnswered(k) => calls[k].server \in Servers
    BY <1>1 DEF Accepts, ConnectAnswered, CallFine
  <2> QED
    BY <2>1 DEF Answer, ConnectAnswered, RegisterAnswered, RegisterLost, ChannelsAnswered,
                IdentityReceived, CallFailed, Accepts, MainFine, main, server
<1>5. serverRows' \in [Servers -> Accounts \cup {None, NoRow}]
  <2>1. CASE ConnectAnswered(k)
    BY <1>1, <2>1 DEF ConnectAnswered, MainFine
  <2>2. CASE RegisterAnswered(k)
    <3>1. calls[k].id \in Ids /\ calls[k].server \in Servers
      BY <1>1, <2>2 DEF RegisterAnswered, Accepts, CallFine
    <3>2. <<calls[k].server, calls[k].id>> \in Accounts
      BY <3>1 DEF Accounts
    <3> QED
      BY <2>2, <3>2 DEF RegisterAnswered, MainFine
  <2>3. CASE RegisterLost(k) \/ ChannelsAnswered(k) \/ IdentityReceived(k) \/ CallFailed(k)
    BY <2>3 DEF RegisterLost, ChannelsAnswered, IdentityReceived, CallFailed, MainFine, server
  <2> QED
    BY <2>1, <2>2, <2>3 DEF Answer
<1>6. disk' \in Ids \cup {None} /\ apart' \subseteq {"session", "disk"}
  BY DEF Answer, ConnectAnswered, RegisterAnswered, RegisterLost, ChannelsAnswered,
         IdentityReceived, CallFailed, main, MainFine
<1> QED
  BY <1>2, <1>3, <1>4, <1>5, <1>6 DEF MainFine, HistoryFine, StoreFine, PageFine

LEMMA ReceiveFine == AllFine /\ Receive => AllFine'
<1> SUFFICES ASSUME AllFine, Receive PROVE AllFine'
  OBVIOUS
<1> USE DEF AllFine
<1> DEFINE m == Head(mail)
<1>1. m \in Mail /\ MailFine(Tail(mail)) /\ (m.kind = "registered" => m.server \in Servers)
  BY MailTaken DEF Receive
<1>2. m.id \in Ids \cup {None} /\ m.live \in BOOLEAN
  BY <1>1 DEF Mail
<1>3. \/ OnCreated(m) \/ OnRecovered(m) \/ OnUnlocked(m) \/ OnActive(m)
      \/ OnJoinUnlocked(m) \/ OnConnected(m) \/ OnRegistered(m) \/ OnChannels(m)
      \/ OnFailed(m) \/ OnLink(m)
  BY DEF Receive
<1> HIDE DEF m
<1> USE DEF main, server, store, local
<1>4. CASE OnCreated(m) \/ OnJoinUnlocked(m) \/ OnConnected(m) \/ OnFailed(m)
  <2>1. PageFine'
    BY <1>2, <1>4 DEF OnCreated, OnJoinUnlocked, OnConnected, OnFailed, PageFine, Steps
  <2>2. StoreFine'
    BY <1>2, <1>4 DEF OnCreated, OnJoinUnlocked, OnConnected, OnFailed, StoreFine
  <2>3. mail' = Tail(mail) /\ UNCHANGED <<main, server, stack, calls>>
    BY <1>4 DEF OnCreated, OnJoinUnlocked, OnConnected, OnFailed, m
  <2> QED
    BY <1>1, <2>1, <2>2, <2>3 DEF MainFine, HistoryFine, CallsFine, MailFine
<1>5. CASE OnRecovered(m) \/ OnActive(m) \/ OnChannels(m)
  <2>1. PICK p \in Pages : NavigateTo(p, Tail(mail))
    BY <1>5 DEF OnRecovered, OnActive, OnChannels, Pages
  <2>2. HistoryFine' /\ PageFine' /\ CallsFine(calls)' /\ MailFine(mail)'
    BY <1>1, <2>1, NavigationFine
  <2>3. StoreFine'
    BY <1>2, <1>5 DEF OnRecovered, OnActive, OnChannels, StoreFine
  <2> QED
    BY <1>5, <2>2, <2>3 DEF OnRecovered, OnActive, OnChannels, MainFine
<1>6. CASE OnUnlocked(m)
  <2>1. [m EXCEPT !.kind = "active", !.server = active] \in Mail
    BY <1>1 DEF Mail, MainFine
  <2>2. [m EXCEPT !.kind = "active", !.server = active].kind = "active"
    BY <1>1 DEF Mail
  <2>3. MailFine(mail)'
    BY <1>1, <1>6, <2>1, <2>2, MailGrows DEF OnUnlocked
  <2>4. StoreFine'
    BY <1>2, <1>6 DEF OnUnlocked, StoreFine
  <2> QED
    BY <1>6, <2>3, <2>4 DEF OnUnlocked, MainFine, HistoryFine, PageFine, CallsFine
<1>7. CASE OnRegistered(m)
  <2>1. /\ [m EXCEPT !.kind = "channels"] \in Calls
        /\ CallFine([m EXCEPT !.kind = "channels"])
    BY <1>1, <1>7 DEF Mail, Calls, CallFine, OnRegistered
  <2>2. CallsFine(calls)'
    BY <1>7, <2>1, CallsGrow DEF OnRegistered
  <2> QED
    BY <1>1, <1>7, <2>2 DEF OnRegistered, MainFine, HistoryFine, StoreFine, PageFine, MailFine
<1>8. CASE OnLink(m)
  <2>1. HistoryFine'
    BY <1>8, PushedPage DEF OnLink, HistoryFine, Pages
  <2>2. CallsFine(calls)'
    BY <1>8, CallsKept DEF OnLink
  <2>3. MailFine(mail)'
    BY <1>1, <1>8, MailKept DEF OnLink
  <2>4. PageFine'
    BY <1>8 DEF OnLink, PageFine, Blank, Steps
  <2> QED
    BY <1>8, <2>1, <2>2, <2>3, <2>4 DEF OnLink, MainFine, StoreFine
<1> QED
  BY <1>3, <1>4, <1>5, <1>6, <1>7, <1>8

LEMMA OnboardingTypeStep == AllFine /\ [OnboardingNext]_onboardingVars => AllFine'
<1> SUFFICES ASSUME AllFine, [OnboardingNext]_onboardingVars PROVE AllFine'
  OBVIOUS
<1>1. CASE UNCHANGED onboardingVars
  BY <1>1 DEF onboardingVars, AllFine, MainFine, HistoryFine, StoreFine, PageFine, CallsFine,
              MailFine
<1> QED
  BY <1>1, UserStepFine, ReceiveFine, AnswerFine DEF OnboardingNext, Answer

LEMMA OnboardingFine == OnboardingSpec => []AllFine
  BY OnboardingTypeInit, OnboardingTypeStep, PTL DEF OnboardingSpec

(* Type correctness of onboarding: a registration that is under way has a   *)
(* key to register.                                                         *)
THEOREM OnboardingTypeCorrect == OnboardingSpec => []OnboardingTypeOK
  BY OnboardingFine, FineIsTyped, PTL

------------------------------------------------------------------------------
(* The pages and the answers they wait for.                                 *)

(* A phrase is on its way to the page that shows it.                        *)
IsNew(m) == m.kind = "created" /\ m.live

NoAnswer(s) == \A k \in 1..Len(s) : ~IsAnswer(s[k])

(* What the store may show: the identity of main and of the database, but   *)
(* for what has come between them.                                          *)
Stored(id) == id = disk \/ "disk" \in apart
Right(id) == (id = session \/ "session" \in apart) /\ Stored(id)

(* The last answer on its way brings what is right; without one, what is    *)
(* shown is.                                                                *)
Owed(s) ==
  /\ \A k \in 1..Len(s) :
       IsAnswer(s[k]) /\ (\A j \in 1..Len(s) : j > k => ~IsAnswer(s[j])) => Right(s[k].id)
  /\ NoAnswer(s) /\ shown # None => Right(shown)
  /\ NoAnswer(s) /\ words # None => Stored(words)

(* What was right stays so.                                                 *)
StaysRight == \A id : (Right(id) => Right(id)') /\ (Stored(id) => Stored(id)')

(* While CreateIdentity waits for a phrase or shows one, every answer that  *)
(* is still to come brings another phrase to this page.                     *)
FormOwed(s) ==
  /\ words # None => Page = "create"
  /\ \A k \in 1..Len(s) : IsNew(s[k]) => Page = "create"
  /\ \A j, k \in 1..Len(s) : j < k /\ IsNew(s[j]) /\ IsAnswer(s[k]) => IsNew(s[k])
  /\ words # None => \A k \in 1..Len(s) : IsAnswer(s[k]) => IsNew(s[k])

(* t has the messages of s, and after them none that is an answer.          *)
Carries(s, t) ==
  /\ Len(s) \in Nat /\ Len(t) \in Nat /\ Len(s) <= Len(t)
  /\ \A k \in 1..Len(s) : t[k].kind = s[k].kind /\ t[k].id = s[k].id
  /\ \A k \in 1..Len(t) : k > Len(s) => ~IsAnswer(t[k])

LEMMA NothingBetween ==
  ASSUME UNCHANGED <<disk, session, apart>> PROVE StaysRight
  BY DEF StaysRight, Right, Stored

LEMMA OwedCarried ==
  ASSUME NEW s, Owed(s), Carries(s, mail'), StaysRight, shown' = shown,
         words' \in {words, None}
  PROVE  Owed(mail)'
<1>1. /\ Len(s) \in Nat /\ Len(mail') \in Nat /\ Len(s) <= Len(mail')
      /\ \A k \in 1..Len(s) : mail'[k].id = s[k].id /\ (IsAnswer(mail'[k]) <=> IsAnswer(s[k]))
      /\ \A k \in 1..Len(mail') : k > Len(s) => ~IsAnswer(mail'[k])
  BY DEF Carries, IsAnswer
<1>2. NoAnswer(mail)' <=> NoAnswer(s)
  BY <1>1 DEF NoAnswer
<1>3. \A k \in 1..Len(mail') :
        IsAnswer(mail'[k]) /\ (\A j \in 1..Len(mail') : j > k => ~IsAnswer(mail'[j]))
          => Right(mail'[k].id)
  BY <1>1 DEF Owed
<1>4. /\ NoAnswer(s) /\ shown # None => Right(shown)'
      /\ NoAnswer(s) /\ words' # None => Stored(words)'
  BY DEF Owed, StaysRight
<1> QED
  BY <1>2, <1>3, <1>4 DEF Owed, IsAnswer, StaysRight

LEMMA FormCarried ==
  ASSUME NEW s, FormOwed(s), Carries(s, mail'),
         \/ /\ Page' = Page /\ words' = words
            /\ \A k \in 1..Len(s) : mail'[k].live = s[k].live
         \/ /\ words' = None
            /\ \A k \in 1..Len(s) : ~mail'[k].live
  PROVE  FormOwed(mail)'
<1>1. /\ Len(s) \in Nat /\ Len(mail') \in Nat /\ Len(s) <= Len(mail')
      /\ \A k \in 1..Len(s) : IsAnswer(mail'[k]) <=> IsAnswer(s[k])
      /\ \A k \in 1..Len(mail') : k > Len(s) => ~IsAnswer(mail'[k]) /\ ~IsNew(mail'[k])
  BY DEF Carries, IsAnswer, IsNew
<1>2. CASE /\ Page' = Page /\ words' = words
           /\ \A k \in 1..Len(s) : mail'[k].live = s[k].live
  <2>1. \A k \in 1..Len(s) : IsNew(mail'[k]) <=> IsNew(s[k])
    BY <1>2 DEF Carries, IsNew
  <2> QED
    BY <1>1, <1>2, <2>1 DEF FormOwed, IsAnswer, IsNew
<1>3. CASE words' = None /\ \A k \in 1..Len(s) : ~mail'[k].live
  <2>1. \A k \in 1..Len(mail') : ~IsNew(mail'[k])
    BY <1>1, <1>3 DEF IsNew
  <2> QED
    BY <1>1, <1>3, <2>1 DEF FormOwed, IsAnswer, IsNew
<1> QED
  BY <1>2, <1>3

(* The first message is taken.                                              *)
LEMMA OwedAfterFirst ==
  ASSUME MailFine(mail), mail # <<>>, Owed(mail), FormOwed(mail)
  PROVE  /\ FormOwed(Tail(mail))
         /\ ~IsAnswer(mail[1]) => Owed(Tail(mail))
         /\ NoAnswer(Tail(mail)) /\ IsAnswer(mail[1]) => Right(mail[1].id)
         /\ \A k \in 1..Len(Tail(mail)) :
              IsAnswer(Tail(mail)[k])
                /\ (\A j \in 1..Len(Tail(mail)) : j > k => ~IsAnswer(Tail(mail)[j]))
              => Right(Tail(mail)[k].id)
         /\ IsNew(mail[1]) => \A k \in 1..Len(Tail(mail)) : IsAnswer(Tail(mail)[k])
                                                             => IsNew(Tail(mail)[k])
<1> DEFINE t == Tail(mail)
<1>1. /\ Len(mail) \in Nat \ {0} /\ Len(t) = Len(mail) - 1
      /\ \A k \in 1..(Len(mail) - 1) : t[k] = mail[k + 1]
  BY MailTaken
<1> HIDE DEF t
<1>2. \A k \in 1..Len(t) : k + 1 \in 1..Len(mail) /\ t[k] = mail[k + 1]
  BY <1>1
<1>3. \A k \in 1..Len(mail) : k > 1 => k - 1 \in 1..Len(t) /\ mail[k] = t[k - 1]
  BY <1>1
<1>4. 1 \in 1..Len(mail) /\ Len(mail) \in Nat /\ Len(t) \in Nat
  BY <1>1
<1>5. NoAnswer(mail) <=> NoAnswer(t) /\ ~IsAnswer(mail[1])
  BY <1>2, <1>3, <1>4 DEF NoAnswer
<1>6. NoAnswer(t) /\ IsAnswer(mail[1]) => Right(mail[1].id)
  BY <1>3, <1>4 DEF NoAnswer, Owed
<1>7. ASSUME NEW k \in 1..Len(t), IsAnswer(t[k]), \A j \in 1..Len(t) : j > k => ~IsAnswer(t[j])
      PROVE  Right(t[k].id)
  <2>1. \A j \in 1..Len(mail) : j > k + 1 => ~IsAnswer(mail[j])
    <3> TAKE j \in 1..Len(mail)
    <3> HAVE j > k + 1
    <3>1. j - 1 \in 1..Len(t) /\ j - 1 > k /\ mail[j] = t[j - 1]
      BY <1>3, <1>4
    <3> QED
      BY <1>7, <3>1
  <2> QED
    BY <1>2, <1>7, <2>1 DEF Owed
<1>8. FormOwed(t)
  <2>1. \A k \in 1..Len(t) : IsNew(t[k]) => Page = "create"
    BY <1>2 DEF FormOwed
  <2>2. \A j, k \in 1..Len(t) : j < k /\ IsNew(t[j]) /\ IsAnswer(t[k]) => IsNew(t[k])
    <3> TAKE j, k \in 1..Len(t)
    <3>1. /\ j + 1 \in 1..Len(mail) /\ t[j] = mail[j + 1]
          /\ k + 1 \in 1..Len(mail) /\ t[k] = mail[k + 1]
          /\ j < k => j + 1 < k + 1
      BY <1>2, <1>4
    <3> QED
      BY <3>1 DEF FormOwed
  <2>3. words # None => \A k \in 1..Len(t) : IsAnswer(t[k]) => IsNew(t[k])
    BY <1>2 DEF FormOwed
  <2> QED
    BY <2>1, <2>2, <2>3 DEF FormOwed
<1>9. IsNew(mail[1]) => \A k \in 1..Len(t) : IsAnswer(t[k]) => IsNew(t[k])
  <2> HAVE IsNew(mail[1])
  <2> TAKE k \in 1..Len(t)
  <2>1. k + 1 \in 1..Len(mail) /\ t[k] = mail[k + 1] /\ 1 < k + 1
    BY <1>2, <1>4
  <2> QED
    BY <1>4, <2>1 DEF FormOwed
<1>10. ~IsAnswer(mail[1]) => Owed(t)
  BY <1>5, <1>7 DEF Owed
<1> QED
  BY <1>6, <1>7, <1>8, <1>9, <1>10 DEF t

(* The first message is an answer, and the store shows what it brings.      *)
LEMMA OwedTaken ==
  ASSUME MailFine(mail), mail # <<>>, Owed(mail), FormOwed(mail), IsAnswer(mail[1]),
         Carries(Tail(mail), mail'), UNCHANGED <<disk, session, apart>>, shown' = mail[1].id,
         words' \in {mail[1].id, None}
  PROVE  Owed(mail)'
<1> DEFINE t == Tail(mail)
<1>1. /\ Len(t) \in Nat /\ Len(mail') \in Nat /\ Len(t) <= Len(mail')
      /\ \A k \in 1..Len(t) : mail'[k].id = t[k].id /\ (IsAnswer(mail'[k]) <=> IsAnswer(t[k]))
      /\ \A k \in 1..Len(mail') : k > Len(t) => ~IsAnswer(mail'[k])
  BY DEF Carries, IsAnswer
<1>2. /\ NoAnswer(t) => Right(mail[1].id)
      /\ \A k \in 1..Len(t) :
           IsAnswer(t[k]) /\ (\A j \in 1..Len(t) : j > k => ~IsAnswer(t[j])) => Right(t[k].id)
  BY OwedAfterFirst
<1> HIDE DEF t
<1>3. NoAnswer(mail)' <=> NoAnswer(t)
  BY <1>1 DEF NoAnswer
<1>4. \A k \in 1..Len(mail') :
        IsAnswer(mail'[k]) /\ (\A j \in 1..Len(mail') : j > k => ~IsAnswer(mail'[j]))
          => Right(mail'[k].id)
  BY <1>1, <1>2
<1>5. NoAnswer(t) => Right(shown')
  BY <1>2
<1> QED
  BY <1>3, <1>4, <1>5 DEF Owed, IsAnswer, Right, Stored

(* A page that is left has its messages outlived, one that stays keeps them. *)
LEMMA KeptCarries ==
  ASSUME NEW p, NEW ms, MailFine(ms)
  PROVE  /\ Carries(ms, Kept(p, ms))
         /\ p = Page => \A k \in 1..Len(ms) : Kept(p, ms)[k].live = ms[k].live
         /\ p # Page => \A k \in 1..Len(ms) : ~Kept(p, ms)[k].live
<1>1. ms \in Seq(Mail) /\ Len(ms) \in Nat
  BY DEF MailFine
<1>2. /\ Len(Kept(p, ms)) = Len(ms)
      /\ \A k \in 1..Len(ms) : Kept(p, ms)[k].kind = ms[k].kind /\ Kept(p, ms)[k].id = ms[k].id
  BY <1>1, KeptMail
<1>3. Carries(ms, Kept(p, ms))
  BY <1>1, <1>2 DEF Carries
<1>4. p = Page => Kept(p, ms) = ms
  BY <1>1, KeptMail
<1>5. p # Page => \A k \in 1..Len(ms) : ~Kept(p, ms)[k].live
  BY <1>1, KeptMail
<1> QED
  BY <1>3, <1>4, <1>5

LEMMA ShownForm ==
  ASSUME NEW p, NEW ms, MailFine(ms), FormOwed(ms), Page' = p,
         Show(p, calls, ms, words, join)
  PROVE  FormOwed(mail)' /\ Carries(ms, mail') /\ words' \in {words, None}
<1>1. mail' = Kept(p, ms) /\ words' = IF p = Page THEN words ELSE None
  BY DEF Show
<1>2. Carries(ms, mail')
  BY <1>1, KeptCarries
<1>3. CASE p = Page
  <2>1. \A k \in 1..Len(ms) : mail'[k].live = ms[k].live
    BY <1>1, <1>3, KeptCarries
  <2> QED
    BY <1>1, <1>2, <1>3, <2>1, FormCarried
<1>4. CASE p # Page
  <2>1. \A k \in 1..Len(ms) : ~mail'[k].live
    BY <1>1, <1>4, KeptCarries
  <2> QED
    BY <1>1, <1>2, <1>4, <2>1, FormCarried
<1> QED
  BY <1>3, <1>4

LEMMA NavigatedForm ==
  ASSUME HistoryFine, NEW p \in Pages, NEW ms, MailFine(ms), FormOwed(ms), NavigateTo(p, ms)
  PROVE  FormOwed(mail)' /\ Carries(ms, mail') /\ words' \in {words, None} /\ Page' = p
<1>1. Page' = p
  BY PushedPage DEF NavigateTo, HistoryFine, Page
<1> QED
  BY <1>1, ShownForm DEF NavigateTo

(* A message that is no answer joins the others, or none does.              *)
LEMMA QuietlyGrown ==
  ASSUME MailFine(mail), Owed(mail), FormOwed(mail), NEW m, ~IsAnswer(m),
         mail' \in {mail, Append(mail, m)},
         StaysRight, UNCHANGED <<shown, words, stack>>
  PROVE  Owed(mail)' /\ FormOwed(mail)'
<1>1. mail \in Seq(Mail) /\ Len(mail) \in Nat
  BY DEF MailFine
<1>2. /\ Len(mail') \in {Len(mail), Len(mail) + 1}
      /\ \A k \in 1..Len(mail) : mail'[k] = mail[k]
      /\ Len(mail') = Len(mail) + 1 => mail'[Len(mail) + 1] = m
  BY <1>1
<1>3. Carries(mail, mail')
  BY <1>1, <1>2 DEF Carries
<1>4. Page' = Page
  BY DEF Page
<1> QED
  BY <1>2, <1>3, <1>4, OwedCarried, FormCarried

(* An identity is asked for.                                                *)
LEMMA Asked ==
  ASSUME MailFine(mail), Owed(mail), FormOwed(mail),
         NEW kind \in {"created", "recovered", "unlocked", "joinUnlocked"}, NEW i,
         Ask(kind, i), disk' = i, session' = i, apart' = {}, words = None,
         Page = "create" <=> kind = "created",
         UNCHANGED <<shown, words, stack>>
  PROVE  Owed(mail)' /\ FormOwed(mail)'
<1> DEFINE m == Call(kind, i, None, FALSE)
<1>1. m.kind = kind /\ m.id = i /\ m.live /\ IsAnswer(m) /\ (Page = "create" <=> IsNew(m))
  BY DEF Call, IsAnswer, IsNew
<1> HIDE DEF m
<1>2. mail \in Seq(Mail) /\ Len(mail) \in Nat
  BY DEF MailFine
<1>3. /\ Len(mail') = Len(mail) + 1 /\ mail'[Len(mail) + 1] = m
      /\ \A k \in 1..Len(mail) : mail'[k] = mail[k]
  <2>1. mail' = Append(mail, m)
    BY DEF Ask, m
  <2> QED
    BY <1>2, <2>1
<1>4. ~NoAnswer(mail)'
  BY <1>1, <1>2, <1>3 DEF NoAnswer, IsAnswer
<1>5. \A k \in 1..Len(mail') :
        IsAnswer(mail'[k]) /\ (\A j \in 1..Len(mail') : j > k => ~IsAnswer(mail'[j]))
          => mail'[k].id = i
  <2>1. Len(mail') \in 1..Len(mail') /\ IsAnswer(mail'[Len(mail')]) /\ mail'[Len(mail')].id = i
    BY <1>1, <1>2, <1>3
  <2> QED
    BY <1>2, <1>3, <2>1
<1>6. Owed(mail)'
  BY <1>4, <1>5 DEF Owed, IsAnswer, Right, Stored
<1>7. Page' = Page
  BY DEF Page
<1>8. \A k \in 1..Len(mail') : IsNew(mail'[k]) => Page = "create"
  BY <1>1, <1>2, <1>3 DEF FormOwed
<1>9. \A j, k \in 1..Len(mail') : j < k /\ IsNew(mail'[j]) /\ IsAnswer(mail'[k]) => IsNew(mail'[k])
  BY <1>1, <1>2, <1>3 DEF FormOwed
<1> QED
  BY <1>6, <1>7, <1>8, <1>9 DEF FormOwed, IsNew, IsAnswer

OnboardingInv == AllFine /\ Owed(mail) /\ FormOwed(mail)

LEMMA OwedUserStep ==
  ASSUME OnboardingInv, UserStep
  PROVE  Owed(mail)' /\ FormOwed(mail)'
<1> USE DEF OnboardingInv, AllFine
<1>1. CASE Follow
  <2>1. PICK p \in Pages : NavigateTo(p, mail)
    BY <1>1 DEF Follow, Pages
  <2>2. FormOwed(mail)' /\ Carries(mail, mail') /\ words' \in {words, None}
    BY <2>1, NavigatedForm
  <2> QED
    BY <1>1, <2>2, OwedCarried, NothingBetween DEF Follow, main, store
<1>2. CASE Back
  <2> DEFINE p == stack[Len(stack) - 1]
  <2>1. Page' = p
    BY <1>2 DEF Back, Page, HistoryFine
  <2>2. FormOwed(mail)' /\ Carries(mail, mail') /\ words' \in {words, None}
    BY <1>2, <2>1, ShownForm DEF Back
  <2> QED
    BY <1>2, <2>2, OwedCarried, NothingBetween DEF Back, main, store
<1>3. ASSUME NEW m, ~IsAnswer(m), mail' \in {mail, Append(mail, m)},
             UNCHANGED <<disk, session, apart, shown, words, stack>>
      PROVE  Owed(mail)' /\ FormOwed(mail)'
  BY <1>3, QuietlyGrown, NothingBetween
<1>4. CASE Choose
  <2>1. mail' = mail /\ UNCHANGED <<disk, session, apart, shown, words, stack>>
    BY <1>4 DEF Choose, main, store
  <2>2. ~IsAnswer(Call("failed", None, None, FALSE))
    BY DEF Call, IsAnswer
  <2> QED
    BY <1>3, <2>1, <2>2
<1>5. CASE Register \/ AskDevice \/ \E s \in Servers : Connect(s) \/ JoinInvite(s)
  <2>1. /\ mail' \in {mail, Append(mail, Call("failed", None, None, FALSE))}
        /\ UNCHANGED <<disk, session, apart, shown, words, stack>>
    BY <1>5 DEF Register, AskDevice, Connect, JoinInvite, main, store, local
  <2>2. ~IsAnswer(Call("failed", None, None, FALSE))
    BY DEF Call, IsAnswer
  <2> QED
    BY <1>3, <2>1, <2>2
<1>6. ASSUME NEW s \in Servers, DeepLink(s) PROVE Owed(mail)' /\ FormOwed(mail)'
  <2>1. /\ mail' = Append(mail, Call("link", None, s, FALSE))
        /\ UNCHANGED <<disk, session, apart, shown, words, stack>>
    BY <1>6 DEF DeepLink, main, store, local
  <2>2. ~IsAnswer(Call("link", None, s, FALSE))
    BY DEF Call, IsAnswer
  <2> QED
    BY <1>3, <2>1, <2>2
<1>7. words # None => Page = "create"
  BY DEF FormOwed
<1>8. ASSUME NEW i \in Ids, NotSaved(i), UNCHANGED <<shown, words, stack>>
      PROVE  Owed(mail)' /\ FormOwed(mail)'
  <2>1. StaysRight
    BY <1>8 DEF NotSaved, StaysRight, Right, Stored
  <2>2. mail' \in {mail, Append(mail, Call("failed", None, None, FALSE))}
    BY <1>8 DEF NotSaved
  <2>3. ~IsAnswer(Call("failed", None, None, FALSE))
    BY DEF Call, IsAnswer
  <2> QED
    BY <1>8, <2>1, <2>2, <2>3, QuietlyGrown
<1>9. ASSUME NEW i \in Ids, SubmitCreate(i) \/ SubmitRecover(i)
      PROVE  Owed(mail)' /\ FormOwed(mail)'
  <2>1. CASE NotSaved(i)
    BY <1>8, <1>9, <2>1 DEF SubmitCreate, SubmitRecover, store, local
  <2>2. CASE SubmitCreate(i) /\ Saved(i, "created")
    BY <2>2, Asked DEF SubmitCreate, Saved, store, local
  <2>3. CASE SubmitRecover(i) /\ Saved(i, "recovered")
    BY <1>7, <2>3, Asked DEF SubmitRecover, Saved, store, local
  <2> QED
    BY <1>9, <2>1, <2>2, <2>3 DEF SubmitCreate, SubmitRecover
<1>10. CASE Unlock
  <2>1. PICK kind \in {"unlocked", "joinUnlocked"} : Ask(kind, disk) /\ Page # "create"
    BY <1>10 DEF Unlock
  <2> QED
    BY <1>7, <1>10, <2>1, Asked DEF Unlock, store, local
<1>11. CASE Restart
  <2>1. mail' = <<>> /\ shown' = None /\ words' = None
    BY <1>11 DEF Restart
  <2> QED
    BY <2>1 DEF Owed, FormOwed, NoAnswer
<1> QED
  BY <1>1, <1>2, <1>4, <1>5, <1>6, <1>9, <1>10, <1>11 DEF UserStep

LEMMA OwedAnswerStep ==
  ASSUME OnboardingInv, NEW k \in DOMAIN calls, Answer(k)
  PROVE  Owed(mail)' /\ FormOwed(mail)'
<1> USE DEF OnboardingInv, AllFine
<1>1. UNCHANGED <<shown, words, stack>>
  BY DEF Answer, ConnectAnswered, RegisterAnswered, RegisterLost, ChannelsAnswered,
         IdentityReceived, CallFailed, main, store, local, server
<1>2. PICK kind \in {"connected", "registered", "channels", "failed"} :
        mail' \in {mail, Append(mail, [calls[k] EXCEPT !.kind = kind])}
  BY DEF Answer, ConnectAnswered, RegisterAnswered, RegisterLost, ChannelsAnswered,
         IdentityReceived, CallFailed, Answered, local
<1>3. ~IsAnswer([calls[k] EXCEPT !.kind = kind])
  <2>1. calls[k] \in Calls
    BY CallAnswered
  <2> QED
    BY <2>1 DEF Calls, IsAnswer
<1>4. StaysRight
  <2>1. CASE IdentityReceived(k)
    BY <2>1 DEF IdentityReceived, StaysRight, Right, Stored
  <2>2. CASE ~IdentityReceived(k)
    BY <2>2, NothingBetween
       DEF Answer, ConnectAnswered, RegisterAnswered, RegisterLost, ChannelsAnswered, CallFailed,
           main
  <2> QED
    BY <2>1, <2>2
<1> QED
  BY <1>1, <1>2, <1>3, <1>4, QuietlyGrown

LEMMA OwedReceiveStep ==
  ASSUME OnboardingInv, Receive
  PROVE  Owed(mail)' /\ FormOwed(mail)'
<1> USE DEF OnboardingInv, AllFine
<1> DEFINE m == Head(mail)
           t == Tail(mail)
<1>1. /\ mail # <<>> /\ m = mail[1] /\ m \in Mail /\ MailFine(t) /\ Len(t) \in Nat
  BY MailTaken DEF Receive, MailFine
<1>2. /\ FormOwed(t)
      /\ ~IsAnswer(m) => Owed(t)
      /\ IsNew(m) => \A k \in 1..Len(t) : IsAnswer(t[k]) => IsNew(t[k])
  BY <1>1, OwedAfterFirst
<1>3. /\ IsAnswer(m) /\ ~IsNew(m) => words = None
      /\ IsNew(m) => Page = "create"
  <2>1. 1 \in 1..Len(mail)
    BY <1>1, MailTaken
  <2> QED
    BY <1>1, <2>1 DEF FormOwed
<1>4. \/ OnCreated(m) \/ OnRecovered(m) \/ OnUnlocked(m) \/ OnActive(m)
      \/ OnJoinUnlocked(m) \/ OnConnected(m) \/ OnRegistered(m) \/ OnChannels(m)
      \/ OnFailed(m) \/ OnLink(m)
  BY DEF Receive
<1>5. /\ IsAnswer(m) /\ shown' = m.id /\ words' \in {m.id, None}
      /\ UNCHANGED <<disk, session, apart>> /\ Carries(t, mail')
      => Owed(mail)'
  BY <1>1, OwedTaken
<1>6. /\ m.kind \in {"created", "recovered", "unlocked", "joinUnlocked"} => IsAnswer(m)
      /\ m.kind \notin {"created", "recovered", "unlocked", "joinUnlocked"} => ~IsAnswer(m)
      /\ m.kind # "created" => ~IsNew(m)
      /\ m.kind = "created" => (IsNew(m) <=> m.live)
  BY <1>1 DEF IsAnswer, IsNew, Mail
<1>7. Carries(t, t)
  BY <1>1 DEF Carries
<1> HIDE DEF m, t
<1>8. CASE OnCreated(m)
  <2>1. /\ mail' = t /\ shown' = m.id /\ UNCHANGED <<disk, session, apart, stack>>
        /\ words' = IF m.live THEN m.id ELSE words
        /\ m.kind = "created"
    BY <1>8 DEF OnCreated, main, m, t
  <2>2. Owed(mail)'
    BY <1>3, <1>5, <1>6, <1>7, <2>1
  <2>3. Page' = Page
    BY <2>1 DEF Page
  <2>4. CASE m.live
    <3>1. Page = "create" /\ \A k \in 1..Len(t) : IsAnswer(t[k]) => IsNew(t[k])
      BY <1>2, <1>3, <1>6, <2>1, <2>4
    <3> QED
      BY <2>1, <2>2, <2>3, <3>1 DEF FormOwed, IsAnswer, IsNew
  <2>5. CASE ~m.live
    BY <1>2, <1>7, <2>1, <2>2, <2>3, <2>5, FormCarried
  <2> QED
    BY <2>4, <2>5
<1>9. CASE OnRecovered(m)
  <2>1. /\ NavigateTo("join", t) /\ shown' = m.id /\ UNCHANGED <<disk, session, apart>>
        /\ m.kind = "recovered"
    BY <1>9 DEF OnRecovered, main, t
  <2>2. FormOwed(mail)' /\ Carries(t, mail') /\ words' \in {words, None}
    BY <1>1, <1>2, <2>1, NavigatedForm DEF Pages
  <2> QED
    BY <1>3, <1>5, <1>6, <2>1, <2>2
<1>10. CASE OnUnlocked(m)
  <2> DEFINE a == [m EXCEPT !.kind = "active", !.server = active]
  <2>1. /\ mail' = Append(t, a) /\ shown' = m.id /\ UNCHANGED <<disk, session, apart, stack, words>>
        /\ m.kind = "unlocked"
    BY <1>10 DEF OnUnlocked, main, local, t
  <2>2. a.kind = "active"
    BY <1>1 DEF Mail
  <2> HIDE DEF a
  <2>3. /\ Len(mail') = Len(t) + 1 /\ mail'[Len(t) + 1] = a
        /\ \A k \in 1..Len(t) : mail'[k] = t[k]
    BY <1>1, <2>1 DEF MailFine
  <2>4. Carries(t, mail')
    BY <1>1, <2>2, <2>3 DEF Carries, IsAnswer
  <2>5. Page' = Page
    BY <2>1 DEF Page
  <2>6. FormOwed(mail)'
    BY <1>2, <2>1, <2>3, <2>4, <2>5, FormCarried
  <2> QED
    BY <1>3, <1>5, <1>6, <2>1, <2>4, <2>6
<1>11. CASE OnJoinUnlocked(m)
  <2>1. /\ mail' = t /\ shown' = m.id /\ UNCHANGED <<disk, session, apart, stack, words>>
        /\ m.kind = "joinUnlocked"
    BY <1>11 DEF OnJoinUnlocked, main, t
  <2>2. Page' = Page
    BY <2>1 DEF Page
  <2>3. FormOwed(mail)'
    BY <1>2, <1>7, <2>1, <2>2, FormCarried
  <2> QED
    BY <1>3, <1>5, <1>6, <1>7, <2>1, <2>3
<1>12. CASE OnConnected(m) \/ OnRegistered(m) \/ OnFailed(m)
  <2>1. /\ mail' = t /\ UNCHANGED <<disk, session, apart, shown, stack, words>>
        /\ m.kind \in {"connected", "registered", "failed"}
    BY <1>12 DEF OnConnected, OnRegistered, OnFailed, main, store, local, t
  <2>2. Page' = Page
    BY <2>1 DEF Page
  <2>3. FormOwed(mail)'
    BY <1>2, <1>7, <2>1, <2>2, FormCarried
  <2>4. Owed(mail)'
    BY <1>2, <1>6, <1>7, <2>1, OwedCarried, NothingBetween
  <2> QED
    BY <2>3, <2>4
<1>13. CASE OnActive(m) \/ OnChannels(m)
  <2>1. PICK p \in Pages : NavigateTo(p, t)
    BY <1>13 DEF OnActive, OnChannels, Pages, t
  <2>2. /\ UNCHANGED <<disk, session, apart, shown>> /\ m.kind \in {"active", "channels"}
    BY <1>13 DEF OnActive, OnChannels, main, store
  <2>3. FormOwed(mail)' /\ Carries(t, mail') /\ words' \in {words, None}
    BY <1>1, <1>2, <2>1, NavigatedForm
  <2>4. Owed(mail)'
    BY <1>2, <1>6, <2>2, <2>3, OwedCarried, NothingBetween
  <2> QED
    BY <2>3, <2>4
<1>14. CASE OnLink(m)
  <2>1. /\ mail' = Kept("join", t) /\ words' = None /\ UNCHANGED <<disk, session, apart, shown>>
        /\ m.kind = "link" /\ stack' = Pushed("join")
    BY <1>14 DEF OnLink, main, store, t
  <2>2. Page' = "join" /\ Carries(t, mail')
    BY <1>1, <2>1, PushedPage, KeptCarries DEF HistoryFine, Page, Pages
  <2>3. Owed(mail)'
    BY <1>2, <1>6, <2>1, <2>2, OwedCarried, NothingBetween
  <2>4. FormOwed(mail)'
    <3>1. CASE Page = "join"
      <4>1. \A k \in 1..Len(t) : ~IsNew(t[k])
        BY <1>2, <3>1 DEF FormOwed
      <4>2. words = None
        BY <3>1 DEF FormOwed
      <4>3. \A k \in 1..Len(t) : mail'[k].live = t[k].live
        BY <1>1, <2>1, <3>1, KeptCarries
      <4> QED
        BY <1>2, <2>1, <2>2, <3>1, <4>2, <4>3, FormCarried
    <3>2. CASE Page # "join"
      <4>1. \A k \in 1..Len(t) : ~mail'[k].live
        BY <1>1, <2>1, <3>2, KeptCarries
      <4> QED
        BY <1>2, <2>1, <2>2, <4>1, FormCarried
    <3> QED
      BY <3>1, <3>2
  <2> QED
    BY <2>3, <2>4
<1> QED
  BY <1>4, <1>8, <1>9, <1>10, <1>11, <1>12, <1>13, <1>14

LEMMA OwedStep ==
  OnboardingInv /\ [OnboardingNext]_onboardingVars => OnboardingInv'
<1> SUFFICES ASSUME OnboardingInv, [OnboardingNext]_onboardingVars PROVE OnboardingInv'
  OBVIOUS
<1>1. AllFine'
  BY OnboardingTypeStep DEF OnboardingInv
<1>2. CASE UNCHANGED onboardingVars
  BY <1>1, <1>2 DEF onboardingVars, OnboardingInv, Owed, FormOwed, NoAnswer, IsAnswer, IsNew, Page,
                    Right, Stored
<1> QED
  BY <1>1, <1>2, OwedUserStep, OwedAnswerStep, OwedReceiveStep
     DEF OnboardingNext, OnboardingInv, Answer

LEMMA OwedInit == OnboardingInit => OnboardingInv
  BY OnboardingTypeInit DEF OnboardingInit, OnboardingInv, Owed, FormOwed, NoAnswer

LEMMA OnboardingInvariant == OnboardingSpec => []OnboardingInv
  BY OwedInit, OwedStep, PTL DEF OnboardingSpec

LEMMA NoneOnItsWay == OnboardingInv /\ NoIdentityAnswer => NoAnswer(mail)
  BY DEF OnboardingInv, AllFine, MailFine, NoIdentityAnswer, NoAnswer, IsAnswer

(* The identity the store shows as unlocked is the one main signs with,     *)
(* unless a save has failed since, and the stored one, unless an identity   *)
(* was received since, whichever pages asked and whichever have been left.  *)
THEOREM StoreAlwaysFollows == OnboardingSpec => []StoreFollowsSession
<1>1. OnboardingInv => StoreFollowsSession
  BY NoneOnItsWay DEF OnboardingInv, Owed, Right, Stored, StoreFollowsSession
<1> QED
  BY <1>1, OnboardingInvariant, PTL

(* The phrase that the user is told to write down is that of the stored     *)
(* key, even when the form was sent more than once, unless one was received *)
(* since.                                                                   *)
THEOREM PhraseIsAlwaysRight == OnboardingSpec => []PhraseIsOfTheKey
<1>1. OnboardingInv => PhraseIsOfTheKey
  BY NoneOnItsWay DEF OnboardingInv, Owed, Stored, PhraseIsOfTheKey
<1> QED
  BY <1>1, OnboardingInvariant, PTL

------------------------------------------------------------------------------
(* The button of JoinServer.                                                *)

IsPendingCall(c) == c.live /\ c.kind \in {"register", "channels"}
IsPendingMail(m) == m.live /\ m.kind \in {"registered", "channels", "failed"}

(* Something that will enable the button or leave the page.                 *)
IsPending(cs, ms) ==
  \/ \E k \in 1..Len(cs) : IsPendingCall(cs[k])
  \/ \E k \in 1..Len(ms) : IsPendingMail(ms[k])

BusyInv == join.busy => Page = "join" /\ IsPending(calls, mail)

LEMMA BusySuffices == AllFine /\ BusyInv => BusyIsAnswered
  BY DEF AllFine, CallsFine, MailFine, BusyInv, IsPending, IsPendingCall, IsPendingMail,
         BusyIsAnswered

LEMMA PendingGrows ==
  ASSUME CallsFine(calls), NEW ms, MailFine(ms), IsPending(calls, ms),
         NEW c, calls' \in {calls, Append(calls, c)}, NEW m, mail' \in {ms, Append(ms, m)}
  PROVE  IsPending(calls, mail)'
<1>1. /\ Len(calls) \in Nat /\ Len(calls') \in Nat /\ Len(calls) <= Len(calls')
      /\ \A k \in 1..Len(calls) : calls'[k] = calls[k]
  BY DEF CallsFine
<1>2. /\ Len(ms) \in Nat /\ Len(mail') \in Nat /\ Len(ms) <= Len(mail')
      /\ \A k \in 1..Len(ms) : mail'[k] = ms[k]
  BY DEF MailFine
<1>3. ASSUME NEW k \in 1..Len(calls), IsPendingCall(calls[k]) PROVE IsPending(calls, mail)'
  BY <1>1, <1>3 DEF IsPending, IsPendingCall
<1>4. ASSUME NEW k \in 1..Len(ms), IsPendingMail(ms[k]) PROVE IsPending(calls, mail)'
  BY <1>2, <1>4 DEF IsPending, IsPendingMail
<1> QED
  BY <1>3, <1>4 DEF IsPending

LEMMA PendingAfterFirst ==
  ASSUME MailFine(mail), mail # <<>>, IsPending(calls, mail), ~IsPendingMail(mail[1])
  PROVE  IsPending(calls, Tail(mail))
<1> DEFINE t == Tail(mail)
<1>1. /\ Len(mail) \in Nat \ {0} /\ Len(t) = Len(mail) - 1
      /\ \A k \in 1..(Len(mail) - 1) : t[k] = mail[k + 1]
  BY MailTaken
<1> HIDE DEF t
<1>2. ASSUME NEW k \in 1..Len(mail), IsPendingMail(mail[k]) PROVE IsPending(calls, t)
  <2>1. k # 1
    BY <1>2
  <2>2. k - 1 \in 1..Len(t) /\ t[k - 1] = mail[k]
    BY <1>1, <2>1
  <2> QED
    BY <1>2, <2>2 DEF IsPending
<1>3. IsPending(calls, t)
  BY <1>2 DEF IsPending
<1> QED
  BY <1>3 DEF t

(* A page that is left takes its button with it.                            *)
LEMMA ShownBusy ==
  ASSUME CallsFine(calls), NEW p, NEW ms, MailFine(ms), Page' = p,
         Show(p, calls, ms, words, join),
         join.busy /\ p = Page => Page = "join" /\ IsPending(calls, ms)
  PROVE  BusyInv'
<1>1. CASE p = Page
  <2>1. calls' = calls /\ mail' = ms /\ join' = join
    BY <1>1 DEF Show, Kept
  <2> QED
    BY <1>1, <2>1 DEF BusyInv
<1>2. CASE p # Page
  BY <1>2 DEF Show, Blank, BusyInv
<1> QED
  BY <1>1, <1>2

LEMMA NavigatedBusy ==
  ASSUME HistoryFine, CallsFine(calls), NEW p \in Pages, NEW ms, MailFine(ms), NavigateTo(p, ms),
         join.busy /\ p = Page => Page = "join" /\ IsPending(calls, ms)
  PROVE  BusyInv'
<1>1. Page' = p
  BY PushedPage DEF NavigateTo, HistoryFine, Page
<1> QED
  BY <1>1, ShownBusy DEF NavigateTo

(* The same page goes on.                                                   *)
LEMMA GrownBusy ==
  ASSUME CallsFine(calls), NEW ms, MailFine(ms), UNCHANGED stack,
         join'.busy => Page = "join" /\ IsPending(calls, ms),
         NEW c, calls' \in {calls, Append(calls, c)}, NEW m, mail' \in {ms, Append(ms, m)}
  PROVE  BusyInv'
<1>1. CASE IsPending(calls, ms)
  BY <1>1, PendingGrows DEF BusyInv, Page
<1>2. CASE ~IsPending(calls, ms)
  BY <1>2 DEF BusyInv
<1> QED
  BY <1>1, <1>2

LEMMA BusyUserStep ==
  ASSUME AllFine, BusyInv, UserStep
  PROVE  BusyInv'
<1> USE DEF AllFine
<1>0. CallsFine(calls) /\ MailFine(mail) /\ (join.busy => Page = "join" /\ IsPending(calls, mail))
  BY DEF BusyInv
<1>1. CASE Follow
  <2>1. PICK p \in Pages : NavigateTo(p, mail)
    BY <1>1 DEF Follow, Pages
  <2> QED
    BY <1>0, <2>1, NavigatedBusy
<1>2. CASE Back
  <2>1. Page' = stack[Len(stack) - 1]
    BY <1>2 DEF Back, Page, HistoryFine
  <2> QED
    BY <1>0, <1>2, <2>1, ShownBusy DEF Back
<1>3. CASE Choose
  <2>1. join'.busy = join.busy /\ UNCHANGED <<stack, calls, mail>>
    BY <1>3 DEF Choose, PageFine
  <2> QED
    BY <1>0, <2>1, GrownBusy
<1>4. ASSUME UNCHANGED <<stack, join, calls>>, NEW m, mail' \in {mail, Append(mail, m)}
      PROVE  BusyInv'
  BY <1>0, <1>4, GrownBusy
<1>5. CASE Unlock \/ (\E i \in Ids : SubmitCreate(i) \/ SubmitRecover(i))
           \/ \E s \in Servers : DeepLink(s)
  <2>1. UNCHANGED <<stack, join, calls>>
    BY <1>5 DEF Unlock, SubmitCreate, SubmitRecover, DeepLink, local
  <2>2. mail' = mail \/ \E m : mail' = Append(mail, m)
    BY <1>5, Zenon DEF Unlock, SubmitCreate, SubmitRecover, Saved, NotSaved, DeepLink, Ask
  <2> QED
    BY <1>4, <2>1, <2>2
<1>6. CASE AskDevice \/ \E s \in Servers : Connect(s) \/ JoinInvite(s)
  <2>1. PICK c : calls' = Append(calls, c)
    BY <1>6 DEF AskDevice, Connect, JoinInvite
  <2>2. UNCHANGED <<stack, join, mail>>
    BY <1>6 DEF AskDevice, Connect, JoinInvite, local
  <2> QED
    BY <1>0, <2>1, <2>2, GrownBusy
<1>7. CASE Register
  <2>1. Page' = "join"
    BY <1>7 DEF Register, Page
  <2>2. CASE current # None /\ session # None /\ disk # None
    <3> DEFINE c == Call("register", session, current, FALSE)
    <3>1. calls' = Append(calls, c) /\ IsPendingCall(c)
      BY <1>7, <2>2 DEF Register, Call, IsPendingCall
    <3> HIDE DEF c
    <3>2. Len(calls) + 1 \in 1..Len(calls') /\ calls'[Len(calls) + 1] = c
      BY <3>1 DEF CallsFine
    <3>3. IsPending(calls, mail)'
      BY <3>1, <3>2 DEF IsPending, IsPendingCall
    <3> QED
      BY <2>1, <3>3 DEF BusyInv
  <2>3. CASE ~(current # None /\ session # None /\ disk # None)
    <3> DEFINE m == Call("failed", None, None, FALSE)
    <3>1. mail' = Append(mail, m) /\ IsPendingMail(m)
      BY <1>7, <2>3 DEF Register, Call, IsPendingMail
    <3> HIDE DEF m
    <3>2. Len(mail) + 1 \in 1..Len(mail') /\ mail'[Len(mail) + 1] = m
      BY <3>1 DEF MailFine
    <3>3. IsPending(calls, mail)'
      BY <3>1, <3>2 DEF IsPending, IsPendingMail
    <3> QED
      BY <2>1, <3>3 DEF BusyInv
  <2> QED
    BY <2>2, <2>3
<1>8. CASE Restart
  BY <1>8 DEF Restart, Blank, BusyInv
<1> QED
  BY <1>1, <1>2, <1>3, <1>5, <1>6, <1>7, <1>8 DEF UserStep

LEMMA BusyAnswerStep ==
  ASSUME AllFine, BusyInv, NEW k \in DOMAIN calls, Answer(k)
  PROVE  BusyInv'
<1> USE DEF AllFine
<1>1. /\ calls \in Seq(Calls) /\ k \in 1..Len(calls) /\ calls[k] \in Calls
      /\ mail \in Seq(Mail) /\ Len(mail) \in Nat /\ Len(calls) \in Nat
  BY CallAnswered DEF CallsFine, MailFine
<1>2. calls' = Without(calls, k) /\ UNCHANGED <<stack, join>>
  BY DEF Answer, ConnectAnswered, RegisterAnswered, RegisterLost, ChannelsAnswered,
         IdentityReceived, CallFailed,
         Answered, store, local
<1>3. \/ mail' = mail /\ calls[k].kind \in {"connect", "receive"}
      \/ \E kind \in {"registered", "channels", "failed"} :
           mail' = Append(mail, [calls[k] EXCEPT !.kind = kind])
      \/ /\ mail' = Append(mail, [calls[k] EXCEPT !.kind = "connected"])
         /\ calls[k].kind = "connect"
  BY DEF Answer, ConnectAnswered, RegisterAnswered, RegisterLost, ChannelsAnswered,
         IdentityReceived, CallFailed,
         Answered
<1>4. /\ Len(calls') = Len(calls) - 1
      /\ \A i \in 1..(Len(calls) - 1) : calls'[i] = IF i < k THEN calls[i] ELSE calls[i + 1]
  BY <1>1, <1>2, OthersStay
<1>5. Page' = Page
  BY <1>2 DEF Page
<1>6. ASSUME NEW i \in 1..Len(calls), i # k, IsPendingCall(calls[i])
      PROVE  IsPending(calls, mail)'
  <2>1. CASE i < k
    <3>1. i \in 1..Len(calls') /\ calls'[i] = calls[i]
      BY <1>1, <1>4, <2>1
    <3> QED
      BY <1>6, <3>1 DEF IsPending, IsPendingCall
  <2>2. CASE i > k
    <3>1. i - 1 \in 1..Len(calls') /\ calls'[i - 1] = calls[i]
      BY <1>1, <1>4, <2>2
    <3> QED
      BY <1>6, <3>1 DEF IsPending, IsPendingCall
  <2> QED
    BY <1>1, <1>6, <2>1, <2>2
<1>7. ASSUME IsPendingCall(calls[k])
      PROVE  IsPending(calls, mail)'
  <2>1. PICK kind \in {"registered", "channels", "failed"} :
          mail' = Append(mail, [calls[k] EXCEPT !.kind = kind])
    BY <1>3, <1>7 DEF IsPendingCall
  <2> DEFINE m == [calls[k] EXCEPT !.kind = kind]
  <2>2. IsPendingMail(m)
    BY <1>1, <1>7 DEF IsPendingMail, IsPendingCall, Calls
  <2> HIDE DEF m
  <2>3. Len(mail) + 1 \in 1..Len(mail') /\ mail'[Len(mail) + 1] = m
    BY <1>1, <2>1 DEF m
  <2> QED
    BY <2>2, <2>3 DEF IsPending, IsPendingMail
<1>8. ASSUME NEW i \in 1..Len(mail), IsPendingMail(mail[i])
      PROVE  IsPending(calls, mail)'
  <2>1. \E m : mail' \in {mail, Append(mail, m)}
    BY <1>3
  <2>2. i \in 1..Len(mail') /\ mail'[i] = mail[i]
    BY <1>1, <2>1
  <2> QED
    BY <1>8, <2>2 DEF IsPending, IsPendingMail
<1>9. IsPending(calls, mail) => IsPending(calls, mail)'
  BY <1>6, <1>7, <1>8 DEF IsPending
<1> QED
  BY <1>2, <1>5, <1>9 DEF BusyInv

LEMMA BusyReceiveStep ==
  ASSUME AllFine, BusyInv, Receive
  PROVE  BusyInv'
<1> USE DEF AllFine
<1> DEFINE m == Head(mail)
           t == Tail(mail)
<1>1. mail # <<>> /\ m = mail[1] /\ m \in Mail /\ MailFine(t)
  BY MailTaken DEF Receive
<1>2. join.busy => Page = "join" /\ (~IsPendingMail(m) => IsPending(calls, t))
  BY <1>1, PendingAfterFirst DEF BusyInv
<1>3. \/ OnCreated(m) \/ OnRecovered(m) \/ OnUnlocked(m) \/ OnActive(m)
      \/ OnJoinUnlocked(m) \/ OnConnected(m) \/ OnRegistered(m) \/ OnChannels(m)
      \/ OnFailed(m) \/ OnLink(m)
  BY DEF Receive
<1>4. /\ m.kind \notin {"registered", "channels", "failed"} => ~IsPendingMail(m)
      /\ ~m.live => ~IsPendingMail(m)
  BY DEF IsPendingMail
<1> HIDE DEF m, t
<1>5. CASE OnCreated(m) \/ OnUnlocked(m) \/ OnJoinUnlocked(m) \/ OnConnected(m)
  <2>1. ~IsPendingMail(m)
    BY <1>4, <1>5 DEF OnCreated, OnUnlocked, OnJoinUnlocked, OnConnected
  <2>2. /\ UNCHANGED <<stack, calls>> /\ join'.busy = join.busy
        /\ \E a : mail' \in {t, Append(t, a)}
    BY <1>5 DEF OnCreated, OnUnlocked, OnJoinUnlocked, OnConnected, local, PageFine, m, t
  <2> QED
    BY <1>1, <1>2, <2>1, <2>2, GrownBusy
<1>6. CASE OnRecovered(m) \/ OnActive(m) \/ OnChannels(m)
  <2>1. PICK p \in Pages : NavigateTo(p, t) /\ (m.kind = "channels" => p = "app")
    BY <1>6 DEF OnRecovered, OnActive, OnChannels, Pages, t
  <2>2. m.kind \in {"recovered", "active", "channels"}
    BY <1>6 DEF OnRecovered, OnActive, OnChannels
  <2>3. join.busy /\ p = Page => Page = "join" /\ IsPending(calls, t)
    BY <1>2, <1>4, <2>1, <2>2
  <2> QED
    BY <1>1, <2>1, <2>3, NavigatedBusy
<1>7. CASE OnRegistered(m)
  <2> DEFINE c == [m EXCEPT !.kind = "channels"]
  <2>1. mail' = t /\ calls' = Append(calls, c) /\ UNCHANGED <<stack, join>>
    BY <1>7 DEF OnRegistered, store, local, t
  <2>2. CASE m.live
    <3>1. IsPendingCall(c)
      BY <1>1, <2>2 DEF IsPendingCall, Mail
    <3> HIDE DEF c
    <3>2. Len(calls) + 1 \in 1..Len(calls') /\ calls'[Len(calls) + 1] = c
      BY <2>1 DEF CallsFine
    <3>3. IsPending(calls, mail)'
      BY <3>1, <3>2 DEF IsPending, IsPendingCall
    <3> QED
      BY <1>2, <2>1, <3>3 DEF BusyInv, Page
  <2>3. CASE ~m.live
    <3> HIDE DEF c
    <3> QED
      BY <1>1, <1>2, <1>4, <2>1, <2>3, GrownBusy
  <2> QED
    BY <1>1, <2>2, <2>3 DEF Mail
<1>8. CASE OnFailed(m)
  <2>1. mail' = t /\ UNCHANGED <<stack, calls>>
    BY <1>8 DEF OnFailed, store, t
  <2>2. join'.busy => join.busy /\ ~m.live
    BY <1>8 DEF OnFailed, PageFine
  <2> QED
    BY <1>1, <1>2, <1>4, <2>1, <2>2, GrownBusy
<1>9. CASE OnLink(m)
  <2>1. m.kind = "link" /\ calls' = Kept("join", calls) /\ mail' = Kept("join", t)
    BY <1>9 DEF OnLink, t
  <2>2. CASE Page = "join"
    <3>1. calls' = calls /\ mail' = t
      BY <2>1, <2>2 DEF Kept
    <3>2. Page' = "join"
      BY <1>9, PushedPage DEF OnLink, HistoryFine, Page, Pages
    <3>3. join'.busy = join.busy
      BY <1>9, <2>2 DEF OnLink, PageFine
    <3> QED
      BY <1>2, <1>4, <2>1, <3>1, <3>2, <3>3 DEF BusyInv
  <2>3. CASE Page # "join"
    BY <1>9, <2>3 DEF OnLink, Blank, BusyInv
  <2> QED
    BY <2>2, <2>3
<1> QED
  BY <1>3, <1>5, <1>6, <1>7, <1>8, <1>9

(* While the button is disabled, something that will enable it or leave the *)
(* page is on its way to this very page, whatever other pages still wait.   *)
THEOREM BusyIsAlwaysAnswered == OnboardingSpec => []BusyIsAnswered
<1>1. OnboardingInit => BusyInv
  BY DEF OnboardingInit, Blank, BusyInv
<1>2. AllFine /\ BusyInv /\ [OnboardingNext]_onboardingVars => BusyInv'
  <2> SUFFICES ASSUME AllFine, BusyInv, [OnboardingNext]_onboardingVars PROVE BusyInv'
    OBVIOUS
  <2>1. CASE UNCHANGED onboardingVars
    BY <2>1 DEF onboardingVars, BusyInv, IsPending, IsPendingCall, IsPendingMail, Page
  <2> QED
    BY <2>1, BusyUserStep, BusyAnswerStep, BusyReceiveStep DEF OnboardingNext, Answer
<1> QED
  BY <1>1, <1>2, OnboardingFine, BusySuffices, PTL DEF OnboardingSpec
==============================================================================
