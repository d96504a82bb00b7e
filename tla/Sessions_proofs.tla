--------------------------- MODULE Sessions_proofs ---------------------------
(***************************************************************************)
(* Proofs about module Sessions, for any requests, challenges and keys and  *)
(* any number of rotations.                                                 *)
(***************************************************************************)
EXTENDS Sessions, TLAPS

USE GenesisAssumption, MaxRecordsAssumption, FreeAssumption, NoChallengeAssumption
    DEF PC, InFlight, GoTo, loginVars, keyVars

(* What the steps need to know of a record sequence.                         *)
LEMMA MarkKeepsChain ==
  ASSUME chain \in Seq(Record), NEW i \in DOMAIN chain,
         NEW st \in {"pending", "settled", "cancelled"}
  PROVE  [chain EXCEPT ![i].status = st] \in Seq(Record)
<1>1. chain \in [1..Len(chain) -> Record] /\ Len(chain) \in Nat
  OBVIOUS
<1>2. [chain[i] EXCEPT !.status = st] \in Record
  BY <1>1 DEF Record
<1>3. [chain EXCEPT ![i].status = st] \in [1..Len(chain) -> Record]
  BY <1>1, <1>2
<1> QED
  BY <1>1, <1>3

LEMMA TypeInit == Init => TypeOK
<1> SUFFICES ASSUME Init PROVE TypeOK
  OBVIOUS
<1>1. chain \in Seq(Record) /\ past \in [Requests -> SUBSET Nat]
  BY DEF Init
<1>2. pc \in [Requests -> PC] /\ target \in [Requests -> Keys]
  BY DEF Init
<1>3. /\ challenges \in [Challenges -> {"none", "fresh", "stale", "removed"}]
      /\ root \in [Requests -> Challenges \cup {NoChallenge}]
  BY DEF Init
<1> QED
  BY <1>1, <1>2, <1>3 DEF Init, TypeOK

LEMMA TypeStep == TypeOK /\ [Next]_vars => TypeOK'
<1> SUFFICES ASSUME TypeOK, [Next]_vars PROVE TypeOK'
  OBVIOUS
<1> USE DEF TypeOK
<1>1. ASSUME NEW ch \in Challenges, IssueChallenge(ch) \/ ChallengeExpires(ch)
      PROVE  TypeOK'
  BY <1>1 DEF IssueChallenge, ChallengeExpires
<1>2. ASSUME NEW r \in Requests, NEW ch \in Challenges, Verify(r, ch) PROVE TypeOK'
  BY <1>2 DEF Verify
<1>3. ASSUME NEW r \in Requests, NEW t \in Requests, Consume(r, t) PROVE TypeOK'
  BY <1>3 DEF Consume
<1>4. ASSUME NEW r \in Requests, Issue(r) \/ Store(r) \/ Abandon(r) \/ TokenExpires(r)
      PROVE  TypeOK'
  BY <1>4 DEF Issue, Store, Abandon, TokenExpires
<1>5. ASSUME NEW r \in Requests, NEW place, Ask(r, place) PROVE TypeOK'
  <2>1. Indices("settled") \in SUBSET Nat
    BY DEF Indices
  <2> QED
    BY <1>5, <2>1 DEF Ask
<1>6. ASSUME NEW r \in Requests, NEW prev \in Keys, NEW new \in Keys, Rotate(r, prev, new)
      PROVE  TypeOK'
  <2>1. [prev |-> prev, new |-> new, status |-> "pending"] \in Record
    BY DEF Record
  <2>2. Append(chain, [prev |-> prev, new |-> new, status |-> "pending"]) \in Seq(Record)
    BY <2>1
  <2>3. CASE UNCHANGED <<chain, target, lock>>
    BY <1>6, <2>3 DEF Rotate
  <2>4. CASE /\ chain' = Append(chain, [prev |-> prev, new |-> new, status |-> "pending"])
             /\ target' = [target EXCEPT ![r] = new]
             /\ lock' = r
    BY <1>6, <2>2, <2>4 DEF Rotate
  <2> QED
    BY <1>6, <2>3, <2>4 DEF Rotate
<1>7. ASSUME NEW r \in Requests, Cancel(r) PROVE TypeOK'
  <2>1. CASE UNCHANGED <<chain, target, lock>>
    BY <1>7, <2>1 DEF Cancel
  <2>2. ASSUME NEW i \in Active(r),
               chain' = [chain EXCEPT ![i].status = "cancelled"],
               target' = [target EXCEPT ![r] = chain[i].prev],
               lock' = r
        PROVE  TypeOK'
    <3>1. i \in DOMAIN chain
      BY DEF Active
    <3>2. chain' \in Seq(Record)
      BY <2>2, <3>1, MarkKeepsChain
    <3>3. chain[i] \in Record
      BY <3>1
    <3>4. chain[i].prev \in Keys
      BY <3>3 DEF Record
    <3> QED
      BY <1>7, <2>2, <3>2, <3>4 DEF Cancel
  <2> QED
    BY <1>7, <2>1, <2>2 DEF Cancel
<1>8. ASSUME NEW r \in Requests, SwitchKey(r) \/ DeleteTokens(r) \/ StatementFails(r)
      PROVE  TypeOK'
  <2>1. CASE SwitchKey(r)
    BY <2>1 DEF SwitchKey
  <2>2. CASE DeleteTokens(r)
    BY <2>2 DEF DeleteTokens
  <2>3. CASE StatementFails(r)
    BY <2>3 DEF StatementFails
  <2> QED
    BY <1>8, <2>1, <2>2, <2>3
<1>9. ASSUME NEW i \in 1..MaxRecords, DeadlinePasses(i) PROVE TypeOK'
  BY <1>9, MarkKeepsChain DEF DeadlinePasses, Indices
<1>10. CASE Restart
  BY <1>10 DEF Restart
<1>11. CASE UNCHANGED vars
  BY <1>11 DEF vars
<1> QED
  BY <1>1, <1>2, <1>3, <1>4, <1>5, <1>6, <1>7, <1>8, <1>9, <1>10, <1>11 DEF Next

(* The type invariant of the sessions.                                       *)
THEOREM TypeCorrect == Spec => []TypeOK
  BY TypeInit, TypeStep, PTL DEF Spec

-----------------------------------------------------------------------------
(* A request that has or makes a token goes back to a challenge that has been *)
(* taken out of the map; one that has not begun has no token.                 *)
RootInv ==
  /\ \A r \in Requests :
       /\ InFlight(r) \/ r \in tokens => root[r] \in Challenges
       /\ root[r] \in Challenges => challenges[root[r]] = "removed"
       /\ r \in tokens => pc[r] \in {"done", "lost"}
  /\ OneTokenPerChallenge

LEMMA RootStep == TypeOK /\ RootInv /\ [Next]_vars => RootInv'
<1> SUFFICES ASSUME TypeOK, RootInv, [Next]_vars PROVE RootInv'
  OBVIOUS
<1> USE DEF TypeOK, RootInv, OneTokenPerChallenge
<1>1. ASSUME NEW ch \in Challenges, IssueChallenge(ch) \/ ChallengeExpires(ch)
      PROVE  RootInv'
  BY <1>1 DEF IssueChallenge, ChallengeExpires
<1>2. ASSUME NEW r \in Requests, NEW ch \in Challenges, Verify(r, ch) PROVE RootInv'
  BY <1>2 DEF Verify
<1>3. ASSUME NEW r \in Requests, NEW t \in Requests, Consume(r, t) PROVE RootInv'
  BY <1>3 DEF Consume
<1>4. ASSUME NEW r \in Requests, Issue(r) \/ Store(r) \/ Abandon(r) \/ TokenExpires(r)
      PROVE  RootInv'
  BY <1>4 DEF Issue, Store, Abandon, TokenExpires
<1>5. ASSUME NEW r \in Requests, NEW place, Ask(r, place) PROVE RootInv'
  BY <1>5 DEF Ask
<1>6. ASSUME NEW r \in Requests, NEW prev \in Keys, NEW new \in Keys, Rotate(r, prev, new)
      PROVE  RootInv'
  <2>1. UNCHANGED loginVars
    BY <1>6 DEF Rotate
  <2>2. \A h \in Requests : InFlight(h)' => InFlight(h)
    BY <1>6 DEF Rotate
  <2>3. \A h \in tokens : pc'[h] = pc[h]
    BY <1>6 DEF Rotate
  <2> QED
    BY <2>1, <2>2, <2>3
<1>7. ASSUME NEW r \in Requests, Cancel(r) PROVE RootInv'
  BY <1>7 DEF Cancel
<1>8. ASSUME NEW r \in Requests, SwitchKey(r) \/ DeleteTokens(r) \/ StatementFails(r)
      PROVE  RootInv'
  BY <1>8 DEF SwitchKey, DeleteTokens, StatementFails
<1>9. ASSUME NEW i \in 1..MaxRecords, DeadlinePasses(i) PROVE RootInv'
  BY <1>9 DEF DeadlinePasses
<1>10. CASE Restart
  BY <1>10 DEF Restart
<1>11. CASE UNCHANGED vars
  BY <1>11 DEF vars
<1> QED
  BY <1>1, <1>2, <1>3, <1>4, <1>5, <1>6, <1>7, <1>8, <1>9, <1>10, <1>11 DEF Next

(* However challenges and refresh tokens are presented, repeated, abandoned   *)
(* and interrupted by restarts, a challenge never has two tokens.             *)
THEOREM OneToken == Spec => []OneTokenPerChallenge
<1>1. Init => RootInv
  BY DEF Init, RootInv, OneTokenPerChallenge
<1>2. RootInv => OneTokenPerChallenge
  BY DEF RootInv
<1> QED
  BY <1>1, <1>2, TypeInit, TypeStep, RootStep, PTL DEF Spec

-----------------------------------------------------------------------------
(* A record pending now was not yet over for any request that has read its    *)
(* clock, and no request's clock knows of records still to come.              *)
PendingInv ==
  /\ \A r \in Requests :
       past[r] \subseteq DOMAIN chain /\ past[r] \cap Indices("pending") = {}
  /\ AtMostOnePending

LEMMA PendingStep == TypeOK /\ PendingInv /\ [Next]_vars => PendingInv'
<1> SUFFICES ASSUME TypeOK, PendingInv, [Next]_vars PROVE PendingInv'
  OBVIOUS
<1> USE DEF TypeOK, PendingInv, AtMostOnePending, Indices
<1>1. ASSUME NEW r \in Requests, NEW place, Ask(r, place) PROVE PendingInv'
  BY <1>1 DEF Ask
<1>2. ASSUME NEW r \in Requests, NEW prev \in Keys, NEW new \in Keys, Rotate(r, prev, new)
      PROVE  PendingInv'
  <2>1. CASE UNCHANGED chain
    BY <1>2, <2>1 DEF Rotate
  <2>2. CASE /\ Active(r) = {}
             /\ chain' = Append(chain, [prev |-> prev, new |-> new, status |-> "pending"])
    <3>1. Indices("pending") = {}
      BY <2>2 DEF Active
    <3>2. /\ DOMAIN chain = 1..Len(chain) /\ Len(chain) \in Nat
          /\ DOMAIN chain' = 1..(Len(chain) + 1)
          /\ \A i \in DOMAIN chain : chain'[i] = chain[i]
      BY <2>2
    <3>3. Indices("pending")' \subseteq {Len(chain) + 1}
      BY <3>1, <3>2
    <3>4. past' = past
      BY <1>2 DEF Rotate
    <3>5. ASSUME NEW q \in Requests
          PROVE  past'[q] \subseteq DOMAIN chain' /\ past'[q] \cap Indices("pending")' = {}
      BY <3>2, <3>3, <3>4
    <3> QED
      BY <3>3, <3>5
  <2> QED
    BY <1>2, <2>1, <2>2 DEF Rotate
<1>3. ASSUME NEW i \in DOMAIN chain, NEW st \in {"settled", "cancelled"},
             chain' = [chain EXCEPT ![i].status = st], past' = past
      PROVE  PendingInv'
  <2>1. DOMAIN chain' = DOMAIN chain
    BY <1>3
  <2>2. chain[i] \in Record
    OBVIOUS
  <2>3. chain'[i] = [chain[i] EXCEPT !.status = st]
    BY <1>3
  <2>4. chain'[i].status = st /\ \A j \in DOMAIN chain \ {i} : chain'[j] = chain[j]
    BY <1>3, <2>2, <2>3 DEF Record
  <2>5. Indices("pending")' \subseteq Indices("pending")
    BY <2>1, <2>4
  <2> QED
    BY <1>3, <2>1, <2>5
<1>4. ASSUME NEW r \in Requests, Cancel(r) PROVE PendingInv'
  <2>1. CASE UNCHANGED chain
    BY <1>4, <2>1 DEF Cancel
  <2>2. ASSUME NEW i \in Active(r), chain' = [chain EXCEPT ![i].status = "cancelled"]
        PROVE  PendingInv'
    BY <1>3, <1>4, <2>2 DEF Cancel, Active
  <2> QED
    BY <1>4, <2>1, <2>2 DEF Cancel
<1>5. ASSUME NEW i \in 1..MaxRecords, DeadlinePasses(i) PROVE PendingInv'
  BY <1>3, <1>5 DEF DeadlinePasses
<1>6. CASE UNCHANGED <<chain, past>>
  BY <1>6
<1>7. ASSUME NEW ch \in Challenges, IssueChallenge(ch) \/ ChallengeExpires(ch)
      PROVE  UNCHANGED <<chain, past>>
  BY <1>7 DEF IssueChallenge, ChallengeExpires
<1>8. ASSUME NEW r \in Requests, NEW ch \in Challenges, Verify(r, ch)
      PROVE  UNCHANGED <<chain, past>>
  BY <1>8 DEF Verify
<1>9. ASSUME NEW r \in Requests, NEW t \in Requests, Consume(r, t)
      PROVE  UNCHANGED <<chain, past>>
  BY <1>9 DEF Consume
<1>10. ASSUME NEW r \in Requests,
              \/ Issue(r) \/ Store(r) \/ Abandon(r) \/ TokenExpires(r)
              \/ SwitchKey(r) \/ DeleteTokens(r) \/ StatementFails(r)
       PROVE  UNCHANGED <<chain, past>>
  BY <1>10 DEF Issue, Store, Abandon, TokenExpires, SwitchKey, DeleteTokens,
     StatementFails
<1>11. CASE Restart \/ UNCHANGED vars
  BY <1>11 DEF Restart, vars
<1> QED
  BY <1>1, <1>2, <1>4, <1>5, <1>6, <1>7, <1>8, <1>9, <1>10, <1>11 DEF Next

(* Two rotations are never in their cancellation window together, for any     *)
(* number of requests that read the clock early and get the mutex late.       *)
THEOREM OnePending == Spec => []AtMostOnePending
<1>1. Init => PendingInv
  BY DEF Init, PendingInv, AtMostOnePending, Indices
<1>2. PendingInv => AtMostOnePending
  BY DEF PendingInv
<1> QED
  BY <1>1, <1>2, TypeInit, TypeStep, PendingStep, PTL DEF Spec

-----------------------------------------------------------------------------
(* What the key has to agree with: the records that were not cancelled, and   *)
(* the key that those before record n end in.                                 *)
Live == {i \in DOMAIN chain : chain[i].status # "cancelled"}

EndsIn(n, k) ==
  \/ k = Genesis /\ \A i \in Live : i >= n
  \/ \E i \in Live : i < n /\ k = chain[i].new /\ \A j \in Live : j < n => j <= i

(* Only who runs one of the two closures holds the mutex.                     *)
HolderInv ==
  \A r \in Requests : pc[r] \in {"recorded", "switched"} <=> lock = r

(* A record is only inserted when all before it are over or cancelled, and    *)
(* no clock that is beyond a record is before an older one: the newest active *)
(* record is the newest of all that stand.                                    *)
EarlierAreOver ==
  \A j \in DOMAIN chain : \A i \in Live : i < j => chain[i].status = "settled"

ClocksAreInOrder ==
  \A r \in Requests : \A j \in past[r] : \A i \in Live : i < j => i \in past[r]

(* The records that stand are a chain, and the key is its end, or will be     *)
(* when the holder of the mutex has written it.                               *)
Linked == \A i \in Live : EndsIn(i, chain[i].prev)

KeyIsDue ==
  EndsIn(Len(chain) + 1,
         IF lock \in Requests /\ pc[lock] = "recorded" THEN target[lock] ELSE key)

ChainInv ==
  /\ PendingInv /\ HolderInv /\ EarlierAreOver /\ ClocksAreInOrder
  /\ ~torn => Linked /\ KeyIsDue

LEMMA HolderStep == TypeOK /\ HolderInv /\ [Next]_vars => HolderInv'
<1> SUFFICES ASSUME TypeOK, HolderInv, [Next]_vars PROVE HolderInv'
  OBVIOUS
<1> USE DEF TypeOK, HolderInv
<1>1. ASSUME NEW r \in Requests, NEW place \in PC \ {"recorded", "switched"},
             pc[r] \notin {"recorded", "switched"}, GoTo(r, place), lock' = lock
      PROVE  HolderInv'
  BY <1>1
<1>2. ASSUME NEW r \in Requests, NEW ch \in Challenges, Verify(r, ch) PROVE HolderInv'
  BY <1>1, <1>2 DEF Verify
<1>3. ASSUME NEW r \in Requests, NEW t \in Requests, Consume(r, t) PROVE HolderInv'
  BY <1>1, <1>3 DEF Consume
<1>4. ASSUME NEW r \in Requests, Issue(r) \/ Store(r) \/ Abandon(r) PROVE HolderInv'
  BY <1>1, <1>4 DEF Issue, Store, Abandon
<1>5. ASSUME NEW r \in Requests, NEW place, Ask(r, place) PROVE HolderInv'
  BY <1>1, <1>5 DEF Ask
<1>6. ASSUME NEW r \in Requests, lock = Free, lock' = r, GoTo(r, "recorded") PROVE HolderInv'
  BY <1>6
<1>7. ASSUME NEW r \in Requests, NEW prev \in Keys, NEW new \in Keys, Rotate(r, prev, new)
      PROVE  HolderInv'
  BY <1>1, <1>6, <1>7 DEF Rotate
<1>8. ASSUME NEW r \in Requests, Cancel(r) PROVE HolderInv'
  BY <1>1, <1>6, <1>8 DEF Cancel
<1>9. ASSUME NEW r \in Requests, SwitchKey(r) PROVE HolderInv'
  BY <1>9 DEF SwitchKey
<1>10. ASSUME NEW r \in Requests, DeleteTokens(r) \/ StatementFails(r) PROVE HolderInv'
  <2>1. pc[r] \in {"recorded", "switched"} /\ lock = r
    BY <1>10 DEF DeleteTokens, StatementFails
  <2>2. /\ lock' = Free /\ pc'[r] \notin {"recorded", "switched"}
        /\ \A q \in Requests \ {r} : pc'[q] = pc[q]
    BY <1>10 DEF DeleteTokens, StatementFails
  <2> QED
    BY <2>1, <2>2
<1>11. CASE Restart
  BY <1>11 DEF Restart
<1>12. CASE UNCHANGED <<pc, lock>>
  BY <1>12
<1>13. ASSUME NEW ch \in Challenges, IssueChallenge(ch) \/ ChallengeExpires(ch)
       PROVE  UNCHANGED <<pc, lock>>
  BY <1>13 DEF IssueChallenge, ChallengeExpires
<1>14. ASSUME NEW t \in Requests, TokenExpires(t) PROVE UNCHANGED <<pc, lock>>
  BY <1>14 DEF TokenExpires
<1>15. ASSUME NEW i \in 1..MaxRecords, DeadlinePasses(i) PROVE UNCHANGED <<pc, lock>>
  BY <1>15 DEF DeadlinePasses
<1>16. CASE UNCHANGED vars
  BY <1>12, <1>16 DEF vars
<1> QED
  BY <1>2, <1>3, <1>4, <1>5, <1>7, <1>8, <1>9, <1>10, <1>11, <1>12, <1>13, <1>14,
     <1>15, <1>16 DEF Next

(* What the key before a record is only depends on the records before it.     *)
LEMMA SameBefore ==
  ASSUME chain \in Seq(Record), chain' \in Seq(Record), NEW n \in Nat, NEW k,
         \A i \in Nat : i < n => (i \in Live' <=> i \in Live),
         \A i \in Live : i < n => chain'[i].new = chain[i].new,
         EndsIn(n, k)
  PROVE  EndsIn(n, k)'
<1>1. Live \subseteq Nat /\ Live' \subseteq Nat
  BY DEF Live
<1>2. CASE k = Genesis /\ \A i \in Live : i >= n
  BY <1>1, <1>2 DEF EndsIn
<1>3. ASSUME NEW i \in Live, i < n, k = chain[i].new, \A j \in Live : j < n => j <= i
      PROVE  EndsIn(n, k)'
  <2>1. i \in Live' /\ i < n /\ k = chain'[i].new /\ \A j \in Live' : j < n => j <= i
    BY <1>1, <1>3
  <2> QED
    BY <2>1 DEF EndsIn
<1> QED
  BY <1>2, <1>3 DEF EndsIn

(* Only a status changes.                                                     *)
LEMMA MarkOne ==
  ASSUME chain \in Seq(Record), NEW i \in DOMAIN chain,
         NEW st \in {"pending", "settled", "cancelled"},
         chain' = [chain EXCEPT ![i].status = st]
  PROVE  /\ chain' \in Seq(Record)
         /\ DOMAIN chain' = DOMAIN chain /\ Len(chain') = Len(chain)
         /\ \A j \in DOMAIN chain : /\ chain'[j].prev = chain[j].prev
                                    /\ chain'[j].new = chain[j].new
                                    /\ j # i => chain'[j].status = chain[j].status
         /\ chain'[i].status = st
<1>1. chain' \in Seq(Record)
  BY MarkKeepsChain
<1>2. DOMAIN chain' = DOMAIN chain /\ Len(chain') = Len(chain)
  BY <1>1
<1>3. chain[i] \in Record
  OBVIOUS
<1>4. chain'[i] = [chain[i] EXCEPT !.status = st] /\ \A j \in DOMAIN chain \ {i} : chain'[j] = chain[j]
  OBVIOUS
<1>5. /\ chain'[i].prev = chain[i].prev /\ chain'[i].new = chain[i].new
      /\ chain'[i].status = st
  BY <1>3, <1>4 DEF Record
<1> QED
  BY <1>1, <1>2, <1>4, <1>5

LEMMA RecordAdded ==
  ASSUME chain \in Seq(Record), NEW e \in Record, chain' = Append(chain, e)
  PROVE  /\ chain' \in Seq(Record) /\ Len(chain) \in Nat /\ Len(chain') = Len(chain) + 1
         /\ DOMAIN chain = 1..Len(chain) /\ DOMAIN chain' = 1..Len(chain')
         /\ \A j \in DOMAIN chain : chain'[j] = chain[j]
         /\ chain'[Len(chain')] = e
  OBVIOUS

(* The order of the records and of the clocks.                                *)
OrderInv == EarlierAreOver /\ ClocksAreInOrder

LEMMA RotateKeepsChain ==
  ASSUME TypeOK, ChainInv, NEW r \in Requests, NEW prev \in Keys, NEW new \in Keys,
         Rotate(r, prev, new), chain' # chain
  PROVE  OrderInv' /\ (~torn' => Linked' /\ KeyIsDue')
<1> DEFINE e == [prev |-> prev, new |-> new, status |-> "pending"]
<1>1. /\ prev = key /\ Active(r) = {} /\ lock = Free
      /\ chain' = Append(chain, e)
      /\ target' = [target EXCEPT ![r] = new] /\ lock' = r /\ pc' = [pc EXCEPT ![r] = "recorded"]
      /\ UNCHANGED <<key, past, torn>>
  BY DEF Rotate
<1>2. chain \in Seq(Record) /\ e \in Record
  BY DEF TypeOK, Record
<1>3. /\ chain' \in Seq(Record) /\ Len(chain) \in Nat /\ Len(chain') = Len(chain) + 1
      /\ DOMAIN chain = 1..Len(chain) /\ DOMAIN chain' = 1..Len(chain')
      /\ \A j \in DOMAIN chain : chain'[j] = chain[j]
      /\ chain'[Len(chain')] = e
  BY <1>1, <1>2, RecordAdded
<1>9. e.prev = key /\ e.new = new /\ e.status # "cancelled"
  BY <1>1
<1> HIDE DEF e
<1>4. /\ Live' = Live \cup {Len(chain')} /\ Live \subseteq 1..Len(chain)
  BY <1>3, <1>9 DEF Live
<1>5. \A i \in Live : chain[i].status = "settled"
  <2>1. \A i \in Live : i \in past[r]
    BY <1>1 DEF Active, Live
  <2>2. past[r] \cap Indices("pending") = {}
    BY DEF ChainInv, PendingInv
  <2>3. \A i \in DOMAIN chain : chain[i] \in Record
    BY <1>2
  <2> QED
    BY <2>1, <2>2, <2>3 DEF Live, Indices, Record
<1>6. EarlierAreOver'
  <2>1. ASSUME NEW j \in DOMAIN chain', NEW i \in Live', i < j
        PROVE  chain'[i].status = "settled"
    <3>1. i \in Live
      BY <1>3, <1>4, <2>1
    <3>2. chain'[i] = chain[i]
      BY <1>3, <1>4, <3>1
    <3> QED
      BY <1>5, <3>1, <3>2
  <2> QED
    BY <2>1 DEF EarlierAreOver
<1>7. ClocksAreInOrder'
  <2>1. \A q \in Requests : past'[q] \subseteq 1..Len(chain)
    BY <1>1, <1>3 DEF ChainInv, PendingInv
  <2>2. past' = past /\ Len(chain') = Len(chain) + 1 /\ Len(chain) \in Nat
    BY <1>1, <1>3
  <2>3. ASSUME NEW q \in Requests, NEW j \in past'[q], NEW i \in Live', i < j
        PROVE  i \in past'[q]
    <3>1. j \in 1..Len(chain)
      BY <2>1, <2>3
    <3>2. i \in Live
      BY <1>4, <2>2, <2>3, <3>1
    <3> QED
      BY <2>2, <2>3, <3>2 DEF ChainInv, ClocksAreInOrder
  <2> QED
    BY <2>3 DEF ClocksAreInOrder
<1>8. ASSUME ~torn' PROVE Linked' /\ KeyIsDue'
  <2>1. Linked /\ KeyIsDue
    BY <1>1, <1>8 DEF ChainInv
  <2>2. ASSUME NEW n \in Nat, NEW k, n <= Len(chain'), EndsIn(n, k) PROVE EndsIn(n, k)'
    <3>1. \A i \in Nat : i < n => (i \in Live' <=> i \in Live)
      BY <1>3, <1>4, <2>2
    <3>2. \A i \in Live : i < n => chain'[i].new = chain[i].new
      BY <1>3, <1>4
    <3> QED
      BY <1>2, <1>3, <2>2, <3>1, <3>2, SameBefore
  <2>3. ASSUME NEW n \in Nat, n = Len(chain'), NEW k, k = key PROVE EndsIn(n, k)'
    <3>1. EndsIn(n, k)
      BY <1>1, <1>3, <2>1, <2>3, FreeAssumption DEF KeyIsDue
    <3> QED
      BY <2>2, <2>3, <3>1
  <2>4. ASSUME NEW i \in Live' PROVE EndsIn(i, chain[i].prev)'
    <3>1. i \in Nat /\ i <= Len(chain')
      BY <1>3, <1>4
    <3>2. CASE i = Len(chain')
      <4>1. chain'[i].prev = key
        BY <1>3, <1>9, <3>2
      <4> QED
        BY <2>3, <3>1, <3>2, <4>1 DEF EndsIn
    <3>3. CASE i # Len(chain')
      <4>1. i \in Live /\ chain'[i] = chain[i]
        BY <1>3, <1>4, <3>3
      <4>2. EndsIn(i, chain[i].prev)
        BY <2>1, <4>1 DEF Linked
      <4>3. \A k : EndsIn(i, k) => EndsIn(i, k)'
        BY <2>2, <3>1
      <4> QED
        BY <4>1, <4>2, <4>3 DEF EndsIn
    <3> QED
      BY <3>2, <3>3
  <2>5. KeyIsDue'
    <3>1. /\ lock' \in Requests /\ pc'[lock'] = "recorded" /\ target'[lock'] = new
      BY <1>1 DEF TypeOK
    <3>2. /\ Len(chain') \in Live' /\ Len(chain') < Len(chain') + 1
          /\ chain'[Len(chain')].new = new
          /\ \A j \in Live' : j < Len(chain') + 1 => j <= Len(chain')
      BY <1>3, <1>4, <1>9
    <3> QED
      BY <3>1, <3>2 DEF KeyIsDue, EndsIn
  <2> QED
    BY <2>4, <2>5 DEF Linked
<1> QED
  BY <1>6, <1>7, <1>8 DEF OrderInv

LEMMA CancelKeepsChain ==
  ASSUME TypeOK, ChainInv, NEW r \in Requests, Cancel(r), chain' # chain
  PROVE  OrderInv' /\ (~torn' => Linked' /\ KeyIsDue')
<1>1. PICK i \in Active(r) :
        /\ \A j \in Active(r) : j <= i
        /\ chain' = [chain EXCEPT ![i].status = "cancelled"]
        /\ target' = [target EXCEPT ![r] = chain[i].prev]
        /\ lock' = r /\ pc' = [pc EXCEPT ![r] = "recorded"]
  BY DEF Cancel
<1>2. /\ chain \in Seq(Record) /\ DOMAIN chain = 1..Len(chain) /\ Len(chain) \in Nat
      /\ UNCHANGED <<key, past, torn>>
  BY DEF TypeOK, Cancel
<1>3. i \in Live /\ i \in DOMAIN chain /\ i \notin past[r]
  BY <1>1 DEF Active, Live
<1>4. /\ chain' \in Seq(Record)
      /\ DOMAIN chain' = DOMAIN chain /\ Len(chain') = Len(chain)
      /\ \A j \in DOMAIN chain : /\ chain'[j].prev = chain[j].prev
                                 /\ chain'[j].new = chain[j].new
                                 /\ j # i => chain'[j].status = chain[j].status
      /\ chain'[i].status = "cancelled"
  BY <1>1, <1>2, <1>3, MarkOne
<1>5. Live' = Live \ {i} /\ Live \subseteq 1..Len(chain)
  BY <1>2, <1>4 DEF Live
(* The record that is taken back is the newest that stands.                   *)
<1>6. \A j \in Live : j <= i
  <2> SUFFICES ASSUME NEW j \in Live, i < j PROVE FALSE
    BY <1>2, <1>3, <1>5
  <2>1. j \in past[r]
    BY <1>1, <1>2, <1>5 DEF Active, Live
  <2> QED
    BY <1>3, <2>1 DEF ChainInv, ClocksAreInOrder
<1>7. EarlierAreOver'
  BY <1>2, <1>4, <1>5 DEF ChainInv, EarlierAreOver
<1>8. ClocksAreInOrder'
  BY <1>2, <1>5 DEF ChainInv, ClocksAreInOrder
<1>9. ASSUME ~torn' PROVE Linked' /\ KeyIsDue'
  <2>1. Linked
    BY <1>2, <1>9 DEF ChainInv
  <2>2. ASSUME NEW n \in Nat, NEW k, n <= i, EndsIn(n, k) PROVE EndsIn(n, k)'
    <3>1. \A j \in Nat : j < n => (j \in Live' <=> j \in Live)
      BY <1>2, <1>3, <1>5, <2>2
    <3>2. \A j \in Live : j < n => chain'[j].new = chain[j].new
      BY <1>4, <1>5, <1>2
    <3> QED
      BY <1>2, <1>4, <2>2, <3>1, <3>2, SameBefore
  <2>3. ASSUME NEW j \in Live' PROVE EndsIn(j, chain[j].prev)'
    <3>1. j \in Live /\ j \in Nat /\ j <= i /\ chain'[j].prev = chain[j].prev
      BY <1>2, <1>4, <1>5, <1>6
    <3>2. EndsIn(j, chain[j].prev)
      BY <2>1, <3>1 DEF Linked
    <3>3. \A k : EndsIn(j, k) => EndsIn(j, k)'
      BY <2>2, <3>1
    <3> QED
      BY <3>1, <3>2, <3>3 DEF EndsIn
  <2>4. ASSUME NEW k, k = chain[i].prev PROVE EndsIn(Len(chain) + 1, k)'
    <3>1. EndsIn(i, k)
      BY <1>3, <2>1, <2>4 DEF Linked
    <3>2. i \in Nat /\ i <= Len(chain)
      BY <1>2, <1>3
    <3>3. EndsIn(i, k)'
      BY <2>2, <3>1, <3>2
    <3>4. ASSUME NEW j \in Live' PROVE j \in Nat /\ j < i
      <4>1. j \in 1..Len(chain) /\ j <= i /\ j # i
        BY <1>5, <1>6
      <4> QED
        BY <1>2, <3>2, <4>1
    <3>5. Len(chain') = Len(chain) /\ Len(chain) \in Nat
      BY <1>2, <1>4
    <3> QED
      BY <3>2, <3>3, <3>4, <3>5 DEF EndsIn
  <2>5. lock' \in Requests /\ pc'[lock'] = "recorded" /\ target'[lock'] = chain[i].prev
    BY <1>1 DEF TypeOK
  <2>6. KeyIsDue'
    BY <2>4, <2>5 DEF KeyIsDue, EndsIn
  <2> QED
    BY <2>3, <2>6 DEF Linked
<1> QED
  BY <1>7, <1>8, <1>9 DEF OrderInv

(* The steps that leave the records and the key alone.                        *)
LEMMA ChainUntouched ==
  ASSUME ChainInv, UNCHANGED <<key, chain, past, target, lock, torn>>,
         \A r \in Requests : pc'[r] = "recorded" <=> pc[r] = "recorded"
  PROVE  OrderInv' /\ (~torn' => Linked' /\ KeyIsDue')
<1>1. OrderInv'
  BY DEF ChainInv, OrderInv, EarlierAreOver, ClocksAreInOrder, Live
<1>2. Linked => Linked'
  BY DEF Linked, EndsIn, Live
<1>3. \A k : EndsIn(Len(chain) + 1, k) => EndsIn(Len(chain) + 1, k)'
  BY DEF EndsIn, Live
<1>4. KeyIsDue => KeyIsDue'
  <2>1. CASE lock \in Requests /\ pc[lock] = "recorded"
    BY <1>3, <2>1 DEF KeyIsDue, EndsIn
  <2>2. CASE ~(lock \in Requests /\ pc[lock] = "recorded")
    BY <1>3, <2>2 DEF KeyIsDue, EndsIn
  <2> QED
    BY <2>1, <2>2
<1> QED
  BY <1>1, <1>2, <1>4 DEF ChainInv

LEMMA SwitchKeepsChain ==
  ASSUME TypeOK, ChainInv, NEW r \in Requests,
         SwitchKey(r) \/ DeleteTokens(r) \/ StatementFails(r)
  PROVE  OrderInv' /\ (~torn' => Linked' /\ KeyIsDue')
<1>1. lock = r /\ UNCHANGED <<chain, past>>
  BY DEF SwitchKey, DeleteTokens, StatementFails, ChainInv, HolderInv
<1>2. OrderInv'
  BY <1>1 DEF ChainInv, OrderInv, EarlierAreOver, ClocksAreInOrder, Live
<1>3. ASSUME ~torn' PROVE Linked' /\ KeyIsDue'
  <2>1. ~torn /\ ~StatementFails(r)
    BY <1>3 DEF SwitchKey, DeleteTokens, StatementFails
  <2>2. Linked'
    BY <1>1, <2>1 DEF ChainInv, Linked, EndsIn, Live
  <2>3. \A k : EndsIn(Len(chain) + 1, k) => EndsIn(Len(chain) + 1, k)'
    BY <1>1 DEF EndsIn, Live
  <2>4. CASE SwitchKey(r)
    <3>1. EndsIn(Len(chain) + 1, target[r])
      BY <1>1, <2>1, <2>4 DEF ChainInv, KeyIsDue, SwitchKey
    <3>2. key' = target[r] /\ lock' = r /\ pc'[r] = "switched"
      BY <1>1, <2>4 DEF SwitchKey, TypeOK
    <3> QED
      BY <1>1, <2>2, <2>3, <3>1, <3>2 DEF KeyIsDue, EndsIn
  <2>5. CASE DeleteTokens(r)
    <3>1. EndsIn(Len(chain) + 1, key)
      BY <1>1, <2>1, <2>5 DEF ChainInv, KeyIsDue, DeleteTokens
    <3>2. key' = key /\ lock' = Free
      BY <2>5 DEF DeleteTokens
    <3> QED
      BY <1>1, <2>2, <2>3, <3>1, <3>2 DEF KeyIsDue, EndsIn
  <2> QED
    BY <2>1, <2>2, <2>4, <2>5
<1> QED
  BY <1>2, <1>3

LEMMA DeadlineKeepsChain ==
  ASSUME TypeOK, ChainInv, NEW i, DeadlinePasses(i)
  PROVE  OrderInv' /\ (~torn' => Linked' /\ KeyIsDue')
<1>1. /\ i \in DOMAIN chain /\ chain[i].status = "pending"
      /\ chain' = [chain EXCEPT ![i].status = "settled"]
      /\ UNCHANGED <<pc, key, past, target, lock, torn>>
  BY DEF DeadlinePasses, Indices
<1>2. chain \in Seq(Record) /\ DOMAIN chain = 1..Len(chain) /\ Len(chain) \in Nat
  BY DEF TypeOK
<1>3. /\ chain' \in Seq(Record)
      /\ DOMAIN chain' = DOMAIN chain /\ Len(chain') = Len(chain)
      /\ \A j \in DOMAIN chain : /\ chain'[j].prev = chain[j].prev
                                 /\ chain'[j].new = chain[j].new
                                 /\ j # i => chain'[j].status = chain[j].status
      /\ chain'[i].status = "settled"
  BY <1>1, <1>2, MarkOne
<1>4. Live' = Live /\ Live \subseteq DOMAIN chain
  BY <1>1, <1>3 DEF Live
<1>5. EarlierAreOver'
  BY <1>3, <1>4 DEF ChainInv, EarlierAreOver
<1>6. ClocksAreInOrder'
  BY <1>1, <1>4 DEF ChainInv, ClocksAreInOrder
<1>7. \A n, k : EndsIn(n, k) => EndsIn(n, k)'
  BY <1>3, <1>4 DEF EndsIn
<1>8. Linked => Linked'
  BY <1>3, <1>4, <1>7 DEF Linked, EndsIn
<1>9. KeyIsDue => KeyIsDue'
  BY <1>1, <1>3, <1>7 DEF KeyIsDue, EndsIn
<1> QED
  BY <1>1, <1>5, <1>6, <1>8, <1>9 DEF ChainInv, OrderInv

LEMMA ChainStep ==
  TypeOK /\ ChainInv /\ [Next]_vars => OrderInv' /\ (~torn' => Linked' /\ KeyIsDue')
<1> DEFINE Keeps == OrderInv' /\ (~torn' => Linked' /\ KeyIsDue')
<1> SUFFICES ASSUME TypeOK, ChainInv, [Next]_vars PROVE Keeps
  OBVIOUS
<1>0. pc \in [Requests -> PC] /\ past \in [Requests -> SUBSET Nat]
  BY DEF TypeOK
<1>1. ASSUME UNCHANGED <<key, chain, past, target, lock, torn>>,
             NEW r \in Requests, NEW place \in PC \ {"recorded"}, pc[r] # "recorded",
             GoTo(r, place)
      PROVE  Keeps
  <2>1. \A q \in Requests : pc'[q] = "recorded" <=> pc[q] = "recorded"
    BY <1>0, <1>1
  <2> QED
    BY <1>1, <2>1, ChainUntouched
<1>2. CASE UNCHANGED <<pc, key, chain, past, target, lock, torn>>
  BY <1>2, ChainUntouched
<1>3. ASSUME NEW ch \in Challenges, IssueChallenge(ch) \/ ChallengeExpires(ch) PROVE Keeps
  BY <1>2, <1>3 DEF IssueChallenge, ChallengeExpires
<1>4. ASSUME NEW r \in Requests, NEW ch \in Challenges, Verify(r, ch) PROVE Keeps
  BY <1>1, <1>4 DEF Verify
<1>5. ASSUME NEW r \in Requests, NEW t \in Requests, Consume(r, t) PROVE Keeps
  BY <1>1, <1>5 DEF Consume
<1>6. ASSUME NEW r \in Requests, Issue(r) \/ Store(r) \/ Abandon(r) PROVE Keeps
  BY <1>1, <1>6 DEF Issue, Store, Abandon
<1>7. ASSUME NEW r \in Requests, TokenExpires(r) PROVE Keeps
  BY <1>2, <1>7 DEF TokenExpires
<1>8. ASSUME NEW r \in Requests, NEW place, Ask(r, place) PROVE Keeps
  <2>1. /\ past' = [past EXCEPT ![r] = Indices("settled")]
        /\ UNCHANGED <<key, chain, target, lock, torn>>
        /\ \A q \in Requests : pc'[q] = "recorded" <=> pc[q] = "recorded"
    BY <1>0, <1>8 DEF Ask
  <2>2. EarlierAreOver'
    BY <2>1 DEF ChainInv, EarlierAreOver, Live
  <2>3. ASSUME NEW q \in Requests, NEW j \in past'[q], NEW i \in Live', i < j
        PROVE  i \in past'[q]
    <3>1. i \in Live
      BY <2>1 DEF Live
    <3>2. CASE q = r
      <4>1. past'[q] = Indices("settled")
        BY <1>0, <2>1, <3>2
      <4> QED
        BY <2>3, <3>1, <4>1 DEF ChainInv, EarlierAreOver, Indices, Live
    <3>3. CASE q # r
      <4>1. past'[q] = past[q]
        BY <1>0, <2>1, <3>3
      <4> QED
        BY <2>3, <3>1, <4>1 DEF ChainInv, ClocksAreInOrder
    <3> QED
      BY <3>2, <3>3
  <2>4. Linked => Linked'
    BY <2>1 DEF Linked, EndsIn, Live
  <2>5. KeyIsDue => KeyIsDue'
    <3>1. lock \in Requests => (pc'[lock] = "recorded" <=> pc[lock] = "recorded")
      BY <2>1
    <3>2. CASE lock \in Requests /\ pc[lock] = "recorded"
      BY <2>1, <3>1, <3>2 DEF KeyIsDue, EndsIn, Live
    <3>3. CASE ~(lock \in Requests /\ pc[lock] = "recorded")
      BY <2>1, <3>1, <3>3 DEF KeyIsDue, EndsIn, Live
    <3> QED
      BY <3>2, <3>3
  <2> QED
    BY <2>1, <2>2, <2>3, <2>4, <2>5 DEF ChainInv, OrderInv, ClocksAreInOrder
<1>9. ASSUME NEW r \in Requests, NEW prev \in Keys, NEW new \in Keys, Rotate(r, prev, new)
      PROVE  Keeps
  <2>1. CASE chain' # chain
    BY <1>9, <2>1, RotateKeepsChain
  <2>2. CASE chain' = chain
    <3>1. chain # Append(chain, [prev |-> prev, new |-> new, status |-> "pending"])
      BY DEF TypeOK
    <3>2. GoTo(r, "refused") /\ UNCHANGED <<target, lock>> /\ pc[r] = "rotate"
      BY <1>9, <2>2, <3>1 DEF Rotate
    <3>3. UNCHANGED <<key, past, torn>>
      BY <1>9 DEF Rotate
    <3> QED
      BY <1>1, <2>2, <3>2, <3>3
  <2> QED
    BY <2>1, <2>2
<1>10. ASSUME NEW r \in Requests, Cancel(r) PROVE Keeps
  <2>1. CASE chain' # chain
    BY <1>10, <2>1, CancelKeepsChain
  <2>2. CASE chain' = chain
    <3>1. ASSUME NEW i \in Active(r) PROVE chain # [chain EXCEPT ![i].status = "cancelled"]
      <4>1. i \in DOMAIN chain /\ chain[i].status # "cancelled"
        BY DEF Active
      <4>2. chain[i] \in Record
        BY <4>1 DEF TypeOK
      <4>3. [chain EXCEPT ![i].status = "cancelled"][i].status = "cancelled"
        BY <4>1, <4>2 DEF Record
      <4> QED
        BY <4>1, <4>3
    <3>2. GoTo(r, "refused") /\ UNCHANGED <<target, lock>> /\ pc[r] = "cancel"
      BY <1>10, <2>2, <3>1 DEF Cancel
    <3>3. UNCHANGED <<key, past, torn>>
      BY <1>10 DEF Cancel
    <3> QED
      BY <1>1, <2>2, <3>2, <3>3
  <2> QED
    BY <2>1, <2>2
<1>11. ASSUME NEW r \in Requests, SwitchKey(r) \/ DeleteTokens(r) \/ StatementFails(r)
       PROVE  Keeps
  BY <1>11, SwitchKeepsChain
<1>12. ASSUME NEW i \in 1..MaxRecords, DeadlinePasses(i) PROVE Keeps
  BY <1>12, DeadlineKeepsChain
<1>13. CASE Restart
  <2>1. UNCHANGED <<key, chain, past>> /\ lock' = Free /\ (~torn' => ~torn /\ lock = Free)
    BY <1>13 DEF Restart, TypeOK
  <2>2. OrderInv'
    BY <2>1 DEF ChainInv, OrderInv, EarlierAreOver, ClocksAreInOrder, Live
  <2>3. Linked => Linked'
    BY <2>1 DEF Linked, EndsIn, Live
  <2>4. KeyIsDue /\ lock = Free => KeyIsDue'
    BY <2>1 DEF KeyIsDue, EndsIn, Live
  <2> QED
    BY <2>1, <2>2, <2>3, <2>4 DEF ChainInv
<1>14. CASE UNCHANGED vars
  BY <1>2, <1>14 DEF vars
<1> HIDE DEF Keeps
<1> QED
  BY <1>3, <1>4, <1>5, <1>6, <1>7, <1>8, <1>9, <1>10, <1>11, <1>12, <1>13, <1>14 DEF Next

(* What the chain ends in, for TLC the record chosen, is what EndsIn says.    *)
LEMMA ChainKeyIsTheEnd ==
  ASSUME chain \in Seq(Record), NEW k, EndsIn(Len(chain) + 1, k)
  PROVE  ChainKey = k
<1>1. Live \subseteq 1..Len(chain) /\ Len(chain) \in Nat
  BY DEF Live
<1>2. CASE Live = {}
  BY <1>2 DEF EndsIn, ChainKey, Live
<1>3. CASE Live # {}
  <2>1. PICK i \in Live : k = chain[i].new /\ \A j \in Live : j <= i
    <3>1. \A j \in Live : j \in Nat /\ j < Len(chain) + 1
      BY <1>1
    <3>2. ~ \A i \in Live : i >= Len(chain) + 1
      <4>1. PICK i \in Live : TRUE
        BY <1>3
      <4>2. i \in Nat /\ i < Len(chain) + 1 /\ Len(chain) + 1 \in Nat
        BY <1>1, <3>1, <4>1
      <4>3. ~ i >= Len(chain) + 1
        BY <4>2
      <4> QED
        BY <4>1, <4>3
    <3> QED
      BY <3>1, <3>2 DEF EndsIn
  <2>2. \A m \in Live : (\A j \in Live : j <= m) => m = i
    BY <1>1, <2>1
  <2>3. (CHOOSE m \in Live : \A j \in Live : j <= m) = i
    BY <2>1, <2>2
  <2> QED
    BY <1>3, <2>1, <2>3 DEF ChainKey, Live
<1> QED
  BY <1>2, <1>3

(* Rotations and cancellations that ran to their end leave the chain of the   *)
(* records that stand ending in users.public_key, in whatever order they      *)
(* came and however early they read their clocks.                             *)
THEOREM ChainEnds == Spec => []ChainEndsInKey
<1>1. Init => ChainInv
  <2> SUFFICES ASSUME Init PROVE ChainInv
    OBVIOUS
  <2>1. chain = <<>> /\ Live = {} /\ Len(chain) = 0
    BY DEF Init, Live
  <2>2. PendingInv
    BY <2>1 DEF Init, PendingInv, AtMostOnePending, Indices
  <2>3. HolderInv
    BY DEF Init, HolderInv
  <2>4. EarlierAreOver /\ ClocksAreInOrder /\ Linked
    BY <2>1 DEF EarlierAreOver, ClocksAreInOrder, Linked
  <2>5. KeyIsDue
    BY <2>1 DEF Init, KeyIsDue, EndsIn
  <2> QED
    BY <2>2, <2>3, <2>4, <2>5 DEF ChainInv
<1>2. TypeOK /\ ChainInv /\ [Next]_vars => ChainInv'
  BY PendingStep, HolderStep, ChainStep DEF ChainInv, OrderInv
<1>3. TypeOK /\ ChainInv => ChainEndsInKey
  <2> SUFFICES ASSUME TypeOK, ChainInv, lock = Free, ~torn PROVE key = ChainKey
    BY DEF ChainEndsInKey
  <2>1. EndsIn(Len(chain) + 1, key)
    BY DEF ChainInv, KeyIsDue
  <2> QED
    BY <2>1, ChainKeyIsTheEnd DEF TypeOK
<1> QED
  BY <1>1, <1>2, <1>3, TypeInit, TypeStep, PTL DEF Spec
==============================================================================
