-------------------------- MODULE ClientBlocks_proofs --------------------------
(* Theorems about the client's block store and the hook that shows a block, *)
(* for any blocks, cascades, budgets, sizes and passphrases: type           *)
(* correctness, the rows that can be read back, the budget of the eviction  *)
(* sweep, and the refinement of BlockViewer.                                *)
EXTENDS ClientBlocks, Functions, FunctionTheorems, FiniteSetTheorems, TLAPS

USE SizeAssumption, BudgetAssumption, PhraseAssumption, NoneAssumption

------------------------------------------------------------------------------
(* The types, part by part.                                                 *)

StoreType ==
  /\ row \in [Blocks -> Tiers]
  /\ file \in [Blocks -> 0..MaxPhrases]
  /\ torn \subseteq Blocks
  /\ identity \in 0..MaxPhrases /\ key \in 0..MaxPhrases

HookRecord ==
  [block : Blocks \cup {NoBlock}, status : {"idle", "loading", "loaded", "error"},
   progress : {"cache", "fetching", "unavailable"}, data : Blocks \cup {NoBlock},
   call : Calls \cup {NoCall}, timers : SUBSET {"fetching", "unavailable"}]

CallRecord == [layer : Layers, block : Blocks \cup {NoBlock}]

LookType == call \in [Calls -> CallRecord] /\ hook \in HookRecord

(* A row that no cut deletion struck has its file, and no key, in memory or *)
(* of a file, is newer than the stored identity's.                          *)
RowsAnnounceFiles == \A b \in Rows \ torn : file[b] # 0
KeysFit == key <= identity /\ \A b \in Blocks : file[b] <= identity

(* A cascade that is under way looks for a block; the one the hook waits    *)
(* for looks for the hook's block, and the timers run while it waits.       *)
Looking ==
  /\ \A c \in Calls : call[c].layer # "idle" => call[c].block \in Blocks
  /\ hook.call # NoCall =>
       /\ call[hook.call].layer # "idle"
       /\ call[hook.call].block = hook.block
       /\ hook.status \in {"loading", "error"}
  /\ hook.timers # {} => hook.status = "loading"
  /\ hook.status = "loading" \/ hook.progress = "unavailable" => hook.block \in Blocks

StoreInv == StoreType /\ RowsAnnounceFiles /\ KeysFit
LookInv == LookType /\ Looking

(* What the loop of the sweep has to go is what the table is over.          *)
SweepInv ==
  /\ budget \in Budgets \cup {NoBudget} /\ toFree \in Int
  /\ budget # NoBudget => toFree = Excess(budget)

Inv == StoreInv /\ LookInv /\ SweepInv

------------------------------------------------------------------------------
(* What each operation of the store keeps.                                  *)

LEMMA PutKeeps ==
  ASSUME StoreInv, NEW b \in Blocks, NEW tier \in 1..4, UNCHANGED account,
         PutKnown(b, tier) \/ PutNew(b, tier) \/ PutThrows(b)
  PROVE  StoreInv'
<1> USE DEF StoreInv, StoreType, RowsAnnounceFiles, KeysFit, Rows, Tiers, account
<1>1. CASE PutKnown(b, tier)
  BY <1>1 DEF PutKnown
<1>2. CASE PutNew(b, tier)
  BY <1>2 DEF PutNew
<1>3. CASE PutThrows(b)
  BY <1>3 DEF PutThrows, PutCut, PutRefused, stored
<1>4. QED
  BY <1>1, <1>2, <1>3

LEMMA EraseKeeps ==
  ASSUME StoreInv, NEW b \in Blocks, Erase(b) \/ EraseCut(b), UNCHANGED account
  PROVE  StoreInv'
<1> USE DEF StoreInv, StoreType, RowsAnnounceFiles, KeysFit, Rows, Tiers, account
<1>1. CASE Erase(b)
  BY <1>1 DEF Erase
<1>2. CASE EraseCut(b)
  BY <1>2 DEF EraseCut
<1>3. QED
  BY <1>1, <1>2

LEMMA StoreUnchanged ==
  ASSUME StoreInv, UNCHANGED <<stored, account>>
  PROVE  StoreInv'
  BY DEF StoreInv, StoreType, RowsAnnounceFiles, KeysFit, Rows, stored, account

------------------------------------------------------------------------------
(* The bytes of blocks, and the sweep.                                      *)

Bytes(some) == UNION {{b} \X (1..Size[b]) : b \in some}

LEMMA BytesFinite ==
  ASSUME NEW some \in SUBSET Blocks
  PROVE  IsFiniteSet(Bytes(some))
<1> DEFINE of == [b \in some |-> {b} \X (1..Size[b])]
           sets == {{b} \X (1..Size[b]) : b \in some}
<1>1. IsFiniteSet(some)
  BY BlocksAssumption, FS_Subset
<1>2. of \in Surjection(some, sets)
  <2>1. of \in [some -> sets]
    OBVIOUS
  <2>2. \A t \in sets : \E b \in some : of[b] = t
    OBVIOUS
  <2>3. QED
    BY <2>1, <2>2, Fun_IsSurj
<1>3. IsFiniteSet(sets)
  BY <1>1, <1>2, FS_Surjection
<1>4. ASSUME NEW t \in sets PROVE IsFiniteSet(t)
  <2>1. PICK b \in some : t = {b} \X (1..Size[b])
    OBVIOUS
  <2>2. IsFiniteSet({b})
    BY FS_Singleton
  <2>3. IsFiniteSet(1..Size[b])
    BY FS_Interval
  <2>4. QED
    BY <2>1, <2>2, <2>3, FS_Product
<1>5. IsFiniteSet(UNION sets)
  BY <1>3, <1>4, FS_UNION
<1>6. QED
  BY <1>5 DEF Bytes

LEMMA UsageType ==
  ASSUME NEW some \in SUBSET Blocks
  PROVE  UsageOf(some) \in Nat
BY BytesFinite, FS_CardinalityType DEF UsageOf, Bytes

(* What two disjoint sets of blocks take together.                          *)
LEMMA UsageAdds ==
  ASSUME NEW some \in SUBSET Blocks, NEW others \in SUBSET Blocks,
         some \cap others = {}
  PROVE  UsageOf(some \cup others) = UsageOf(some) + UsageOf(others)
<1>1. Bytes(some \cup others) = Bytes(some) \cup Bytes(others)
  BY DEF Bytes
<1>2. Bytes(some) \cap Bytes(others) = {}
  BY DEF Bytes
<1>3. IsFiniteSet(Bytes(some)) /\ IsFiniteSet(Bytes(others))
  BY BytesFinite
<1>4. Cardinality(Bytes(some) \cup Bytes(others))
        = Cardinality(Bytes(some)) + Cardinality(Bytes(others)) - 0
  BY <1>2, <1>3, FS_Union, FS_EmptySet
<1>5. Cardinality(Bytes(some)) \in Nat /\ Cardinality(Bytes(others)) \in Nat
  BY <1>3, FS_CardinalityType
<1>6. ASSUME NEW any PROVE UsageOf(any) = Cardinality(Bytes(any))
  BY DEF UsageOf, Bytes
<1>7. /\ UsageOf(some) = Cardinality(Bytes(some))
      /\ UsageOf(others) = Cardinality(Bytes(others))
      /\ UsageOf(some \cup others) = Cardinality(Bytes(some \cup others))
  BY <1>6
<1> DEFINE first == Cardinality(Bytes(some))
           second == Cardinality(Bytes(others))
<1>8. first + second - 0 = first + second
  <2>1. first \in Nat /\ second \in Nat
    BY <1>5
  <2> HIDE DEF first, second
  <2>2. QED
    BY <2>1
<1>9. UsageOf(some \cup others) = first + second - 0
  BY <1>1, <1>4, <1>7, Zenon
<1>10. QED
  BY <1>7, <1>8, <1>9, Zenon

LEMMA UsageOfOne ==
  ASSUME NEW b \in Blocks
  PROVE  UsageOf({b}) = Size[b]
<1>1. UsageOf({b}) = Cardinality({b} \X (1..Size[b]))
  <2>1. UNION {{x} \X (1..Size[x]) : x \in {b}} = {b} \X (1..Size[b])
    OBVIOUS
  <2>2. QED
    BY <2>1 DEF UsageOf
<1>2. IsFiniteSet({b}) /\ Cardinality({b}) = 1
  BY FS_Singleton
<1>3. Size[b] \in Nat /\ IsFiniteSet(1..Size[b]) /\ Cardinality(1..Size[b]) = Size[b]
  BY FS_Interval
<1>4. Cardinality({b} \X (1..Size[b])) = Cardinality({b}) * Cardinality(1..Size[b])
  BY <1>2, <1>3, FS_Product, Zenon
<1>5. QED
  BY <1>1, <1>2, <1>3, <1>4

(* The rows are the user's own and those the sweep may take.                *)
LEMMA Shares ==
  ASSUME StoreType
  PROVE  /\ Own \in SUBSET Blocks /\ Evictable \in SUBSET Blocks
         /\ UsageOf(Own) \in Nat /\ UsageOf(Evictable) \in Nat
         /\ UsageOf(Rows) = UsageOf(Own) + UsageOf(Evictable)
<1>1. /\ Own \in SUBSET Blocks /\ Evictable \in SUBSET Blocks
      /\ Own \cap Evictable = {} /\ Rows = Own \cup Evictable
  BY DEF Own, Evictable, Rows
<1>2. QED
  BY <1>1, UsageType, UsageAdds

LEMMA ExcessIs ==
  ASSUME StoreType, NEW limit \in Nat
  PROVE  /\ Excess(limit) \in Int
         /\ Excess(limit) > 0 => UsageOf(Rows) > limit
         /\ Excess(limit) <= 0 => \/ UsageOf(Rows) <= limit
                                 \/ UsageOf(Rows) = UsageOf(Own)
<1> DEFINE own == UsageOf(Own)
           share == UsageOf(Evictable)
           all == UsageOf(Rows)
<1>1. own \in Nat /\ share \in Nat /\ all = own + share
  BY Shares
<1>2. Excess(limit) = share - (IF limit - own > 0 THEN limit - own ELSE 0)
  BY DEF Excess
<1> HIDE DEF own, share, all
<1>3. /\ Excess(limit) \in Int
      /\ Excess(limit) > 0 => all > limit
      /\ Excess(limit) <= 0 => all <= limit \/ all = own
  BY <1>1, <1>2
<1>4. QED
  BY <1>3 DEF own, all

(* A block that goes takes its bytes off what is over the budget.           *)
LEMMA EvictedFrees ==
  ASSUME StoreType, NEW limit \in Nat, NEW b \in Evictable, Erase(b)
  PROVE  Excess(limit)' = Excess(limit) - Size[b]
<1>1. b \in Blocks /\ row[b] # 0 /\ row[b] # 1
  BY DEF Evictable, Rows, Own
<1>2. row' = [row EXCEPT ![b] = 0]
  BY DEF Erase
<1>3. Own' = Own
  BY <1>1, <1>2 DEF Own, StoreType
<1>4. Evictable' = Evictable \ {b}
  BY <1>1, <1>2, <1>3 DEF Evictable, Rows, StoreType
<1>5. UsageOf(Evictable) = UsageOf(Evictable \ {b}) + Size[b]
  <2>1. /\ Evictable \ {b} \in SUBSET Blocks /\ {b} \in SUBSET Blocks
        /\ (Evictable \ {b}) \cap {b} = {}
        /\ (Evictable \ {b}) \cup {b} = Evictable
    BY <1>1, Shares
  <2>2. QED
    BY <1>1, <2>1, UsageAdds, UsageOfOne
<1> DEFINE own == UsageOf(Own)
           share == UsageOf(Evictable)
           left == UsageOf(Evictable \ {b})
<1>6. own \in Nat /\ share \in Nat /\ left \in Nat /\ Size[b] \in Nat
  BY <1>1, Shares, UsageType
<1>7. Excess(limit) = share - (IF limit - own > 0 THEN limit - own ELSE 0)
  BY DEF Excess
<1>8. Excess(limit)' = left - (IF limit - own > 0 THEN limit - own ELSE 0)
  BY <1>3, <1>4 DEF Excess, UsageOf
<1>9. share = left + Size[b]
  BY <1>5
<1> HIDE DEF own, share, left
<1>10. QED
  BY <1>6, <1>7, <1>8, <1>9

LEMMA ExcessUnchanged ==
  ASSUME UNCHANGED row, NEW limit
  PROVE  Excess(limit)' = Excess(limit)
<1>1. Own' = Own /\ Evictable' = Evictable
  BY DEF Own, Evictable, Rows
<1>2. QED
  BY <1>1 DEF Excess, UsageOf

(* The sweep does not run, or goes on over the same table.                  *)
LEMMA SweepUnchanged ==
  ASSUME SweepInv, UNCHANGED sweep, budget = NoBudget \/ UNCHANGED row
  PROVE  SweepInv'
  BY ExcessUnchanged DEF SweepInv, sweep

------------------------------------------------------------------------------
(* What the cascade and the hook do to each other.                          *)

LEMMA LoadKeeps ==
  ASSUME LookInv, NEW b \in Blocks, Load(b)
  PROVE  LookInv'
<1>1. Fresh \in Calls
  BY DEF Load, Free, Fresh
<1>2. [layer |-> "local", block |-> b] \in CallRecord
  BY DEF CallRecord, Layers
<1>3. call' = [call EXCEPT ![Fresh] = [layer |-> "local", block |-> b]]
  BY DEF Load
<1>4. LookType'
  BY <1>1, <1>2, <1>3 DEF LookInv, LookType, Load, HookRecord
<1>5. Looking'
  BY <1>1, <1>3 DEF LookInv, LookType, Looking, Load
<1>6. QED
  BY <1>4, <1>5 DEF LookInv

LEMMA AnswerKeeps ==
  ASSUME LookInv, NEW c \in Calls, call[c].layer # "idle",
         NEW data \in Blocks \cup {NoBlock}, Answer(c, data)
  PROVE  LookInv'
<1> USE DEF LookInv, LookType, Looking
<1>1. Idle \in CallRecord
  BY DEF Idle, CallRecord, Layers
<1>2. call' = [call EXCEPT ![c] = Idle]
  BY DEF Answer
<1>3. CASE hook.call # c
  <2>1. hook' = hook
    BY <1>3 DEF Answer
  <2>2. LookType'
    BY <1>1, <1>2, <2>1
  <2>3. \A x \in Calls \ {c} : call'[x] = call[x]
    BY <1>2
  <2>4. call'[c].layer = "idle"
    BY <1>2 DEF Idle
  <2>5. hook.call \in Calls \cup {NoCall}
    BY DEF HookRecord
  <2>6. QED
    BY <1>3, <2>1, <2>2, <2>3, <2>4, <2>5
<1>4. CASE hook.call = c /\ data # NoBlock
  <2>1. hook' = [hook EXCEPT !.data = data, !.status = "loaded", !.progress = "cache",
                             !.timers = {}, !.call = NoCall]
    BY <1>4 DEF Answer
  <2>2. QED
    BY <1>1, <1>2, <2>1 DEF Idle, HookRecord
<1>5. CASE hook.call = c /\ data = NoBlock
  <2>1. hook' = [hook EXCEPT !.call = NoCall]
    BY <1>5 DEF Answer
  <2>2. QED
    BY <1>1, <1>2, <2>1 DEF Idle, HookRecord
<1>6. QED
  BY <1>3, <1>4, <1>5

LEMMA LayerKeeps ==
  ASSUME LookInv, NEW c \in Calls, call[c].layer # "idle",
         NEW next \in Layers \ {"idle"},
         call' = [call EXCEPT ![c].layer = next], UNCHANGED hook
  PROVE  LookInv'
  BY DEF LookInv, LookType, Looking, CallRecord

LEMMA NextLayerKeeps ==
  ASSUME LookInv, NEW c \in Calls, call[c].layer # "idle", NextLayer(c)
  PROVE  LookInv'
<1>1. CASE call[c].layer = "server"
  BY <1>1, AnswerKeeps DEF NextLayer
<1>2. CASE call[c].layer # "server"
  BY <1>2, LayerKeeps DEF NextLayer, Layers
<1>3. QED
  BY <1>1, <1>2

LEMMA HookKeeps ==
  ASSUME LookInv, FetchingTimer \/ UnavailableTimer \/ Hide
  PROVE  LookInv'
<1> USE DEF LookInv, LookType, Looking, HookRecord
<1>1. CASE FetchingTimer
  BY <1>1 DEF FetchingTimer
<1>2. CASE UnavailableTimer
  BY <1>2 DEF UnavailableTimer
<1>3. CASE Hide
  BY <1>3 DEF Hide, Blank
<1>4. QED
  BY <1>1, <1>2, <1>3

------------------------------------------------------------------------------
(* Every step.                                                              *)

LEMMA InvInit == Init => Inv
<1> SUFFICES ASSUME Init PROVE Inv
  OBVIOUS
<1>1. StoreInv
  BY DEF Init, StoreInv, StoreType, Tiers, RowsAnnounceFiles, KeysFit, Rows
<1>2. LookInv
  BY DEF Init, LookInv, LookType, Looking, Idle, Blank, CallRecord, HookRecord, Layers
<1>3. SweepInv
  BY DEF Init, SweepInv
<1>4. QED
  BY <1>1, <1>2, <1>3 DEF Inv

(* LookInv depends on call and hook only.                                   *)
LEMMA LookUnchanged ==
  ASSUME LookInv, UNCHANGED <<call, hook>>
  PROVE  LookInv'
  BY DEF LookInv, LookType, Looking

LEMMA StoreSteps ==
  ASSUME Inv, budget = NoBudget, StoreStep \/ SaveIdentity \/ Unlock
  PROVE  Inv'
<1>0. StoreInv /\ LookInv /\ SweepInv
  BY DEF Inv
<1> SUFFICES StoreInv' /\ LookInv' /\ SweepInv'
  BY DEF Inv
<1>1. ASSUME NEW b \in Blocks, Delete(b) PROVE StoreInv' /\ LookInv' /\ SweepInv'
  BY <1>0, <1>1, EraseKeeps, LookUnchanged, SweepUnchanged DEF Delete
<1>2. ASSUME NEW b \in Blocks, NEW tier \in {1, 2}, Put(b, tier)
      PROVE  StoreInv' /\ LookInv' /\ SweepInv'
  <2>1. tier \in 1..4
    BY <1>2
  <2>2. QED
    BY <1>0, <1>2, <2>1, PutKeeps, LookUnchanged, SweepUnchanged DEF Put
<1>3. ASSUME NEW limit \in Budgets, Sweep(limit) PROVE StoreInv' /\ LookInv' /\ SweepInv'
  <2>1. Excess(limit) \in Int
    BY <1>0, ExcessIs DEF StoreInv
  <2>2. Excess(limit)' = Excess(limit)
    BY <1>3, ExcessUnchanged DEF Sweep, stored
  <2>3. SweepInv'
    BY <1>3, <2>1, <2>2 DEF Sweep, SweepInv
  <2>4. QED
    BY <1>0, <1>3, <2>3, StoreUnchanged, LookUnchanged DEF Sweep
<1>4. CASE SaveIdentity \/ Unlock
  <2>1. StoreInv'
    BY <1>0, <1>4 DEF SaveIdentity, Unlock, stored, StoreInv, StoreType, RowsAnnounceFiles,
                      KeysFit, Rows
  <2>2. QED
    BY <1>0, <1>4, <2>1, LookUnchanged, SweepUnchanged DEF SaveIdentity, Unlock, stored
<1>5. QED
  BY <1>1, <1>2, <1>3, <1>4 DEF StoreStep

(* The loop of the sweep.                                                   *)
LEMMA SweepSteps ==
  ASSUME Inv, budget # NoBudget, SweepStep
  PROVE  Inv'
<1>0. StoreInv /\ LookInv /\ SweepInv
  BY DEF Inv
<1> SUFFICES StoreInv' /\ LookInv' /\ SweepInv'
  BY DEF Inv
<1>1. ASSUME NEW b \in Blocks, EvictNext(b) PROVE StoreInv' /\ LookInv' /\ SweepInv'
  <2>1. budget \in Nat /\ b \in Evictable /\ Size[b] \in Nat /\ StoreType
    BY <1>0, <1>1 DEF EvictNext, NextVictim, SweepInv, StoreInv
  <2>2. Excess(budget) \in Int /\ toFree = Excess(budget)
    BY <1>0, <2>1, ExcessIs DEF SweepInv
  <2>3. Erase(b) /\ budget' = budget /\ toFree' = toFree - Size[b]
    BY <1>1 DEF EvictNext
  <2>4. ASSUME NEW limit \in Nat PROVE Excess(limit)' = Excess(limit) - Size[b]
    BY <2>1, <2>3, EvictedFrees
  <2>5. SweepInv'
    <3>1. Excess(budget') = Excess(budget)
      BY <2>3
    <3>2. toFree' = Excess(budget) - Size[b] /\ toFree' \in Int
      BY <2>1, <2>2, <2>3
    <3>3. Excess(budget)' = Excess(budget) - Size[b]
      BY <2>1, <2>3, <2>4 DEF Excess, UsageOf
    <3>4. QED
      BY <1>0, <2>3, <3>2, <3>3 DEF SweepInv
  <2>6. QED
    BY <1>0, <1>1, <2>5, EraseKeeps, LookUnchanged DEF EvictNext
<1>2. CASE SweepReturns
  BY <1>0, <1>2, StoreUnchanged, LookUnchanged DEF SweepReturns, SweepInv
<1>3. CASE SweepThrows
  <2>1. StoreInv'
    <3>1. CASE UNCHANGED stored
      BY <1>0, <1>3, <3>1, StoreUnchanged DEF SweepThrows
    <3>2. CASE \E b \in Blocks : EraseCut(b)
      BY <1>0, <1>3, <3>2, EraseKeeps DEF SweepThrows
    <3>3. QED
      BY <1>3, <3>1, <3>2 DEF SweepThrows
  <2>2. QED
    BY <1>0, <1>3, <2>1, LookUnchanged DEF SweepThrows, SweepInv
<1>4. QED
  BY <1>1, <1>2, <1>3 DEF SweepStep

LEMMA CascadeSteps ==
  ASSUME Inv, budget = NoBudget, NEW c \in Calls, CascadeStep(c)
  PROVE  Inv'
<1>0. /\ StoreInv /\ LookInv /\ SweepInv
      /\ call[c].layer # "idle" => call[c].block \in Blocks
  BY DEF Inv, LookInv, Looking
<1>a. UNCHANGED <<account, sweep>>
  BY DEF CascadeStep, LocalFound, LocalMissing, LayerDelivers, LayerFails, LayerCannotStore
<1>b. SweepInv'
  BY <1>0, <1>a, SweepUnchanged
<1> SUFFICES StoreInv' /\ LookInv'
  BY <1>b DEF Inv
<1>1. CASE LocalFound(c)
  BY <1>0, <1>1, StoreUnchanged, AnswerKeeps DEF LocalFound
<1>2. CASE LocalMissing(c)
  BY <1>0, <1>2, StoreUnchanged, LayerKeeps DEF LocalMissing, Layers
<1>3. CASE LayerDelivers(c)
  <2>1. PICK data \in Offers(c) :
          /\ call[c].layer \in Remote /\ Accepted(c, data)
          /\ PutKnown(data, TierOf(call[c].layer)) \/ PutNew(data, TierOf(call[c].layer))
          /\ Answer(c, data)
    BY <1>3 DEF LayerDelivers
  <2>2. call[c].layer # "idle" /\ data \in Blocks
    BY <1>0, <2>1 DEF Remote, Offers
  <2>3. TierOf(call[c].layer) \in 1..4
    BY DEF TierOf
  <2>4. StoreInv'
    BY <1>0, <1>a, <2>1, <2>2, <2>3, PutKeeps
  <2>5. LookInv'
    BY <1>0, <2>1, <2>2, AnswerKeeps
  <2>6. QED
    BY <2>4, <2>5
<1>4. CASE LayerFails(c)
  BY <1>0, <1>4, StoreUnchanged, NextLayerKeeps DEF LayerFails, Remote
<1>5. CASE LayerCannotStore(c)
  <2>1. call[c].layer # "idle" /\ call[c].block \in Blocks
    BY <1>0, <1>5 DEF LayerCannotStore, Remote
  <2>2. LookInv'
    BY <1>0, <1>5, <2>1, NextLayerKeeps DEF LayerCannotStore
  <2>3. StoreInv'
    BY <1>0, <1>5, <1>a, <2>1, PutKeeps DEF LayerCannotStore
  <2>4. QED
    BY <2>2, <2>3
<1>6. QED
  BY <1>1, <1>2, <1>3, <1>4, <1>5 DEF CascadeStep

LEMMA HookSteps ==
  ASSUME Inv, HookStep
  PROVE  Inv'
<1>0. StoreInv /\ LookInv /\ SweepInv
  BY DEF Inv
<1>a. UNCHANGED <<stored, account, sweep>>
  BY DEF HookStep, Show, Retry, Load, Hide, FetchingTimer, UnavailableTimer
<1>b. StoreInv' /\ SweepInv'
  BY <1>0, <1>a, StoreUnchanged, SweepUnchanged DEF stored
<1> SUFFICES LookInv'
  BY <1>b DEF Inv
<1>1. ASSUME NEW b \in Blocks, Load(b) PROVE LookInv'
  BY <1>0, <1>1, LoadKeeps
<1>2. CASE Retry
  <2>1. hook.block \in Blocks
    BY <1>0, <1>2 DEF LookInv, Looking, Retry
  <2>2. QED
    BY <1>1, <1>2, <2>1 DEF Retry
<1>3. CASE Hide \/ FetchingTimer \/ UnavailableTimer
  BY <1>0, <1>3, HookKeeps
<1>4. QED
  BY <1>1, <1>2, <1>3 DEF HookStep, Show

LEMMA RestartKeeps ==
  ASSUME Inv, Restart
  PROVE  Inv'
<1>1. StoreInv'
  BY DEF Inv, Restart, stored, StoreInv, StoreType, RowsAnnounceFiles, KeysFit, Rows
<1>2. LookInv'
  BY DEF Restart, LookInv, LookType, Looking, Idle, Blank, CallRecord, HookRecord, Layers
<1>3. SweepInv'
  BY DEF Restart, SweepInv
<1>4. QED
  BY <1>1, <1>2, <1>3 DEF Inv

LEMMA InvStep == Inv /\ [Next]_vars => Inv'
<1> SUFFICES ASSUME Inv, [Next]_vars PROVE Inv'
  OBVIOUS
<1>1. CASE UNCHANGED vars
  <2>1. StoreInv /\ LookInv /\ SweepInv /\ UNCHANGED <<stored, account, sweep, call, hook>>
    BY <1>1 DEF Inv, vars, stored, account, sweep
  <2>2. StoreInv' /\ LookInv' /\ SweepInv'
    BY <2>1, StoreUnchanged, LookUnchanged, SweepUnchanged DEF stored
  <2>3. QED
    BY <2>2 DEF Inv
<1>2. CASE Next
  BY <1>2, StoreSteps, SweepSteps, HookSteps, CascadeSteps, RestartKeeps DEF Next, MainStep
<1>3. QED
  BY <1>1, <1>2

LEMMA InvAlways == Spec => []Inv
  BY InvInit, InvStep, PTL DEF Spec

(* Type correctness of the store, the sweep, the cascades and the hook.     *)
THEOREM TypeCorrect == Spec => []TypeOK
<1>1. Inv => TypeOK
  BY DEF Inv, StoreInv, LookInv, SweepInv, StoreType, LookType, HookRecord, CallRecord, TypeOK
<1>2. QED
  BY <1>1, InvAlways, PTL

(* putBlock's order of file and row keeps every row readable, through cut   *)
(* writes, sweeps that stop half-way and restarts, but for those of which a *)
(* deletion was cut off and for identities with another passphrase.         *)
THEOREM RowsAlwaysReadBack == Spec => []RowsReadBack
<1>1. Inv => RowsReadBack
  BY DEF Inv, StoreInv, StoreType, RowsAnnounceFiles, KeysFit, RowsReadBack, Readable, Decrypts,
         Rows
<1>2. QED
  BY <1>1, InvAlways, PTL

(* runEvictionSweep over any blocks of any sizes: as long as its loop goes  *)
(* on the store is over the budget, and when it is through the store is     *)
(* within it or has nothing evictable left that takes room.                 *)
THEOREM SweepAlwaysKeepsBudget == Spec => []SweepKeepsBudget
<1>1. ASSUME Inv, budget # NoBudget
      PROVE  /\ toFree > 0 => UsageOf(Rows) > budget
             /\ Through => UsageOf(Rows) <= budget \/ UsageOf(Rows) = UsageOf(Own)
  <2>1. StoreType /\ budget \in Nat /\ toFree = Excess(budget)
    BY <1>1 DEF Inv, StoreInv, SweepInv
  <2>2. CASE Evictable = {}
    <3>1. UsageOf(Evictable) = 0
      BY <2>2, FS_EmptySet DEF UsageOf
    <3>2. UsageOf(Rows) = UsageOf(Own)
      BY <2>1, <3>1, Shares
    <3>3. QED
      BY <2>1, <3>2, ExcessIs
  <2>3. CASE Evictable # {}
    BY <2>1, <2>3, ExcessIs DEF Through
  <2>4. QED
    BY <2>2, <2>3
<1>2. Inv => SweepKeepsBudget
  BY <1>1 DEF SweepKeepsBudget
<1>3. QED
  BY <1>2, InvAlways, PTL

------------------------------------------------------------------------------
(* The refinement.                                                          *)

LEMMA ViewerStep ==
  ASSUME Inv, [Next]_vars
  PROVE  [Viewer!ViewerNext]_(Viewer!viewerVars)
<1> USE DEF Viewer!ViewerNext, Viewer!viewerVars
<1>0. LookInv
  BY DEF Inv
<1>1. ASSUME NEW b \in Blocks, Load(b) PROVE Viewer!Ask
  BY <1>1 DEF Load, Viewer!Ask
<1>2. CASE StoreStep \/ SweepStep
  BY <1>2 DEF StoreStep, Delete, Put, Sweep, SweepStep, EvictNext, SweepReturns, SweepThrows
<1>3. CASE HookStep
  <2>1. CASE \E b \in Blocks : Show(b)
    BY <1>1, <2>1 DEF Show
  <2>2. CASE Retry
    BY <1>0, <1>1, <2>2 DEF Retry, LookInv, Looking
  <2>3. CASE Hide
    BY <2>3 DEF Hide, Blank, Viewer!Close
  <2>4. CASE FetchingTimer
    BY <1>0, <2>4 DEF FetchingTimer, LookInv, LookType, HookRecord
  <2>5. CASE UnavailableTimer
    BY <1>0, <2>5 DEF UnavailableTimer, Viewer!GiveUp, LookInv, LookType, Looking, HookRecord
  <2>6. QED
    BY <1>3, <2>1, <2>2, <2>3, <2>4, <2>5 DEF HookStep
<1>4. ASSUME NEW c \in Calls, NEW data \in {call[c].block, NoBlock}, call[c].layer # "idle",
             Answer(c, data)
      PROVE  Viewer!Reveal \/ UNCHANGED Viewer!viewerVars
  <2>1. CASE hook.call # c
    BY <1>4, <2>1 DEF Answer
  <2>2. CASE hook.call = c /\ data = NoBlock
    BY <1>0, <1>4, <2>2 DEF Answer, LookInv, LookType, HookRecord
  <2>3. CASE hook.call = c /\ data # NoBlock
    <3>1. data = hook.block /\ hook.status \in {"loading", "error"}
      BY <1>4, <1>0, <2>3 DEF LookInv, Looking
    <3>2. hook' = [hook EXCEPT !.data = data, !.status = "loaded", !.progress = "cache",
                               !.timers = {}, !.call = NoCall]
      BY <1>4, <2>3 DEF Answer
    <3>3. QED
      BY <1>0, <3>1, <3>2 DEF Viewer!Reveal, LookInv, LookType, HookRecord
  <2>4. QED
    BY <2>1, <2>2, <2>3
<1>5. ASSUME NEW c \in Calls, CascadeStep(c)
      PROVE  Viewer!Reveal \/ UNCHANGED Viewer!viewerVars
  <2>1. CASE LocalFound(c)
    BY <1>4, <2>1 DEF LocalFound
  <2>2. CASE LocalMissing(c)
    BY <2>2 DEF LocalMissing
  <2>3. CASE LayerDelivers(c)
    <3>1. PICK data \in Offers(c) :
            call[c].layer \in Remote /\ Accepted(c, data) /\ Answer(c, data)
      BY <2>3 DEF LayerDelivers
    <3>2. data = call[c].block /\ call[c].layer # "idle"
      BY <3>1 DEF Offers, Accepted, Remote
    <3>3. QED
      BY <1>4, <3>1, <3>2
  <2>4. CASE LayerFails(c) \/ LayerCannotStore(c)
    BY <1>4, <2>4 DEF LayerFails, LayerCannotStore, NextLayer, Remote
  <2>5. QED
    BY <1>5, <2>1, <2>2, <2>3, <2>4 DEF CascadeStep
<1>6. CASE SaveIdentity \/ Unlock
  BY <1>6 DEF SaveIdentity, Unlock
<1>7. CASE Restart
  BY <1>7 DEF Restart, Blank, Viewer!Close
<1>8. CASE UNCHANGED vars
  BY <1>8 DEF vars
<1>9. QED
  BY <1>2, <1>3, <1>5, <1>6, <1>7, <1>8 DEF Next, MainStep

(* useBlockContent keeps BlockViewer's promise whatever peers, server and   *)
(* timers do: only the block asked for is ever shown, and no timer takes it *)
(* back.                                                                    *)
THEOREM ViewerIsImplemented == Spec => ViewerImplemented
<1>1. Init => Viewer!ViewerInit
  BY DEF Init, Blank, Viewer!ViewerInit
<1>2. Inv /\ [Next]_vars => [Viewer!ViewerNext]_(Viewer!viewerVars)
  BY ViewerStep
<1>3. QED
  BY <1>1, <1>2, InvAlways, PTL DEF Spec, ViewerImplemented, Viewer!ViewerSpec

------------------------------------------------------------------------------
(* Liveness: the timers end the loading state.                              *)

HookMoves ==
  \/ hook' \in {hook, [hook EXCEPT !.call = NoCall]}
  \/ hook'.status # "loading"
  \/ FetchingTimer
  \/ \E b \in Blocks : Load(b) /\ (b # hook.block \/ hook.progress = "unavailable")

LEMMA HookAlwaysMoves ==
  ASSUME Inv, [Next]_vars
  PROVE  HookMoves
<1> USE DEF HookMoves
<1>0. hook \in HookRecord
  BY DEF Inv, LookInv, LookType
<1>1. CASE StoreStep \/ SweepStep
  BY <1>1 DEF StoreStep, Delete, Put, Sweep, SweepStep, EvictNext, SweepReturns, SweepThrows
<1>2. CASE HookStep
  <2>1. CASE \E b \in Blocks : Show(b)
    BY <2>1 DEF Show
  <2>2. CASE Retry
    BY <1>2, <2>2 DEF Retry, Inv, LookInv, Looking
  <2>3. CASE Hide
    BY <2>3 DEF Hide, Blank
  <2>4. CASE FetchingTimer
    BY <2>4
  <2>5. CASE UnavailableTimer
    BY <1>0, <2>5 DEF UnavailableTimer, HookRecord
  <2>6. QED
    BY <1>2, <2>1, <2>2, <2>3, <2>4, <2>5 DEF HookStep
<1>3. ASSUME NEW c, NEW data, Answer(c, data) PROVE HookMoves
  <2>1. hook' = hook \/ hook' = [hook EXCEPT !.call = NoCall]
        \/ hook' = [hook EXCEPT !.data = data, !.status = "loaded", !.progress = "cache",
                                !.timers = {}, !.call = NoCall]
    BY <1>3 DEF Answer
  <2>2. QED
    BY <1>0, <2>1 DEF HookRecord
<1>4. ASSUME NEW c \in Calls, CascadeStep(c) PROVE HookMoves
  <2>1. UNCHANGED hook \/ \E data : Answer(c, data)
    BY <1>4 DEF CascadeStep, LocalFound, LocalMissing, LayerDelivers, LayerFails,
                LayerCannotStore, NextLayer
  <2>2. QED
    BY <1>3, <2>1
<1>5. CASE SaveIdentity \/ Unlock
  BY <1>5 DEF SaveIdentity, Unlock
<1>6. CASE Restart
  BY <1>6 DEF Restart, Blank
<1>7. CASE UNCHANGED vars
  BY <1>7 DEF vars
<1>8. QED
  BY <1>1, <1>2, <1>4, <1>5, <1>6, <1>7 DEF Next, MainStep

(* As long as the hook waits, the timer that ends the wait is running, and  *)
(* nothing but that timer offers to try again.                              *)
LoadingIsTimed ==
  hook.status = "loading" =>
    "unavailable" \in hook.timers /\ hook.progress # "unavailable"

THEOREM LoadingIsAlwaysTimed == Spec => []LoadingIsTimed
<1>1. Init => LoadingIsTimed
  BY DEF Init, Blank, LoadingIsTimed
<1>2. Inv /\ LoadingIsTimed /\ [Next]_vars => LoadingIsTimed'
  <2> SUFFICES ASSUME Inv, LoadingIsTimed, HookMoves PROVE LoadingIsTimed'
    BY HookAlwaysMoves
  <2>1. hook \in HookRecord
    BY DEF Inv, LookInv, LookType
  <2>2. CASE hook' \in {hook, [hook EXCEPT !.call = NoCall]} \/ hook'.status # "loading"
    BY <2>1, <2>2 DEF LoadingIsTimed, HookRecord
  <2>3. CASE FetchingTimer
    BY <2>1, <2>3 DEF FetchingTimer, LoadingIsTimed, HookRecord
  <2>4. CASE \E b \in Blocks : Load(b)
    BY <2>4 DEF Load, LoadingIsTimed
  <2>5. QED
    BY <2>2, <2>3, <2>4 DEF HookMoves
<1>3. QED
  BY <1>1, <1>2, InvAlways, PTL DEF Spec

(* Fairness with its guard in place of ENABLED, which the prover does not   *)
(* know: while a timer is set, timers go on firing.                         *)
TimerFires == FetchingTimer \/ UnavailableTimer
TimedSpec == Spec /\ ([]<>~(hook.timers # {}) \/ []<><<TimerFires>>_vars)

(* Both timers of useBlockContent fire in turn unless something else ends   *)
(* the wait: the picture does not stay in the loading state, even if every  *)
(* cascade hangs.                                                           *)
THEOREM LoadingIsAlwaysBounded == TimedSpec => LoadingIsBounded
<1>1. ASSUME NEW b \in Blocks
      PROVE  TimedSpec => ((hook.status = "loading" /\ hook.block = b)
                             ~> (hook.status # "loading" \/ hook.block # b))
  <2> DEFINE Waits == hook.status = "loading" /\ hook.block = b
             Early == Waits /\ "fetching" \in hook.timers
             Late  == Waits /\ hook.timers = {"unavailable"}
             Over  == hook.status # "loading" \/ hook.block # b
             Ticks == hook.timers # {}
             Safe  == Inv /\ LoadingIsTimed
  <2>1. Spec => []Safe
    BY InvAlways, LoadingIsAlwaysTimed, PTL
  <2>2. Safe => hook \in HookRecord
    BY DEF Inv, LookInv, LookType
  <2>3. Safe /\ Waits => (Early \/ Late) /\ Ticks
    BY <2>2 DEF LoadingIsTimed, HookRecord
  <2>4. Safe /\ Early /\ [Next]_vars => Early' \/ Late' \/ Over'
    <3> SUFFICES ASSUME Safe, Early, HookMoves PROVE Early' \/ Late' \/ Over'
      BY HookAlwaysMoves
    <3>1. CASE hook' \in {hook, [hook EXCEPT !.call = NoCall]} \/ hook'.status # "loading"
      BY <2>2, <3>1 DEF HookRecord
    <3>2. CASE FetchingTimer
      BY <2>2, <3>2 DEF FetchingTimer, LoadingIsTimed, HookRecord
    <3>3. CASE \E x \in Blocks : Load(x)
      BY <3>3 DEF Load
    <3>4. QED
      BY <3>1, <3>2, <3>3 DEF HookMoves
  <2>5. Safe /\ Late /\ [Next]_vars => Late' \/ Over'
    <3> SUFFICES ASSUME Safe, Late, HookMoves PROVE Late' \/ Over'
      BY HookAlwaysMoves
    <3>1. CASE hook' \in {hook, [hook EXCEPT !.call = NoCall]} \/ hook'.status # "loading"
      BY <2>2, <3>1 DEF HookRecord
    <3>2. CASE FetchingTimer
      BY <3>2 DEF FetchingTimer
    <3>3. CASE \E x \in Blocks : Load(x) /\ (x # hook.block \/ hook.progress = "unavailable")
      BY <3>3 DEF Load, LoadingIsTimed
    <3>4. QED
      BY <3>1, <3>2, <3>3 DEF HookMoves
  <2>6. Safe /\ Early /\ <<TimerFires>>_vars => Late' \/ Over'
    <3>1. Safe /\ Early /\ FetchingTimer => Late' \/ Over'
      BY <2>2 DEF FetchingTimer, LoadingIsTimed, HookRecord
    <3>2. Early => ~UnavailableTimer
      BY DEF UnavailableTimer
    <3>3. QED
      BY <3>1, <3>2 DEF TimerFires
  <2>7. Safe /\ Late /\ <<TimerFires>>_vars => Over'
    <3>1. Late => ~FetchingTimer
      BY DEF FetchingTimer
    <3>2. Safe /\ Late /\ UnavailableTimer => Over'
      BY <2>2 DEF UnavailableTimer, HookRecord
    <3>3. QED
      BY <3>1, <3>2 DEF TimerFires
  <2>8. Late => Waits
    OBVIOUS
  <2>9. Early => Waits
    OBVIOUS
  <2> DEFINE Fair == []<>~Ticks \/ []<><<TimerFires>>_vars
  <2>10. TimedSpec => Spec /\ Fair
    BY DEF TimedSpec
  <2> HIDE DEF Waits, Early, Late, Over, Ticks, Safe
  <2>11. Spec /\ Fair => (Early ~> Late \/ Over)
    BY <2>1, <2>3, <2>4, <2>6, <2>9, PTL DEF Spec
  <2>12. Spec /\ Fair => (Late ~> Over)
    BY <2>1, <2>3, <2>5, <2>7, <2>8, PTL DEF Spec
  <2>13. Spec /\ Fair => (Waits ~> Over)
    BY <2>1, <2>3, <2>11, <2>12, PTL
  <2>14. QED
    BY <2>10, <2>13 DEF Waits, Over
<1>2. QED
  BY <1>1 DEF LoadingIsBounded
==============================================================================
