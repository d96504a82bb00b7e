----------------------------- MODULE ClientBlocks ----------------------------
(* The block store of one client and everything that works on it: the index *)
(* rows and the encrypted files, the key, the eviction sweep, the cascade   *)
(* that looks for a block on disk, among the peers and on the server, and   *)
(* the hook that shows the outcome.  JavaScript runs one handler at a time, *)
(* so what a handler of the main process does between two awaits is one     *)
(* step, but for the sweep, whose loop takes a step for each block and lets *)
(* the renderer go on beside it.  What separates the file from its row is a *)
(* statement that fails or a process that dies.                             *)
(*                                                                          *)
(* The L0 memory cache, the time-to-live check and the sweep at start-up    *)
(* live in blocks/index.ts's init, which nothing calls: the cache is null,  *)
(* and the sweep runs once a budget has been set.  Access times are left    *)
(* out: of the blocks of a tier the sweep may take any one next.            *)
EXTENDS Integers, FiniteSets

CONSTANTS
  Blocks,     \* content hashes
  NoBlock,
  Calls,      \* cascades that may be under way at once
  NoCall,
  Budgets,    \* the byte budgets the user may choose
  NoBudget,
  Size,       \* the bytes of each block
  MaxPhrases  \* bound on the passphrases the stored identity has had

ASSUME SizeAssumption == Size \in [Blocks -> Nat]
ASSUME BlocksAssumption == IsFiniteSet(Blocks)
ASSUME BudgetAssumption == Budgets \subseteq Nat /\ NoBudget \notin Budgets
ASSUME NoneAssumption == NoBlock \notin Blocks /\ NoCall \notin Calls
ASSUME PhraseAssumption == MaxPhrases \in Nat

(* A key, a file or an identity that is not there is 0.                     *)
VARIABLES
  row,        \* block_meta: the tier of each block, 0 where there is no row
  file,       \* the whole file of each block: the key it is encrypted under
  identity,   \* local_identity: its passphrase, numbered from 1
  key,        \* the block store key in memory: the passphrase it is derived
              \* from, as the salt is always the same one
  budget,     \* of the sweep that is running
  toFree,     \* the bytes its loop has to go
  call,       \* each cascade: the layer it is at and the block it wants
  hook,       \* one useBlockContent
  torn        \* history: blocks whose deletion was cut off after the file

stored == <<row, file, torn>>
account == <<identity, key>>
sweep == <<budget, toFree>>
vars == <<row, file, identity, key, budget, toFree, call, hook, torn>>

Tiers == 0..4
(* "peers" are those connected, then those the directory names.             *)
Layers == {"idle", "local", "peers", "server"}

Idle == [layer |-> "idle", block |-> NoBlock]
Blank == [block |-> NoBlock, status |-> "idle", progress |-> "cache",
          data |-> NoBlock, call |-> NoCall, timers |-> {}]

Init ==
  /\ row = [b \in Blocks |-> 0]
  /\ file = [b \in Blocks |-> 0]
  /\ identity = 0 /\ key = 0
  /\ budget = NoBudget /\ toFree = 0
  /\ call = [c \in Calls |-> Idle]
  /\ hook = Blank
  /\ torn = {}

------------------------------------------------------------------------------
(* The store.                                                               *)

Rows == {b \in Blocks : row[b] # 0}

(* decryptBlock succeeds: the file is whole and was encrypted under the key *)
(* in memory.                                                               *)
Decrypts(b) == file[b] # 0 /\ file[b] = key

(* getLocalBlock finds the row and the file, and can decrypt.               *)
Readable(b) == row[b] # 0 /\ Decrypts(b)

(* putBlock on a block that has a row: the tier may rise, nothing is        *)
(* written to disk, whatever has become of the file.                        *)
PutKnown(b, tier) ==
  /\ row[b] # 0
  /\ row' = [row EXCEPT ![b] = IF tier < @ THEN tier ELSE @]
  /\ UNCHANGED <<file, torn>>

PutNew(b, tier) ==
  /\ row[b] = 0 /\ key # 0
  /\ file' = [file EXCEPT ![b] = key]
  /\ row' = [row EXCEPT ![b] = tier]
  /\ torn' = torn \ {b}

(* Altered: the row is inserted before the file is written.                 *)
PutCutRowFirst(b) ==
  /\ row[b] = 0 /\ key # 0
  /\ row' = [row EXCEPT ![b] = 2]
  /\ UNCHANGED <<file, torn>>

(* The write of the file stops half-way, or the INSERT fails: what is there *)
(* counts as no file, as only a row leads to one and the next put of this   *)
(* block writes it anew.                                                    *)
PutCut(b) ==
  /\ row[b] = 0 /\ key # 0
  /\ UNCHANGED stored

(* There is no key: putBlock throws before it touches anything.             *)
PutRefused(b) == row[b] = 0 /\ key = 0 /\ UNCHANGED stored

PutThrows(b) == PutCut(b) \/ PutRefused(b)

(* deleteBlock leaves neither file nor row, nor the wound of an earlier     *)
(* deletion.                                                                *)
Erase(b) ==
  /\ file' = [file EXCEPT ![b] = 0]
  /\ row' = [row EXCEPT ![b] = 0]
  /\ torn' = torn \ {b}

(* The same, cut off between the file and the row.                          *)
EraseCut(b) ==
  /\ file' = [file EXCEPT ![b] = 0]
  /\ torn' = torn \cup {b}
  /\ UNCHANGED row

(* BLOCK_PUT, attachments sent (tier 2) and direct messages (tier 1).       *)
Put(b, tier) ==
  /\ PutKnown(b, tier) \/ PutNew(b, tier) \/ PutThrows(b)
  /\ UNCHANGED <<account, sweep, call, hook>>

Delete(b) ==
  /\ row[b] # 0
  /\ Erase(b) \/ EraseCut(b)
  /\ UNCHANGED <<account, sweep, call, hook>>

------------------------------------------------------------------------------
(* The eviction sweep.                                                      *)

(* The bytes of some blocks, each byte a pair.                               *)
UsageOf(some) == Cardinality(UNION {{b} \X (1..Size[b]) : b \in some})

Own == {b \in Blocks : row[b] = 1}
Evictable == Rows \ Own

(* Altered: the user's own blocks are not taken off the budget.             *)
ExcessOfShare(limit) == UsageOf(Evictable) - limit

(* Bytes over the budget, of which the user's own blocks take their part    *)
(* first.                                                                   *)
Excess(limit) ==
  LET room == limit - UsageOf(Own)
  IN  UsageOf(Evictable) - (IF room > 0 THEN room ELSE 0)

(* runEvictionSweep counts once.  BLOCK_SET_CONFIG runs it, and the timer   *)
(* it leaves runs it again with the same budget every minute.               *)
Sweep(limit) ==
  /\ budget' = limit
  /\ toFree' = Excess(limit)
  /\ UNCHANGED <<stored, account, call, hook>>

(* The next block of the loop: the tier with the highest number comes       *)
(* first.  A list that was read when its tier was begun is still right.     *)
NextVictim(b) ==
  b \in Evictable /\ \A other \in Evictable : row[other] <= row[b]

EvictNext(b) ==
  /\ toFree > 0
  /\ NextVictim(b)
  /\ Erase(b)
  /\ toFree' = toFree - Size[b]
  /\ UNCHANGED <<account, budget, call, hook>>

(* The sweep ends when enough was freed, be it at once, or nothing is left. *)
Through == toFree <= 0 \/ Evictable = {}

SweepReturns ==
  /\ Through
  /\ budget' = NoBudget /\ toFree' = 0
  /\ UNCHANGED <<stored, account, call, hook>>

(* A query or a deletion throws: the sweep ends there and keeps what it has *)
(* done.                                                                    *)
SweepThrows ==
  /\ budget' = NoBudget /\ toFree' = 0
  /\ \/ UNCHANGED stored
     \/ toFree > 0 /\ \E b \in Blocks : NextVictim(b) /\ EraseCut(b)
  /\ UNCHANGED <<account, call, hook>>

SweepStep == SweepReturns \/ SweepThrows \/ \E b \in Blocks : EvictNext(b)

------------------------------------------------------------------------------
(* The hook.                                                                *)

(* Calls are told apart by name only: a new one takes a fixed free name.    *)
Free == \E c \in Calls : call[c] = Idle
Fresh == CHOOSE c \in Calls : call[c] = Idle

(* The effect of useBlockContent: the earlier call is forgotten, both       *)
(* timers start, and a cascade begins.                                      *)
Load(b) ==
  /\ Free
  /\ call' = [call EXCEPT ![Fresh] = [layer |-> "local", block |-> b]]
  /\ hook' = [block |-> b, status |-> "loading", progress |-> "cache",
              data |-> NoBlock, call |-> Fresh, timers |-> {"fetching", "unavailable"}]
  /\ UNCHANGED <<stored, account, sweep>>

(* The component is mounted, or its block changes.                          *)
Show(b) == b # hook.block /\ Load(b)

Retry == hook.progress = "unavailable" /\ Load(hook.block)

Hide ==
  /\ hook.status # "idle"
  /\ hook' = Blank
  /\ UNCHANGED <<stored, account, sweep, call>>

(* Altered: the first timer clears both.                                    *)
FetchingTimerClears ==
  /\ "fetching" \in hook.timers
  /\ hook' = [hook EXCEPT !.progress = "fetching", !.timers = {}]
  /\ UNCHANGED <<stored, account, sweep, call>>

(* Three seconds, and then fifteen, without an answer.                      *)
FetchingTimer ==
  /\ "fetching" \in hook.timers
  /\ hook' = [hook EXCEPT !.progress = "fetching", !.timers = @ \ {"fetching"}]
  /\ UNCHANGED <<stored, account, sweep, call>>

UnavailableTimer ==
  /\ hook.timers = {"unavailable"}
  /\ hook' = [hook EXCEPT !.progress = "unavailable", !.status = "error", !.timers = {}]
  /\ UNCHANGED <<stored, account, sweep, call>>

(* The cascade's promise settles: a block is shown if it is still the one   *)
(* asked for, and an empty answer is left to the timers.                    *)
Answer(c, data) ==
  /\ call' = [call EXCEPT ![c] = Idle]
  /\ hook' = IF hook.call # c THEN hook
             ELSE IF data = NoBlock THEN [hook EXCEPT !.call = NoCall]
             ELSE [hook EXCEPT !.data = data, !.status = "loaded",
                     !.progress = "cache", !.timers = {}, !.call = NoCall]

------------------------------------------------------------------------------
(* The cascade.                                                             *)

(* L1.  Without a libp2p node the peers are skipped.                        *)
LocalFound(c) ==
  /\ call[c].layer = "local" /\ Readable(call[c].block)
  /\ Answer(c, call[c].block)
  /\ UNCHANGED <<stored, account, sweep>>

LocalMissing(c) ==
  /\ call[c].layer = "local" /\ ~Readable(call[c].block)
  /\ \E next \in {"peers", "server"} : call' = [call EXCEPT ![c].layer = next]
  /\ UNCHANGED <<stored, account, sweep, hook>>

Remote == {"peers", "server"}
TierOf(layer) == IF layer = "server" THEN 4 ELSE 3

(* What may come over the wire: anything from a peer, the block asked for   *)
(* from the server, which verified it on the way in.                        *)
Offers(c) == IF call[c].layer = "server" THEN {call[c].block} ELSE Blocks

(* Altered: the hash of what a peer sent is not compared.                   *)
AcceptUnverified(c, data) == TRUE

(* fetchBlockFromPeer compares the hash of what it got.                     *)
Accepted(c, data) == call[c].layer = "server" \/ data = call[c].block

LayerDelivers(c) ==
  \E data \in Offers(c) :
    /\ call[c].layer \in Remote /\ Accepted(c, data)
    /\ PutKnown(data, TierOf(call[c].layer)) \/ PutNew(data, TierOf(call[c].layer))
    /\ Answer(c, data)
    /\ UNCHANGED <<account, sweep>>

(* The layer has nothing, fails or takes too long.                          *)
NextLayer(c) ==
  IF call[c].layer = "server"
  THEN Answer(c, NoBlock)
  ELSE /\ call' = [call EXCEPT ![c].layer = "server"]
       /\ UNCHANGED hook

LayerFails(c) ==
  /\ call[c].layer \in Remote
  /\ NextLayer(c)
  /\ UNCHANGED <<stored, account, sweep>>

(* The block came, but putBlock threw: the catch takes the block with it.   *)
LayerCannotStore(c) ==
  /\ call[c].layer \in Remote
  /\ PutThrows(call[c].block)
  /\ NextLayer(c)
  /\ UNCHANGED <<account, sweep>>

------------------------------------------------------------------------------
(* The identity, and the process.                                           *)

(* IDENTITY_CREATE, IDENTITY_RECOVER and PROVISIONING_RECEIVE write the row *)
(* of the identity, over any that was there.  With the passphrase it had    *)
(* nothing changes here; this is another one, not used before.  The block   *)
(* store key in memory stays what it was.                                   *)
SaveIdentity ==
  /\ identity < MaxPhrases
  /\ identity' = identity + 1
  /\ UNCHANGED <<stored, key, sweep, call, hook>>

(* IDENTITY_UNLOCK takes the passphrase that decrypts the row, and derives  *)
(* the block store key from it.  Where that fails nothing changes here.      *)
Unlock ==
  /\ identity # 0
  /\ key' = identity
  /\ UNCHANGED <<stored, identity, sweep, call, hook>>

(* The process ends, in order or not, and is started again.                 *)
Restart ==
  /\ key' = 0
  /\ budget' = NoBudget /\ toFree' = 0
  /\ call' = [c \in Calls |-> Idle]
  /\ hook' = Blank
  /\ UNCHANGED <<stored, identity>>

StoreStep ==
  \/ \E b \in Blocks : Delete(b) \/ \E tier \in {1, 2} : Put(b, tier)
  \/ \E limit \in Budgets : Sweep(limit)

CascadeStep(c) ==
  LocalFound(c) \/ LocalMissing(c) \/ LayerDelivers(c) \/ LayerFails(c) \/ LayerCannotStore(c)

HookStep ==
  \/ \E b \in Blocks : Show(b)
  \/ Retry \/ Hide \/ FetchingTimer \/ UnavailableTimer

(* A handler of the main process that runs to its end.                      *)
MainStep == StoreStep \/ SaveIdentity \/ Unlock \/ \E c \in Calls : CascadeStep(c)

(* While the sweep runs, no other handler of the main process does; the     *)
(* process may die.                                                         *)
Next ==
  \/ budget = NoBudget /\ MainStep
  \/ budget # NoBudget /\ SweepStep
  \/ HookStep
  \/ Restart

Spec == Init /\ [][Next]_vars

(* The timers of the event loop fire while the window is open.  Peers and   *)
(* servers owe no answer: a stream read has no timeout.                     *)
FairSpec == Spec /\ WF_vars(FetchingTimer \/ UnavailableTimer)

------------------------------------------------------------------------------
(* Properties.                                                              *)

(* Type correctness of the store, the cascade and the hook.                 *)
TypeOK ==
  /\ row \in [Blocks -> Tiers]
  /\ file \in [Blocks -> 0..MaxPhrases]
  /\ identity \in 0..MaxPhrases /\ key \in 0..MaxPhrases
  /\ budget \in Budgets \cup {NoBudget} /\ toFree \in Int
  /\ call \in [Calls -> [layer : Layers, block : Blocks \cup {NoBlock}]]
  /\ hook \in [block : Blocks \cup {NoBlock},
               status : {"idle", "loading", "loaded", "error"},
               progress : {"cache", "fetching", "unavailable"},
               data : Blocks \cup {NoBlock},
               call : Calls \cup {NoCall},
               timers : SUBSET {"fetching", "unavailable"}]
  /\ torn \subseteq Blocks

(* A row announces a file that is whole: putBlock writes the file before    *)
(* the row, through every failed statement and crash, and only a deletion   *)
(* cut off between the two leaves a row without its file.  Once there is a  *)
(* key the block can be read back, unless an identity with another          *)
(* passphrase has taken the place of the first.                             *)
RowsReadBack ==
  \A b \in Rows \ torn :
    file[b] # 0 /\ (identity = 1 /\ key # 0 => Readable(b))

(* The bytes the loop of the sweep counts down are those the table is over  *)
(* the budget: as long as it goes on to delete, the store is over its       *)
(* budget, and when it is through the store is within the budget or holds   *)
(* nothing but the user's own blocks and empty ones.                        *)
SweepKeepsBudget ==
  budget # NoBudget =>
    /\ toFree > 0 => UsageOf(Rows) > budget
    /\ Through => UsageOf(Rows) <= budget \/ UsageOf(Rows) = UsageOf(Own)

(* Whatever peers send and however late the cascades answer, the picture on *)
(* the screen behaves like BlockViewer: no other block is ever shown, and   *)
(* what is shown is not taken back by a timer.                              *)
Viewer == INSTANCE BlockViewer WITH
  asked <- hook.block, face <- hook.status, shown <- hook.data

ViewerImplemented == Viewer!ViewerSpec

(* A picture does not stay in the loading state: the timers end it even     *)
(* when no layer ever answers.                                              *)
LoadingIsBounded ==
  \A b \in Blocks :
    (hook.status = "loading" /\ hook.block = b)
      ~> (hook.status # "loading" \/ hook.block # b)
==============================================================================
