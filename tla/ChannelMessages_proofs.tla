------------------------ MODULE ChannelMessages_proofs ------------------------
(***************************************************************************)
(* Proofs about module ChannelMessages, for any number of rows, changes and *)
(* requests, and any page sizes and cap.                                    *)
(***************************************************************************)
EXTENDS ChannelMessages, FiniteSetTheorems, WellFoundedInduction, TLAPS

USE DEF serverVars, clientVars

(* The record fields that the proof looks at are there.  What the pages and  *)
(* the messages hold does not matter to it.                                  *)
IsWindow(w) == w = [x \in {"messages", "oldest", "hasMore", "loading"} |-> w[x]]
IsFetch(r)  == r = [x \in {"kind", "read", "before", "page", "more", "stale"} |-> r[x]]

WindowShape == IsWindow(window)

FetchShape ==
  /\ fetch = [f \in Fetches |-> fetch[f]]
  /\ \A f \in Fetches : IsFetch(fetch[f])

LoadInv == WindowShape /\ FetchShape /\ LoadingIsOwned

(* One request changes and the others stay.                                  *)
LEMMA OneRequest ==
  ASSUME FetchShape, NEW f \in Fetches, NEW r, IsFetch(r),
         fetch' = [fetch EXCEPT ![f] = r]
  PROVE  /\ FetchShape'
         /\ fetch'[f].kind = r.kind
         /\ \A g \in Fetches \ {f} : fetch'[g] = fetch[g]
<1>1. fetch' = [g \in Fetches |-> IF g = f THEN r ELSE fetch[g]]
  BY DEF FetchShape
<1>2. \A g \in Fetches : fetch'[g] = IF g = f THEN r ELSE fetch[g]
  BY <1>1
<1>3. \A g \in Fetches : IsFetch(fetch'[g])
  BY <1>2 DEF FetchShape
<1>4. fetch' = [g \in Fetches |-> fetch'[g]]
  BY <1>1
<1>5. FetchShape'
  BY <1>3, <1>4 DEF FetchShape, IsFetch
<1> QED
  BY <1>2, <1>5

LEMMA LoadInit == Init => LoadInv
<1> SUFFICES ASSUME Init PROVE LoadInv
  OBVIOUS
<1>1. IsFetch(Idle) /\ IsWindow(EmptyWindow) /\ ~EmptyWindow.loading
  BY DEF IsFetch, IsWindow, Idle, EmptyWindow
<1> QED
  BY <1>1 DEF Init, LoadInv, WindowShape, FetchShape, LoadingIsOwned

(* An event changes neither the flag nor what kind of request is in flight.  *)
LEMMA EventKeeps ==
  ASSUME LoadInv, NEW k, Deliver(k) \/ Miss(k)
  PROVE  LoadInv'
<1>1. FetchShape' /\ \A f \in Fetches : fetch'[f].kind = fetch[f].kind
  <2>1. fetch' = [f \in Fetches |-> IF Outdates(pending[k], f)
                                    THEN [fetch[f] EXCEPT !.stale = TRUE] ELSE fetch[f]]
    BY DEF Deliver, Miss, MarkStale
  <2>2. \A f \in Fetches : IsFetch(fetch[f]) =>
          /\ IsFetch([fetch[f] EXCEPT !.stale = TRUE])
          /\ [fetch[f] EXCEPT !.stale = TRUE].kind = fetch[f].kind
    BY DEF IsFetch
  <2>3. \A f \in Fetches : IsFetch(fetch'[f]) /\ fetch'[f].kind = fetch[f].kind
    BY <2>1, <2>2 DEF LoadInv, FetchShape
  <2>4. fetch' = [f \in Fetches |-> fetch'[f]]
    BY <2>1
  <2> QED
    BY <2>3, <2>4 DEF FetchShape, IsFetch
<1>2. WindowShape' /\ window'.loading = window.loading
  <2>1. CASE window' = window
    BY <2>1 DEF LoadInv, WindowShape, IsWindow
  <2>2. CASE window' = Handled(pending[k])
    <3>1. Appended(pending[k]).loading = window.loading /\ IsWindow(Appended(pending[k]))
      BY DEF Appended, LoadInv, WindowShape, IsWindow
    <3>2. Without(pending[k]).loading = window.loading /\ IsWindow(Without(pending[k]))
      BY DEF Without, LoadInv, WindowShape, IsWindow
    <3>3. WithPatch(pending[k]).loading = window.loading /\ IsWindow(WithPatch(pending[k]))
      BY DEF WithPatch, LoadInv, WindowShape, IsWindow
    <3> QED
      BY <2>2, <3>1, <3>2, <3>3 DEF Handled, LoadInv, WindowShape, IsWindow
  <2> QED
    BY <2>1, <2>2 DEF Deliver, Miss
<1> QED
  BY <1>1, <1>2 DEF LoadInv, LoadingIsOwned

(* The flag is set together with the request that will clear it.             *)
LEMMA AskKeeps ==
  ASSUME LoadInv, NEW f \in Fetches, NEW kind \in {"first", "older"}, NEW before,
         Ask(f, kind, before), window' = [window EXCEPT !.loading = TRUE]
  PROVE  LoadInv'
<1> DEFINE r == [Idle EXCEPT !.kind = kind, !.before = before]
<1>1. IsFetch(r) /\ r.kind = kind
  BY DEF Idle, IsFetch
<1>2. fetch' = [fetch EXCEPT ![f] = r]
  BY DEF Ask
<1>3. WindowShape'
  BY DEF LoadInv, WindowShape, IsWindow
<1> HIDE DEF r
<1>4. FetchShape' /\ fetch'[f].kind = kind
  BY <1>1, <1>2, OneRequest DEF LoadInv
<1> QED
  BY <1>3, <1>4 DEF LoadInv, LoadingIsOwned

LEMMA LoadStep == LoadInv /\ [Next]_vars => LoadInv'
<1> SUFFICES ASSUME LoadInv, [Next]_vars PROVE LoadInv'
  OBVIOUS
<1>0. ASSUME UNCHANGED <<window, fetch>> PROVE LoadInv'
  BY <1>0 DEF LoadInv, WindowShape, IsWindow, FetchShape, IsFetch, LoadingIsOwned
<1>1. CASE ServerStep \/ UNCHANGED vars
  <2>1. CASE CreateMessage \/ \E kind \in {"new", "silent"} : HandleGossipMessage(kind)
    BY <1>0, <2>1 DEF CreateMessage, HandleGossipMessage, Change
  <2>2. ASSUME NEW i \in DOMAIN log,
               \/ EditMessage(i) \/ DeleteMessage(i) \/ AddReaction(i) \/ RemoveReaction(i)
        PROVE  LoadInv'
    BY <1>0, <2>2 DEF EditMessage, DeleteMessage, AddReaction, RemoveReaction, Change
  <2>3. CASE UNCHANGED vars
    BY <1>0, <2>3 DEF vars
  <2> QED
    BY <1>1, <2>1, <2>2, <2>3 DEF ServerStep
<1>2. CASE EventStep
  BY <1>2, EventKeeps DEF EventStep
<1>3. CASE Open
  <2>1. CASE UNCHANGED <<window, fetch>>
    BY <1>0, <2>1
  <2>2. ASSUME NEW f \in Fetches, Ask(f, "first", 0), window' = [window EXCEPT !.loading = TRUE]
        PROVE  LoadInv'
    BY <2>2, AskKeeps
  <2> QED
    BY <1>3, <2>1, <2>2 DEF Open
<1>4. ASSUME NEW v, Leave(v) PROVE LoadInv'
  BY <1>0, <1>4 DEF Leave
<1>5. ASSUME NEW f \in Fetches, LoadOlder(f) PROVE LoadInv'
  BY <1>5, AskKeeps DEF LoadOlder
<1>6. ASSUME NEW f \in Fetches, Prefetch(f) PROVE LoadInv'
  <2>1. fetch[f].kind = "none"
    BY <1>6 DEF Prefetch, Ask, Idle
  <2>2. /\ IsFetch([Idle EXCEPT !.kind = "prefetch", !.before = 0])
        /\ fetch' = [fetch EXCEPT ![f] = [Idle EXCEPT !.kind = "prefetch", !.before = 0]]
    BY <1>6 DEF Prefetch, Ask, Idle, IsFetch
  <2> QED
    BY <1>6, <2>1, <2>2, OneRequest DEF Prefetch, LoadInv, WindowShape, IsWindow, LoadingIsOwned
<1>7. ASSUME NEW f \in Fetches, ReadPage(f) PROVE LoadInv'
  <2>1. PICK page, more : fetch' = [fetch EXCEPT ![f].read = TRUE, ![f].page = page, ![f].more = more]
    BY <1>7 DEF ReadPage
  <2> DEFINE r == [fetch[f] EXCEPT !.read = TRUE, !.page = page, !.more = more]
  <2>2. IsFetch(r) /\ r.kind = fetch[f].kind
    BY DEF LoadInv, FetchShape, IsFetch
  <2>3. fetch' = [fetch EXCEPT ![f] = r]
    BY <2>1
  <2> HIDE DEF r
  <2>4. /\ FetchShape' /\ fetch'[f].kind = fetch[f].kind
        /\ \A g \in Fetches \ {f} : fetch'[g] = fetch[g]
    BY <2>2, <2>3, OneRequest DEF LoadInv
  <2>5. \A g \in Fetches : fetch'[g].kind = fetch[g].kind
    BY <2>4
  <2>6. window' = window
    BY <1>7 DEF ReadPage
  <2>7. WindowShape'
    BY <2>6 DEF LoadInv, WindowShape, IsWindow
  <2> QED
    BY <2>4, <2>5, <2>6, <2>7 DEF LoadInv, LoadingIsOwned
<1>8. ASSUME NEW f \in Fetches, FetchFails(f) PROVE LoadInv'
  <2>1. FetchShape' /\ \A g \in Fetches \ {f} : fetch'[g] = fetch[g]
    BY <1>8, OneRequest DEF FetchFails, Idle, IsFetch, LoadInv
  <2> QED
    BY <1>8, <2>1 DEF FetchFails, LoadInv, WindowShape, IsWindow, LoadingIsOwned
<1>9. ASSUME NEW f \in Fetches, ApplyFirst(f) \/ ApplyOlder(f) PROVE LoadInv'
  <2>1. FetchShape'
    BY <1>9, OneRequest DEF ApplyFirst, ApplyOlder, Answered, Idle, IsFetch, LoadInv
  <2>2. WindowShape' /\ ~window'.loading
    <3>1. PICK messages, oldest, more :
            window' = [messages |-> messages, oldest |-> oldest, hasMore |-> more, loading |-> FALSE]
      BY <1>9 DEF ApplyFirst, ApplyOlder
    <3> QED
      BY <3>1 DEF WindowShape, IsWindow
  <2> QED
    BY <2>1, <2>2 DEF LoadInv, LoadingIsOwned
<1>10. ASSUME NEW f \in Fetches, ApplyPrefetch(f) PROVE LoadInv'
  <2>1. fetch[f].kind = "prefetch" /\ FetchShape' /\ \A g \in Fetches \ {f} : fetch'[g] = fetch[g]
    BY <1>10, OneRequest DEF ApplyPrefetch, Answered, Idle, IsFetch, LoadInv
  <2>2. WindowShape' /\ (window' = window \/ ~window'.loading)
    BY <1>10 DEF ApplyPrefetch, LoadInv, WindowShape, IsWindow
  <2> QED
    BY <2>1, <2>2 DEF LoadInv, LoadingIsOwned
<1> QED
  BY <1>1, <1>2, <1>3, <1>4, <1>5, <1>6, <1>7, <1>8, <1>9, <1>10 DEF Next, FetchStep

(* The loading flag, which keeps every other load of the channel away, is    *)
(* only set while a request is in flight whose end clears it.                *)
THEOREM LoadingEnds == Spec => []LoadingIsOwned
<1>1. LoadInv => LoadingIsOwned
  BY DEF LoadInv
<1> QED
  BY <1>1, LoadInit, LoadStep, PTL DEF Spec

-----------------------------------------------------------------------------
(* The order of a set of numbers.                                            *)

LEMMA FirstOfNaturals ==
  ASSUME NEW T \in SUBSET Nat, T # {}
  PROVE  \E i \in T : \A j \in T : i <= j
<1>1. PICK i \in T : \A j \in T : <<j, i>> \notin OpToRel(<, Nat)
  BY NatLessThanWellFounded, WFMin
<1>2. \A j \in T : ~(j < i)
  BY <1>1 DEF OpToRel
<1> QED
  BY <1>2

(* How many elements of K are not above i.                                   *)
Rank(K, i) == Cardinality({j \in K : j <= i})

LEMMA RankGrows ==
  ASSUME NEW N \in Nat, NEW K \in SUBSET (1..N)
  PROVE  /\ IsFiniteSet(K) /\ Cardinality(K) \in Nat
         /\ \A i \in Nat : Rank(K, i) \in Nat
         /\ Rank(K, 0) = 0 /\ Rank(K, N) = Cardinality(K)
         /\ \A i \in Nat : Rank(K, i + 1) = Rank(K, i) + (IF i + 1 \in K THEN 1 ELSE 0)
         /\ \A i \in Nat, j \in K : i < j => Rank(K, i) < Rank(K, j)
<1>0. \A j \in K : j \in Nat /\ ~(j <= 0) /\ j <= N
  OBVIOUS
<1>1. IsFiniteSet(K) /\ Cardinality(K) \in Nat
  <2>1. IsFiniteSet(1..N)
    BY FS_Interval
  <2> QED
    BY <2>1, FS_Subset, FS_CardinalityType
<1>2. \A i \in Nat : IsFiniteSet({j \in K : j <= i}) /\ Rank(K, i) \in Nat
  BY <1>1, FS_Subset, FS_CardinalityType DEF Rank
<1>3. Rank(K, 0) = 0
  <2>1. {j \in K : j <= 0} = {}
    BY <1>0
  <2> QED
    BY <2>1, FS_EmptySet DEF Rank
<1>4. Rank(K, N) = Cardinality(K)
  <2>1. {j \in K : j <= N} = K
    BY <1>0
  <2> QED
    BY <2>1 DEF Rank
<1>5. ASSUME NEW i \in Nat
      PROVE  Rank(K, i + 1) = Rank(K, i) + (IF i + 1 \in K THEN 1 ELSE 0)
  <2> DEFINE S == {j \in K : j <= i}
  <2>1. CASE i + 1 \in K
    <3>1. {j \in K : j <= i + 1} = S \cup {i + 1} /\ i + 1 \notin S
      <4>1. \A j \in K : j <= i + 1 <=> j <= i \/ j = i + 1
        BY <1>0
      <4>2. i + 1 \notin S
        OBVIOUS
      <4> QED
        BY <2>1, <4>1, <4>2
    <3>2. Cardinality(S \cup {i + 1}) = Cardinality(S) + 1
      BY <1>2, <3>1, FS_AddElement
    <3> QED
      BY <2>1, <3>1, <3>2 DEF Rank
  <2>2. CASE i + 1 \notin K
    <3>1. {j \in K : j <= i + 1} = S
      <4>1. \A j \in K : j <= i + 1 <=> j <= i
        BY <1>0, <2>2
      <4> QED
        BY <4>1
    <3>2. Rank(K, i + 1) = Rank(K, i)
      BY <3>1 DEF Rank
    <3>3. Rank(K, i) \in Nat
      BY <1>2
    <3> HIDE DEF S
    <3> QED
      BY <2>2, <3>2, <3>3
  <2> QED
    BY <2>1, <2>2
<1>6. ASSUME NEW i \in Nat, NEW j \in K, i < j
      PROVE  Rank(K, i) < Rank(K, j)
  <2> DEFINE S == {m \in K : m <= i}
             T == {m \in K : m <= j}
  <2>1. S \subseteq T /\ j \in T /\ j \notin S /\ j \in Nat
    <3>1. \A m \in K : m <= i => m <= j
      BY <1>0, <1>6
    <3>2. j \in Nat /\ ~(j <= i) /\ j <= j
      BY <1>0, <1>6
    <3> QED
      BY <3>1, <3>2
  <2>2. IsFiniteSet(T)
    BY <1>2, <2>1
  <2>3. Cardinality(S) <= Cardinality(T) /\ (Cardinality(S) = Cardinality(T) => S = T)
    BY <2>1, <2>2, FS_Subset
  <2>4. Cardinality(S) # Cardinality(T)
    BY <2>1, <2>3
  <2>5. Cardinality(S) \in Nat /\ Cardinality(T) \in Nat
    BY <2>1, <1>2 DEF Rank
  <2> HIDE DEF S, T
  <2>6. Cardinality(S) < Cardinality(T)
    BY <2>3, <2>4, <2>5
  <2> QED
    BY <2>6 DEF Rank, S, T
<1> QED
  BY <1>1, <1>2, <1>3, <1>4, <1>5, <1>6

(* InOrder lists every element of K once, in ascending order.                *)
LEMMA InOrderLists ==
  ASSUME NEW N \in Nat, NEW K \in SUBSET (1..N)
  PROVE  /\ InOrder(K) \in [1..Cardinality(K) -> K] /\ InOrder(K) \in Seq(K)
         /\ Len(InOrder(K)) = Cardinality(K) /\ DOMAIN InOrder(K) = 1..Cardinality(K)
         /\ \A n \in 1..Cardinality(K) : Rank(K, InOrder(K)[n]) = n
         /\ \A m, n \in 1..Cardinality(K) : m < n => InOrder(K)[m] < InOrder(K)[n]
         /\ \A i \in K : Rank(K, i) \in 1..Cardinality(K) /\ InOrder(K)[Rank(K, i)] = i
<1>0. /\ Cardinality(K) \in Nat
      /\ \A i \in K : i \in Nat /\ 0 < i
      /\ \A i \in Nat : Rank(K, i) \in Nat
      /\ Rank(K, 0) = 0 /\ Rank(K, N) = Cardinality(K)
      /\ \A i \in Nat : Rank(K, i + 1) = Rank(K, i) + (IF i + 1 \in K THEN 1 ELSE 0)
      /\ \A i \in Nat, j \in K : i < j => Rank(K, i) < Rank(K, j)
  <2>1. \A i \in K : i \in Nat /\ 0 < i
    OBVIOUS
  <2> QED
    BY <2>1, RankGrows
<1>1. ASSUME NEW n \in 1..Cardinality(K)
      PROVE  \E i \in K : Rank(K, i) = n
  <2> DEFINE T == {i \in Nat : Rank(K, i) >= n}
  <2>1. N \in T /\ T \in SUBSET Nat
    BY <1>0
  <2>2. PICK i \in T : \A j \in T : i <= j
    BY <2>1, FirstOfNaturals
  <2>3. i # 0
    BY <1>0
  <2>4. i - 1 \in Nat /\ i - 1 \notin T /\ (i - 1) + 1 = i
    BY <2>2, <2>3
  <2>5. Rank(K, i - 1) \in Nat /\ ~(Rank(K, i - 1) >= n)
    BY <1>0, <2>4
  <2>6. Rank(K, i) = Rank(K, i - 1) + (IF i \in K THEN 1 ELSE 0)
    BY <1>0, <2>4
  <2>7. Rank(K, i) >= n /\ n \in Nat
    OBVIOUS
  <2> HIDE DEF T
  <2>8. CASE i \in K
    <3>1. Rank(K, i) = n
      BY <2>5, <2>6, <2>7, <2>8
    <3> QED
      BY <2>8, <3>1
  <2>9. CASE i \notin K
    BY <2>5, <2>6, <2>7, <2>9
  <2> QED
    BY <2>8, <2>9
<1>2. \A n \in 1..Cardinality(K) : InOrder(K)[n] \in K /\ Rank(K, InOrder(K)[n]) = n
  BY <1>1 DEF InOrder, Rank
<1>3. ASSUME NEW i \in K, NEW j \in K, Rank(K, i) < Rank(K, j)
      PROVE  i < j
  <2>1. Rank(K, i) \in Nat /\ Rank(K, j) \in Nat
    BY <1>0
  <2>2. CASE j < i
    BY <1>0, <1>3, <2>1, <2>2
  <2>3. CASE j = i
    BY <1>3, <2>1, <2>3
  <2> QED
    BY <1>0, <2>2, <2>3
<1>4. ASSUME NEW i \in K
      PROVE  Rank(K, i) \in 1..Cardinality(K) /\ InOrder(K)[Rank(K, i)] = i
  <2>1. Rank(K, i) \in Nat /\ 0 < Rank(K, i)
    <3>1. 0 < i /\ i \in Nat
      BY <1>0
    <3> QED
      BY <1>0, <3>1
  <2>2. Rank(K, i) <= Cardinality(K)
    <3>1. {j \in K : j <= i} \subseteq K
      OBVIOUS
    <3> QED
      BY <3>1, RankGrows, FS_Subset DEF Rank
  <2>3. Rank(K, i) \in 1..Cardinality(K)
    BY <1>0, <2>1, <2>2
  <2> DEFINE j == InOrder(K)[Rank(K, i)]
  <2>4. j \in K /\ Rank(K, j) = Rank(K, i)
    BY <1>2, <2>3
  <2>5. j = i
    <3>1. i \in Nat /\ j \in Nat
      BY <1>0, <2>4
    <3>2. i < j => FALSE
      BY <1>0, <2>1, <2>4, <3>1
    <3>3. j < i => FALSE
      BY <1>0, <2>1, <2>4, <3>1
    <3> QED
      BY <3>1, <3>2, <3>3
  <2> QED
    BY <2>3, <2>5
<1>5. ASSUME NEW m \in 1..Cardinality(K), NEW n \in 1..Cardinality(K), m < n
      PROVE  InOrder(K)[m] < InOrder(K)[n]
  <2>1. /\ InOrder(K)[m] \in K /\ InOrder(K)[n] \in K
        /\ Rank(K, InOrder(K)[m]) < Rank(K, InOrder(K)[n])
    BY <1>2, <1>5
  <2> QED
    BY <1>3, <2>1
<1>6. /\ DOMAIN InOrder(K) = 1..Cardinality(K) /\ InOrder(K) \in [1..Cardinality(K) -> K]
  BY <1>2 DEF InOrder
<1>7. InOrder(K) \in Seq(K) /\ Len(InOrder(K)) = Cardinality(K)
  <2> DEFINE f == InOrder(K)
             c == Cardinality(K)
  <2>1. f \in [1..c -> K] /\ c \in Nat
    BY <1>0, <1>6
  <2> HIDE DEF f, c
  <2>2. f \in Seq(K) /\ Len(f) = c
    BY <2>1
  <2> QED
    BY <2>2 DEF f, c
<1> QED
  BY <1>2, <1>4, <1>5, <1>6, <1>7

(* The elements of a sequence at the places K, and no others, in their order. *)
Keeps(S, s, K) ==
  /\ Selected(s, K) \in Seq(S) /\ Len(Selected(s, K)) <= Len(s)
  /\ \A n \in DOMAIN Selected(s, K) :
       /\ InOrder(K)[n] \in K /\ Selected(s, K)[n] = s[InOrder(K)[n]]
       /\ \A m \in DOMAIN Selected(s, K) : m < n => InOrder(K)[m] < InOrder(K)[n]
  /\ \A i \in K : \E n \in DOMAIN Selected(s, K) : InOrder(K)[n] = i

LEMMA SelectedKeeps ==
  ASSUME NEW S, NEW s \in Seq(S), NEW K \in SUBSET DOMAIN s
  PROVE  Keeps(S, s, K)
<1>1. Len(s) \in Nat /\ K \in SUBSET (1..Len(s)) /\ \A i \in K : s[i] \in S
  OBVIOUS
<1>2. /\ DOMAIN InOrder(K) = 1..Cardinality(K) /\ Cardinality(K) \in Nat
      /\ \A n \in 1..Cardinality(K) : InOrder(K)[n] \in K
      /\ \A m, n \in 1..Cardinality(K) : m < n => InOrder(K)[m] < InOrder(K)[n]
      /\ \A i \in K : Rank(K, i) \in 1..Cardinality(K) /\ InOrder(K)[Rank(K, i)] = i
  <2> DEFINE N == Len(s)
  <2>1. N \in Nat /\ K \in SUBSET (1..N)
    BY <1>1
  <2> HIDE DEF N
  <2>2. /\ DOMAIN InOrder(K) = 1..Cardinality(K)
        /\ InOrder(K) \in [1..Cardinality(K) -> K]
        /\ \A m, n \in 1..Cardinality(K) : m < n => InOrder(K)[m] < InOrder(K)[n]
        /\ \A i \in K : Rank(K, i) \in 1..Cardinality(K) /\ InOrder(K)[Rank(K, i)] = i
    BY <2>1, InOrderLists
  <2>3. Cardinality(K) \in Nat
    BY <2>1, RankGrows
  <2> QED
    BY <2>2, <2>3
<1>3. Selected(s, K) = [n \in 1..Cardinality(K) |-> s[InOrder(K)[n]]]
  BY <1>2 DEF Selected
<1>4. /\ Selected(s, K) \in Seq(S) /\ DOMAIN Selected(s, K) = 1..Cardinality(K)
      /\ Len(Selected(s, K)) = Cardinality(K)
      /\ \A n \in 1..Cardinality(K) : Selected(s, K)[n] = s[InOrder(K)[n]]
  <2> DEFINE c == Cardinality(K)
             t == [n \in 1..c |-> s[InOrder(K)[n]]]
  <2>1. \A n \in 1..c : s[InOrder(K)[n]] \in S
    BY <1>1, <1>2
  <2>2. c \in Nat
    BY <1>2
  <2> HIDE DEF c
  <2>3. t \in Seq(S) /\ DOMAIN t = 1..c /\ Len(t) = c
    BY <2>1, <2>2
  <2> QED
    BY <1>3, <2>3 DEF c
<1>5. Cardinality(K) <= Len(s)
  <2> DEFINE N == Len(s)
  <2>1. N \in Nat /\ K \in SUBSET (1..N)
    BY <1>1
  <2> HIDE DEF N
  <2>2. IsFiniteSet(1..N) /\ Cardinality(1..N) = IF 1 > N THEN 0 ELSE N - 1 + 1
    BY <2>1, FS_Interval
  <2>3. Cardinality(1..N) = N
    BY <2>1, <2>2
  <2>4. Cardinality(K) <= N
    BY <2>1, <2>2, <2>3, FS_Subset
  <2> QED
    BY <2>4 DEF N
<1> QED
  BY <1>2, <1>4, <1>5 DEF Keeps

(* LastOf drops the first d elements.                                        *)
Drops(S, s, n, t, d) ==
  /\ t \in Seq(S) /\ Len(t) = Len(s) - d /\ d <= Len(s)
  /\ \A j \in DOMAIN t : j + d \in DOMAIN s /\ t[j] = s[j + d]
  /\ Len(s) <= n => d = 0
  /\ Len(s) > n => d = Len(s) - n

LEMMA LastOfIs ==
  ASSUME NEW S, NEW s \in Seq(S), NEW n \in Nat
  PROVE  \E d \in Nat : Drops(S, s, n, LastOf(s, n), d)
<1>1. CASE Len(s) > n
  <2>1. LastOf(s, n) = SubSeq(s, Len(s) - n + 1, Len(s))
    BY <1>1 DEF LastOf
  <2>2. /\ LastOf(s, n) \in Seq(S) /\ Len(LastOf(s, n)) = n
        /\ \A j \in 1..n : LastOf(s, n)[j] = s[j + (Len(s) - n)]
    BY <1>1, <2>1
  <2> DEFINE d == Len(s) - n
             t == LastOf(s, n)
  <2>3. d \in Nat /\ Len(s) \in Nat /\ d <= Len(s) /\ n = Len(s) - d
    BY <1>1
  <2>4. t \in Seq(S) /\ Len(t) = n /\ \A j \in 1..n : t[j] = s[j + d]
    BY <2>2
  <2> HIDE DEF t
  <2>5. DOMAIN t = 1..n
    BY <2>4
  <2>6. \A j \in DOMAIN t : j + d \in DOMAIN s
    BY <2>3, <2>5
  <2>7. Drops(S, s, n, t, d)
    BY <1>1, <2>3, <2>4, <2>5, <2>6 DEF Drops
  <2> QED
    BY <2>3, <2>7 DEF t
<1>2. CASE ~(Len(s) > n)
  <2>1. LastOf(s, n) = s
    BY <1>2 DEF LastOf
  <2> DEFINE t == LastOf(s, n)
  <2>2. /\ t \in Seq(S) /\ Len(t) = Len(s) - 0 /\ 0 <= Len(s)
        /\ \A j \in DOMAIN t : j + 0 \in DOMAIN s /\ t[j] = s[j + 0]
    BY <2>1
  <2> HIDE DEF t
  <2>3. Drops(S, s, n, t, 0)
    BY <1>2, <2>2 DEF Drops
  <2> QED
    BY <2>3 DEF t
<1> QED
  BY <1>1, <1>2

LEMMA FirstOfIs ==
  ASSUME NEW S, NEW s \in Seq(S), NEW n \in Nat
  PROVE  /\ FirstOf(s, n) \in Seq(S) /\ Len(FirstOf(s, n)) <= n /\ Len(FirstOf(s, n)) <= Len(s)
         /\ \A j \in DOMAIN FirstOf(s, n) : j \in DOMAIN s /\ FirstOf(s, n)[j] = s[j]
         /\ Len(s) <= n => FirstOf(s, n) = s
  BY DEF FirstOf

-----------------------------------------------------------------------------
(* Type correctness.  Pages fit under the cap, or ApplyFirst would break it. *)

PagesFit == \A f \in Fetches : Len(fetch[f].page) <= Cap

TypeInv == TypeOK /\ PagesFit

LEMMA Fields ==
  /\ \A e \in Event : /\ e.kind \in Kinds /\ e.seq \in Nat /\ e.text \in Nat
                      /\ e.rowId \in BOOLEAN /\ e.late \in BOOLEAN
  /\ \A m \in Message : m.seq \in Nat /\ m.text \in Nat /\ m.liked \in BOOLEAN /\ m.rowId \in BOOLEAN
  /\ \A r \in Row : r.text \in Nat /\ r.liked \in BOOLEAN /\ r.deleted \in BOOLEAN
  /\ \A w \in Window : /\ w.messages \in Seq(Message) /\ w.oldest \in Nat
                       /\ w.hasMore \in BOOLEAN /\ w.loading \in BOOLEAN
  /\ \A r \in Fetch : /\ r.kind \in {"none", "first", "older", "prefetch"} /\ r.read \in BOOLEAN
                      /\ r.before \in Nat /\ r.page \in Seq(Message)
                      /\ r.more \in BOOLEAN /\ r.stale \in BOOLEAN
  BY DEF Event, Message, Row, Window, Fetch

(* The message that an event adds to a window.                               *)
Fresh(e) == [seq |-> e.seq, text |-> e.text, liked |-> FALSE, rowId |-> e.rowId]

(* What appendMessage does to a window without the message: it comes last,   *)
(* and d messages leave at the oldest end.                                   *)
LEMMA AppendedIs ==
  ASSUME window \in Window, NEW e \in Event, ~Shows(e.seq)
  PROVE  /\ Appended(e) \in Window /\ Len(Appended(e).messages) <= Cap
         /\ Appended(e).loading = window.loading
         /\ Appended(e).oldest = Appended(e).messages[1].seq
         /\ \E d \in 0..Len(window.messages) :
              LET s == Appended(e).messages
              IN  /\ Len(s) = Len(window.messages) + 1 - d /\ s[Len(s)] = Fresh(e)
                  /\ \A j \in 1..(Len(s) - 1) :
                       j + d \in DOMAIN window.messages /\ s[j] = window.messages[j + d]
                  /\ Appended(e).hasMore = (window.hasMore \/ d > 0)
<1> DEFINE old == window.messages
           longer == Append(old, Fresh(e))
           kept == LastOf(longer, Cap)
<1>1. /\ old \in Seq(Message) /\ window.hasMore \in BOOLEAN /\ window.loading \in BOOLEAN
      /\ Fresh(e) \in Message
  BY Fields DEF Fresh, Message
<1>2. Appended(e) = [window EXCEPT !.messages = kept, !.oldest = kept[1].seq,
                                   !.hasMore = @ \/ Len(longer) > Cap]
  BY DEF Appended, Fresh
<1>3. Cap \in Nat /\ Cap >= 1
  BY CapAssumption, PageAssumption
<1> HIDE DEF old
<1>4. /\ longer \in Seq(Message) /\ Len(longer) = Len(old) + 1 /\ Len(old) \in Nat
      /\ longer[Len(old) + 1] = Fresh(e) /\ \A j \in DOMAIN old : longer[j] = old[j]
      /\ DOMAIN old = 1..Len(old)
  BY <1>1
<1> HIDE DEF longer
<1>50. PICK d \in Nat : Drops(Message, longer, Cap, kept, d)
  BY <1>3, <1>4, LastOfIs
<1> HIDE DEF kept
<1>5. /\ kept \in Seq(Message) /\ Len(kept) = Len(longer) - d /\ d <= Len(longer)
      /\ \A j \in DOMAIN kept : j + d \in DOMAIN longer /\ kept[j] = longer[j + d]
      /\ Len(longer) <= Cap => d = 0
      /\ Len(longer) > Cap => d = Len(longer) - Cap
  BY <1>50 DEF Drops
<1>6. /\ d \in 0..Len(old) /\ Len(kept) = Len(old) + 1 - d /\ Len(kept) <= Cap /\ Len(kept) >= 1
      /\ DOMAIN kept = 1..Len(kept) /\ (Len(longer) > Cap <=> d > 0)
  BY <1>3, <1>4, <1>5
<1>7. kept[Len(kept)] = Fresh(e)
  <2>1. Len(kept) \in DOMAIN kept /\ Len(kept) + d = Len(old) + 1
    BY <1>4, <1>6
  <2> QED
    BY <1>4, <1>5, <2>1
<1>8. ASSUME NEW j \in 1..(Len(kept) - 1) PROVE j + d \in DOMAIN old /\ kept[j] = old[j + d]
  <2>1. j \in DOMAIN kept /\ j + d \in DOMAIN old
    BY <1>4, <1>6
  <2> QED
    BY <1>4, <1>5, <2>1
<1>9. kept[1].seq \in Nat
  <2>1. 1 \in DOMAIN kept
    BY <1>6
  <2>2. kept[1] \in Message
    BY <1>5, <2>1
  <2> QED
    BY <2>2, Fields
<1>10. /\ Appended(e) \in Window /\ Appended(e).messages = kept
       /\ Appended(e).oldest = kept[1].seq /\ Appended(e).loading = window.loading
       /\ Appended(e).hasMore = (window.hasMore \/ Len(longer) > Cap)
  BY <1>1, <1>2, <1>5, <1>9 DEF Window
<1> QED
  BY <1>6, <1>7, <1>8, <1>10 DEF old

(* What a page adds to a window: its messages that are not there.            *)
FreshOf(page) == Selected(page, {j \in DOMAIN page : ~Shows(page[j].seq)})

LEMMA FreshOfIs ==
  ASSUME NEW page \in Seq(Message)
  PROVE  /\ FreshOf(page) \in Seq(Message) /\ Len(FreshOf(page)) <= Len(page)
         /\ \A n \in DOMAIN FreshOf(page) : \E j \in DOMAIN page :
              FreshOf(page)[n] = page[j] /\ ~Shows(page[j].seq)
         /\ \A j \in DOMAIN page : ~Shows(page[j].seq) =>
              \E n \in DOMAIN FreshOf(page) : FreshOf(page)[n] = page[j]
<1> DEFINE K == {j \in DOMAIN page : ~Shows(page[j].seq)}
<1>1. K \in SUBSET DOMAIN page /\ \A j \in K : ~Shows(page[j].seq)
  OBVIOUS
<1>2. \A j \in DOMAIN page : ~Shows(page[j].seq) => j \in K
  OBVIOUS
<1>3. FreshOf(page) = Selected(page, K)
  BY DEF FreshOf
<1> HIDE DEF K
<1>40. Keeps(Message, page, K)
  BY <1>1, SelectedKeeps
<1>4. /\ Selected(page, K) \in Seq(Message) /\ Len(Selected(page, K)) <= Len(page)
      /\ \A n \in DOMAIN Selected(page, K) :
            InOrder(K)[n] \in K /\ Selected(page, K)[n] = page[InOrder(K)[n]]
      /\ \A i \in K : \E n \in DOMAIN Selected(page, K) : InOrder(K)[n] = i
  BY <1>40 DEF Keeps
<1> QED
  BY <1>1, <1>2, <1>3, <1>4

(* A subsequence of an ascending one ascends.  A row that a page has twice   *)
(* is there twice in a row.                                                  *)
Ascending(s) == \A i, j \in DOMAIN s : i < j => s[i].seq <= s[j].seq

(* No message twice, but for those of R.                                     *)
DistinctBut(s, R) ==
  \A i, j \in DOMAIN s : s[i].seq = s[j].seq => i = j \/ s[i].seq \in R

LEMMA FreshAscends ==
  ASSUME NEW page \in Seq(Message), Ascending(page)
  PROVE  Ascending(FreshOf(page))
<1> DEFINE K == {j \in DOMAIN page : ~Shows(page[j].seq)}
<1>1. K \in SUBSET DOMAIN page
  OBVIOUS
<1>3. FreshOf(page) = Selected(page, K)
  BY DEF FreshOf
<1> HIDE DEF K
<1>40. Keeps(Message, page, K)
  BY <1>1, SelectedKeeps
<1>4. \A n \in DOMAIN Selected(page, K) :
        /\ InOrder(K)[n] \in K /\ Selected(page, K)[n] = page[InOrder(K)[n]]
        /\ \A m \in DOMAIN Selected(page, K) : m < n => InOrder(K)[m] < InOrder(K)[n]
  BY <1>40 DEF Keeps
<1>5. \A m, n \in DOMAIN Selected(page, K) :
        m < n => Selected(page, K)[m].seq <= Selected(page, K)[n].seq
  BY <1>1, <1>4 DEF Ascending
<1> QED
  BY <1>3, <1>5 DEF Ascending

(* What a page has twice, a part of it has twice at most.                    *)
LEMMA FreshIsDistinct ==
  ASSUME NEW page \in Seq(Message)
  PROVE  /\ DistinctBut(page, Repeated(page)) /\ Repeated(page) \in SUBSET Nat
         /\ DistinctBut(FreshOf(page), Repeated(page))
<1> DEFINE K == {j \in DOMAIN page : ~Shows(page[j].seq)}
           R == Repeated(page)
           t == Selected(page, K)
<1>1. K \in SUBSET DOMAIN page /\ \A j \in DOMAIN page : j \in Nat /\ page[j].seq \in Nat
  <2>1. \A j \in DOMAIN page : j \in Nat /\ page[j] \in Message
    OBVIOUS
  <2> QED
    BY <2>1, Fields
<1>2. DistinctBut(page, R) /\ R \in SUBSET Nat
  BY <1>1 DEF DistinctBut, Repeated
<1>3. FreshOf(page) = t
  BY DEF FreshOf
<1> HIDE DEF K, R
<1>4. Keeps(Message, page, K)
  BY <1>1, SelectedKeeps
<1>5. \A n \in DOMAIN t :
        /\ InOrder(K)[n] \in K /\ t[n] = page[InOrder(K)[n]] /\ n \in Nat
        /\ \A m \in DOMAIN t : m < n => InOrder(K)[m] < InOrder(K)[n]
  BY <1>4 DEF Keeps
<1> HIDE DEF t
<1>6. ASSUME NEW i \in DOMAIN t, NEW j \in DOMAIN t, t[i].seq = t[j].seq, t[i].seq \notin R
      PROVE  i = j
  <2>1. InOrder(K)[i] = InOrder(K)[j]
    BY <1>1, <1>2, <1>5, <1>6 DEF DistinctBut
  <2>2. i \in Nat /\ j \in Nat /\ InOrder(K)[i] \in Nat
    BY <1>1, <1>5
  <2>3. ~(i < j) /\ ~(j < i)
    BY <1>5, <2>1, <2>2
  <2> QED
    BY <2>2, <2>3
<1>7. DistinctBut(t, R)
  BY <1>6 DEF DistinctBut
<1> QED
  BY <1>2, <1>3, <1>7 DEF R

(* What deletion leaves of the window.                                       *)
LEMMA WithoutIs ==
  ASSUME window \in Window, NEW e
  PROVE  LET s == Without(e).messages IN
         /\ Without(e) \in Window /\ Len(s) <= Len(window.messages)
         /\ Without(e) = [window EXCEPT !.messages = s]
         /\ \A n \in DOMAIN s : \E j \in DOMAIN window.messages :
              s[n] = window.messages[j] /\ ~Meant(window.messages[j], e)
         /\ \A j \in DOMAIN window.messages : ~Meant(window.messages[j], e) =>
              \E n \in DOMAIN s : s[n] = window.messages[j]
         /\ Ascending(window.messages) => Ascending(s)
         /\ ShownOnce => DistinctBut(s, repeated)
<1> DEFINE old == window.messages
           K == {j \in DOMAIN old : ~Meant(old[j], e)}
           s == Selected(old, K)
<1>1. old \in Seq(Message)
  BY Fields
<1>2. /\ K \in SUBSET DOMAIN old /\ \A j \in K : ~Meant(old[j], e)
      /\ \A j \in DOMAIN old : ~Meant(old[j], e) => j \in K
  OBVIOUS
<1>3. Without(e) = [window EXCEPT !.messages = s]
  BY DEF Without
<1> HIDE DEF old, K
<1>40. Keeps(Message, old, K)
  BY <1>1, <1>2, SelectedKeeps
<1>4. /\ s \in Seq(Message) /\ Len(s) <= Len(old)
      /\ \A n \in DOMAIN s :
           /\ InOrder(K)[n] \in K /\ s[n] = old[InOrder(K)[n]]
           /\ \A m \in DOMAIN s : m < n => InOrder(K)[m] < InOrder(K)[n]
      /\ \A i \in K : \E n \in DOMAIN s : InOrder(K)[n] = i
  BY <1>40 DEF Keeps
<1> HIDE DEF s
<1>5. Without(e) \in Window /\ Without(e).messages = s
  BY <1>3, <1>4 DEF Window
<1>6. Ascending(old) => Ascending(s)
  BY <1>2, <1>4 DEF Ascending
<1>7. ASSUME ShownOnce, NEW i \in DOMAIN s, NEW j \in DOMAIN s, s[i].seq = s[j].seq,
             s[i].seq \notin repeated
      PROVE  i = j
  <2>1. InOrder(K)[i] = InOrder(K)[j]
    BY <1>2, <1>4, <1>7 DEF ShownOnce, old
  <2>2. i \in Nat /\ j \in Nat /\ InOrder(K)[i] \in Nat
    BY <1>1, <1>2, <1>4, <2>1
  <2>3. ~(i < j) /\ ~(j < i)
    BY <1>4, <2>1, <2>2
  <2> QED
    BY <2>2, <2>3
<1> QED
  BY <1>2, <1>3, <1>4, <1>5, <1>6, <1>7 DEF old, DistinctBut

(* The queue without its k-th change.                                        *)
Old(k, j) == IF j < k THEN j ELSE j + 1

LEMMA TakeIs ==
  ASSUME pending \in Seq(Event), NEW k \in DOMAIN pending, Take(k)
  PROVE  /\ pending' \in Seq(Event)
         /\ \A j \in DOMAIN pending' :
              /\ Old(k, j) \in DOMAIN pending /\ Old(k, j) # k
              /\ pending'[j].kind = pending[Old(k, j)].kind
              /\ pending'[j].seq = pending[Old(k, j)].seq
              /\ pending'[j].text = pending[Old(k, j)].text
              /\ pending'[j].rowId = pending[Old(k, j)].rowId
              /\ ~pending'[j].late => /\ ~pending[Old(k, j)].late
                                      /\ Old(k, j) < k => ~Overtaken(pending[Old(k, j)], pending[k])
         /\ \A i, j \in DOMAIN pending' : i < j <=> Old(k, i) < Old(k, j)
         /\ \A i \in DOMAIN pending : i # k => \E j \in DOMAIN pending' : Old(k, j) = i
<1> DEFINE n == Len(pending)
           s == [j \in 1..(n - 1) |->
                   IF j < k THEN [pending[j] EXCEPT !.late = @ \/ Overtaken(pending[j], pending[k])]
                            ELSE pending[j + 1]]
<1>1. n \in Nat /\ DOMAIN pending = 1..n /\ k \in 1..n /\ n >= 1
  OBVIOUS
<1>2. pending' = s
  BY DEF Take
<1>3. \A i \in 1..n : pending[i] \in Event
  BY <1>1
<1> HIDE DEF n
<1>4. ASSUME NEW j \in 1..(n - 1)
      PROVE  /\ s[j] \in Event
             /\ Old(k, j) \in DOMAIN pending /\ Old(k, j) # k
             /\ s[j].kind = pending[Old(k, j)].kind
             /\ s[j].seq = pending[Old(k, j)].seq
             /\ s[j].text = pending[Old(k, j)].text
             /\ s[j].rowId = pending[Old(k, j)].rowId
             /\ ~s[j].late => /\ ~pending[Old(k, j)].late
                              /\ Old(k, j) < k => ~Overtaken(pending[Old(k, j)], pending[k])
  <2>1. CASE j < k
    <3> DEFINE e == pending[j]
               b == (e.late \/ Overtaken(pending[j], pending[k]))
    <3>1. e \in Event /\ Old(k, j) = j /\ j # k /\ j \in DOMAIN pending
      BY <1>1, <1>3, <2>1 DEF Old
    <3>2. s[j] = [e EXCEPT !.late = b]
      BY <2>1
    <3>3. b \in BOOLEAN /\ (~b => ~e.late /\ ~Overtaken(pending[j], pending[k]))
      <4>1. e.late \in BOOLEAN
        BY <3>1, Fields
      <4> QED
        BY <4>1
    <3> HIDE DEF b, e, s
    <3>4. s[j] \in Event /\ s[j].kind = e.kind /\ s[j].seq = e.seq /\ s[j].text = e.text
          /\ s[j].rowId = e.rowId /\ s[j].late = b
      BY <3>1, <3>2, <3>3 DEF Event
    <3> QED
      BY <3>1, <3>3, <3>4 DEF e
  <2>2. CASE ~(j < k)
    <3>1. s[j] = pending[j + 1] /\ Old(k, j) = j + 1 /\ j + 1 \in 1..n /\ j + 1 # k /\ ~(j + 1 < k)
      BY <1>1, <2>2 DEF Old
    <3> HIDE DEF s
    <3> QED
      BY <1>1, <1>3, <3>1
  <2> QED
    BY <2>1, <2>2
<1>5. s \in Seq(Event) /\ DOMAIN s = 1..(n - 1)
  <2>1. \A j \in 1..(n - 1) : s[j] \in Event
    BY <1>4
  <2>2. n - 1 \in Nat /\ s = [j \in 1..(n - 1) |-> s[j]]
    BY <1>1
  <2> HIDE DEF s
  <2> QED
    BY <2>1, <2>2
<1> HIDE DEF s
<1>6. \A i, j \in 1..(n - 1) : i < j <=> Old(k, i) < Old(k, j)
  BY <1>1 DEF Old
<1>7. ASSUME NEW i \in 1..n, i # k PROVE \E j \in 1..(n - 1) : Old(k, j) = i
  <2>1. CASE i < k
    <3>1. i \in 1..(n - 1) /\ Old(k, i) = i
      BY <1>1, <2>1 DEF Old
    <3> QED
      BY <3>1
  <2>2. CASE ~(i < k)
    <3>1. i - 1 \in 1..(n - 1) /\ Old(k, i - 1) = i
      BY <1>1, <1>7, <2>2 DEF Old
    <3> QED
      BY <3>1
  <2> QED
    BY <2>1, <2>2
<1> QED
  BY <1>1, <1>2, <1>4, <1>5, <1>6, <1>7

(* What was read before the event is marked, and nothing else changes.       *)
LEMMA MarkStaleIs ==
  ASSUME fetch \in [Fetches -> Fetch], NEW e, MarkStale(e)
  PROVE  /\ fetch' \in [Fetches -> Fetch]
         /\ \A f \in Fetches :
              /\ fetch'[f].kind = fetch[f].kind /\ fetch'[f].read = fetch[f].read
              /\ fetch'[f].before = fetch[f].before /\ fetch'[f].page = fetch[f].page
              /\ fetch'[f].more = fetch[f].more
              /\ ~fetch'[f].stale => ~Outdates(e, f) /\ ~fetch[f].stale
<1>1. \A f \in Fetches : fetch[f] \in Fetch
  OBVIOUS
<1>2. fetch' = [f \in Fetches |-> IF Outdates(e, f) THEN [fetch[f] EXCEPT !.stale = TRUE] ELSE fetch[f]]
  BY DEF MarkStale
<1>3. ASSUME NEW f \in Fetches
      PROVE  /\ fetch'[f] \in Fetch
             /\ fetch'[f].kind = fetch[f].kind /\ fetch'[f].read = fetch[f].read
             /\ fetch'[f].before = fetch[f].before /\ fetch'[f].page = fetch[f].page
             /\ fetch'[f].more = fetch[f].more
             /\ ~fetch'[f].stale => ~Outdates(e, f) /\ ~fetch[f].stale
  <2>1. CASE Outdates(e, f)
    <3>1. fetch'[f] = [fetch[f] EXCEPT !.stale = TRUE]
      BY <1>2, <2>1
    <3> QED
      BY <1>1, <3>1 DEF Fetch
  <2>2. CASE ~Outdates(e, f)
    <3>1. fetch'[f] = fetch[f]
      BY <1>2, <2>2
    <3> QED
      BY <1>1, <2>2, <3>1
  <2> QED
    BY <2>1, <2>2
<1> QED
  BY <1>2, <1>3

(* What a patch leaves of the window.                                        *)
LEMMA WithPatchIs ==
  ASSUME window \in Window, NEW e \in Event, e.kind \in {"edited", "liked", "unliked"}
  PROVE  LET old == window.messages
             s == WithPatch(e).messages
         IN  /\ WithPatch(e) \in Window /\ DOMAIN s = DOMAIN old /\ Len(s) = Len(old)
             /\ WithPatch(e) = [window EXCEPT !.messages = s]
             /\ \A j \in DOMAIN old :
                  /\ s[j].seq = old[j].seq
                  /\ ~Meant(old[j], e) => s[j] = old[j]
                  /\ Meant(old[j], e) =>
                       /\ s[j].text = (IF e.kind = "edited" THEN e.text ELSE old[j].text)
                       /\ s[j].liked = (IF e.kind = "edited" THEN old[j].liked ELSE e.kind = "liked")
<1> DEFINE old == window.messages
           s == [j \in DOMAIN old |-> IF Meant(old[j], e) THEN Patched(old[j], e) ELSE old[j]]
<1>1. /\ old \in Seq(Message) /\ \A j \in DOMAIN old : old[j] \in Message
      /\ DOMAIN old = 1..Len(old) /\ Len(old) \in Nat
  BY Fields
<1>2. e.text \in Nat
  BY Fields
<1>3. ASSUME NEW m \in Message
      PROVE  /\ Patched(m, e) \in Message /\ Patched(m, e).seq = m.seq
             /\ Patched(m, e).text = (IF e.kind = "edited" THEN e.text ELSE m.text)
             /\ Patched(m, e).liked = (IF e.kind = "edited" THEN m.liked ELSE e.kind = "liked")
  <2>1. CASE e.kind = "edited"
    BY <1>2, <2>1 DEF Patched, Message
  <2>2. CASE e.kind = "liked"
    BY <1>2, <2>2 DEF Patched, Message
  <2>3. CASE e.kind = "unliked"
    BY <1>2, <2>3 DEF Patched, Message
  <2> QED
    BY <2>1, <2>2, <2>3
<1>4. WithPatch(e) = [window EXCEPT !.messages = s]
  BY DEF WithPatch
<1> HIDE DEF old
<1>5. \A j \in DOMAIN old :
        /\ s[j] \in Message /\ s[j].seq = old[j].seq
        /\ ~Meant(old[j], e) => s[j] = old[j]
        /\ Meant(old[j], e) =>
             /\ s[j].text = (IF e.kind = "edited" THEN e.text ELSE old[j].text)
             /\ s[j].liked = (IF e.kind = "edited" THEN old[j].liked ELSE e.kind = "liked")
  BY <1>1, <1>3
<1>6. s = [j \in 1..Len(old) |-> s[j]]
  BY <1>1
<1> HIDE DEF s
<1>7. s \in Seq(Message) /\ Len(s) = Len(old) /\ DOMAIN s = DOMAIN old
  BY <1>1, <1>5, <1>6
<1>8. WithPatch(e) \in Window /\ WithPatch(e).messages = s
  BY <1>4, <1>7 DEF Window
<1> QED
  BY <1>4, <1>5, <1>7, <1>8 DEF old

(* The rows that get_channel_messages answers with, the shared ones twice.   *)
LEMMA JoinedBelowIs ==
  ASSUME log \in Seq(Row), NEW before, NEW shared
  PROVE  LET rows == JoinedBelow(before, shared)
             K == {i \in Live : before = 0 \/ i < before}
         IN  /\ rows \in Seq(DOMAIN log)
             /\ \A m, n \in DOMAIN rows : m < n => rows[m] <= rows[n]
             /\ \A n \in DOMAIN rows : rows[n] \in K
             /\ \A i \in K : \E n \in DOMAIN rows : rows[n] = i
<1> DEFINE K == {i \in Live : before = 0 \/ i < before}
           N == Len(log)
           D == {2 * i : i \in K} \cup {2 * i + 1 : i \in K \cap shared}
           M == 2 * N + 1
           c == Cardinality(D)
           joined == InOrder(D)
           rows == [n \in DOMAIN joined |-> joined[n] \div 2]
<1>1. N \in Nat /\ DOMAIN log = 1..N /\ K \in SUBSET DOMAIN log
  BY DEF Live
<1>2. JoinedBelow(before, shared) = rows
  BY DEF JoinedBelow
<1> HIDE DEF K, N
<1>3. \A i \in K : i \in 1..N /\ (2 * i) \div 2 = i /\ (2 * i + 1) \div 2 = i
  BY <1>1
<1>4. \A j \in D : j \in 1..M /\ j \div 2 \in K
  <2>1. ASSUME NEW i \in K PROVE 2 * i \in 1..M /\ 2 * i + 1 \in 1..M
    <3>1. i \in Nat /\ 1 <= i /\ i <= N /\ N \in Nat
      BY <1>1, <1>3
    <3> QED
      BY <3>1
  <2> QED
    BY <1>3, <2>1
<1>5. M \in Nat /\ \A i \in K : 2 * i \in D
  BY <1>1
<1> HIDE DEF D, M
<1>6. /\ joined \in [1..c -> D] /\ DOMAIN joined = 1..c
      /\ \A m, n \in 1..c : m < n => joined[m] < joined[n]
      /\ \A j \in D : Rank(D, j) \in 1..c /\ joined[Rank(D, j)] = j
  <2>1. D \in SUBSET (1..M)
    BY <1>4
  <2> QED
    BY <1>5, <2>1, InOrderLists
<1>7. c \in Nat
  <2>1. D \in SUBSET (1..M)
    BY <1>4
  <2> QED
    BY <1>5, <2>1, RankGrows
<1> HIDE DEF joined, c
<1>8. \A n \in 1..c : joined[n] \in D /\ joined[n] \in Nat /\ rows[n] = joined[n] \div 2 /\ rows[n] \in K
  BY <1>4, <1>6
<1>9. rows \in Seq(DOMAIN log) /\ DOMAIN rows = 1..c
  BY <1>1, <1>6, <1>7, <1>8
<1>10. ASSUME NEW m \in 1..c, NEW n \in 1..c, m < n PROVE rows[m] <= rows[n]
  <2>1. joined[m] < joined[n] /\ joined[m] \in Nat /\ joined[n] \in Nat
    BY <1>6, <1>8, <1>10
  <2>2. \A a, b \in Nat : a < b => a \div 2 <= b \div 2
    OBVIOUS
  <2> QED
    BY <1>8, <2>1, <2>2
<1>11. ASSUME NEW i \in K PROVE \E n \in 1..c : rows[n] = i
  <2>1. Rank(D, 2 * i) \in 1..c /\ joined[Rank(D, 2 * i)] = 2 * i
    BY <1>5, <1>6
  <2> QED
    BY <1>3, <1>8, <2>1
<1> HIDE DEF rows
<1> QED
  BY <1>2, <1>8, <1>9, <1>10, <1>11 DEF K

(* What one change of the server does to the rows.                           *)
Changes(e) ==
  /\ e \in Event /\ ~e.late
  /\ log' \in Seq(Row)
  /\ Len(log') = (IF AddsRow(e) THEN Len(log) + 1 ELSE Len(log))
  /\ e.seq \in DOMAIN log'
  /\ AddsRow(e) => e.seq = Len(log) + 1 /\ e.text = 0 /\ log'[e.seq] = NewRow
  /\ \A i \in DOMAIN log :
       /\ log'[i].text = log[i].text \/ (e.kind = "edited" /\ e.seq = i)
       /\ log'[i].liked = log[i].liked \/ (e.kind \in {"liked", "unliked"} /\ e.seq = i)
       /\ log[i].deleted => log'[i].deleted
       /\ log'[i].deleted => log[i].deleted \/ (e.kind = "deleted" /\ e.seq = i)
  /\ e.kind = "edited" => log'[e.seq].text = e.text
  /\ e.kind \in {"liked", "unliked"} => log'[e.seq].liked = (e.kind = "liked")
  /\ e.kind = "deleted" => log'[e.seq].deleted

LEMMA RowChanges ==
  ASSUME log \in Seq(Row), NEW i \in DOMAIN log, NEW r \in Row, log' = [log EXCEPT ![i] = r]
  PROVE  /\ log' \in Seq(Row) /\ Len(log') = Len(log) /\ DOMAIN log' = DOMAIN log
         /\ log'[i] = r /\ \A j \in DOMAIN log : j # i => log'[j] = log[j]
  OBVIOUS

LEMMA RowIsAdded ==
  ASSUME log \in Seq(Row), NEW e \in Event, AddsRow(e), ~e.late,
         e.seq = Len(log) + 1, e.text = 0, log' = Append(log, NewRow)
  PROVE  Changes(e)
<1>1. NewRow \in Row
  BY DEF NewRow, Row
<1>2. /\ log' \in Seq(Row) /\ Len(log') = Len(log) + 1 /\ e.seq \in DOMAIN log'
      /\ log'[e.seq] = NewRow /\ \A i \in DOMAIN log : log'[i] = log[i]
  BY <1>1
<1>3. e.kind \notin {"edited", "liked", "unliked", "deleted"}
  BY DEF AddsRow
<1> QED
  BY <1>2, <1>3 DEF Changes

LEMMA ServerIs ==
  ASSUME TypeOK, ServerStep
  PROVE  /\ \E e \in Event : Changes(e) /\ pending' = Append(pending, e)
         /\ writes' \in 0..MaxWrites /\ UNCHANGED clientVars
<1>0. /\ log \in Seq(Row) /\ Len(log) \in Nat /\ DOMAIN log = 1..Len(log)
      /\ \A i \in DOMAIN log : log[i] \in Row
      /\ writes \in 0..MaxWrites /\ MaxWrites \in Nat
  BY BoundAssumption DEF TypeOK
<1>1. \A e : Change(e) => /\ pending' = Append(pending, e)
                          /\ writes' \in 0..MaxWrites /\ UNCHANGED clientVars
  BY <1>0 DEF Change
<1>2. CASE CreateMessage
  <2> DEFINE e == Announce("new", Len(log) + 1, 0)
  <2>1. e \in Event /\ AddsRow(e) /\ ~e.late /\ e.seq = Len(log) + 1 /\ e.text = 0
    BY <1>0 DEF Announce, Event, AddsRow, Kinds
  <2>2. log' = Append(log, NewRow) /\ Change(e)
    BY <1>2 DEF CreateMessage
  <2> HIDE DEF e
  <2>3. Changes(e)
    BY <1>0, <2>1, <2>2, RowIsAdded
  <2> QED
    BY <1>1, <2>1, <2>2, <2>3
<1>3. ASSUME NEW kind \in {"new", "silent"}, HandleGossipMessage(kind) PROVE
        /\ \E e \in Event : Changes(e) /\ pending' = Append(pending, e)
        /\ writes' \in 0..MaxWrites /\ UNCHANGED clientVars
  <2> DEFINE e == [Announce(kind, Len(log) + 1, 0) EXCEPT !.rowId = FALSE]
  <2>0. Len(log) + 1 \in Nat /\ kind \in Kinds
    BY <1>0 DEF Kinds
  <2>1. e \in Event /\ AddsRow(e) /\ ~e.late /\ e.seq = Len(log) + 1 /\ e.text = 0
    <3> DEFINE a == Announce(kind, Len(log) + 1, 0)
    <3>1. /\ a \in Event /\ a.kind = kind /\ a.seq = Len(log) + 1 /\ a.text = 0 /\ a.late = FALSE
      BY <2>0 DEF Announce, Event
    <3> HIDE DEF a
    <3>2. /\ e \in Event /\ e.kind = kind /\ e.seq = Len(log) + 1 /\ e.text = 0 /\ e.late = FALSE
      BY <3>1 DEF Event, a
    <3> HIDE DEF e
    <3> QED
      BY <3>2 DEF AddsRow
  <2>2. log' = Append(log, NewRow) /\ Change(e)
    BY <1>3 DEF HandleGossipMessage
  <2> HIDE DEF e
  <2>3. Changes(e)
    BY <1>0, <2>1, <2>2, RowIsAdded
  <2> QED
    BY <1>1, <2>1, <2>2, <2>3
<1>4. ASSUME NEW i \in DOMAIN log,
             \/ EditMessage(i) \/ DeleteMessage(i) \/ AddReaction(i) \/ RemoveReaction(i)
      PROVE  /\ \E e \in Event : Changes(e) /\ pending' = Append(pending, e)
             /\ writes' \in 0..MaxWrites /\ UNCHANGED clientVars
  <2>0. log[i].text + 1 \in Nat /\ i \in Nat /\ log[i] \in Row
    <3>1. log[i] \in Row /\ i \in Nat
      BY <1>0
    <3> QED
      BY <3>1, Fields
  <2> DEFINE t == log[i].text + 1
  <2>1. CASE EditMessage(i)
    <3> DEFINE e == Announce("edited", i, t)
               r == [log[i] EXCEPT !.text = t]
    <3>1. /\ e \in Event /\ ~AddsRow(e) /\ ~e.late /\ e.seq = i /\ e.text = t /\ e.kind = "edited"
      BY <2>0 DEF Announce, Event, AddsRow, Kinds
    <3>2. r \in Row /\ r.text = t /\ r.liked = log[i].liked /\ r.deleted = log[i].deleted
      BY <2>0 DEF Row
    <3>3. log' = [log EXCEPT ![i] = r] /\ Change(e)
      BY <2>1 DEF EditMessage
    <3> HIDE DEF e, r, t
    <3>4. Changes(e)
      BY <1>0, <3>1, <3>2, <3>3, RowChanges DEF Changes
    <3> QED
      BY <1>1, <3>1, <3>3, <3>4
  <2>2. CASE DeleteMessage(i)
    <3> DEFINE e == Announce("deleted", i, 0)
               r == [log[i] EXCEPT !.deleted = TRUE]
    <3>1. /\ e \in Event /\ ~AddsRow(e) /\ ~e.late /\ e.seq = i /\ e.kind = "deleted"
      BY <2>0 DEF Announce, Event, AddsRow, Kinds
    <3>2. r \in Row /\ r.text = log[i].text /\ r.liked = log[i].liked /\ r.deleted
      BY <2>0 DEF Row
    <3>3. log' = [log EXCEPT ![i] = r] /\ Change(e)
      BY <2>2 DEF DeleteMessage
    <3> HIDE DEF e, r
    <3>4. Changes(e)
      BY <1>0, <3>1, <3>2, <3>3, RowChanges DEF Changes
    <3> QED
      BY <1>1, <3>1, <3>3, <3>4
  <2>3. CASE AddReaction(i)
    <3> DEFINE e == Announce("liked", i, 0)
               r == [log[i] EXCEPT !.liked = TRUE]
    <3>1. /\ e \in Event /\ ~AddsRow(e) /\ ~e.late /\ e.seq = i /\ e.kind = "liked"
      BY <2>0 DEF Announce, Event, AddsRow, Kinds
    <3>2. r \in Row /\ r.text = log[i].text /\ r.liked = TRUE /\ r.deleted = log[i].deleted
      BY <2>0 DEF Row
    <3>3. log' = [log EXCEPT ![i] = r] /\ Change(e)
      BY <2>3 DEF AddReaction
    <3> HIDE DEF e, r
    <3>4. Changes(e)
      BY <1>0, <3>1, <3>2, <3>3, RowChanges DEF Changes
    <3> QED
      BY <1>1, <3>1, <3>3, <3>4
  <2>4. CASE RemoveReaction(i)
    <3> DEFINE e == Announce("unliked", i, 0)
               r == [log[i] EXCEPT !.liked = FALSE]
    <3>1. /\ e \in Event /\ ~AddsRow(e) /\ ~e.late /\ e.seq = i /\ e.kind = "unliked"
      BY <2>0 DEF Announce, Event, AddsRow, Kinds
    <3>2. r \in Row /\ r.text = log[i].text /\ r.liked = FALSE /\ r.deleted = log[i].deleted
      BY <2>0 DEF Row
    <3>3. log' = [log EXCEPT ![i] = r] /\ Change(e)
      BY <2>4 DEF RemoveReaction
    <3> HIDE DEF e, r
    <3>4. Changes(e)
      BY <1>0, <3>1, <3>2, <3>3, RowChanges DEF Changes
    <3> QED
      BY <1>1, <3>1, <3>3, <3>4
  <2> QED
    BY <1>4, <2>1, <2>2, <2>3, <2>4
<1> QED
  BY <1>2, <1>3, <1>4 DEF ServerStep

-----------------------------------------------------------------------------
(* A page holds the live rows below `before` from its first one on, or all   *)
(* of them when it says there are no more, in order and as they are.         *)
IsPage(page, more, before) ==
  /\ page \in Seq(Message) /\ Len(page) <= Cap /\ more \in BOOLEAN
  /\ Ascending(page) /\ (more => Len(page) > 0)
  /\ \A j \in DOMAIN page :
       /\ page[j].seq \in Live /\ (before = 0 \/ page[j].seq < before)
       /\ page[j].text = log[page[j].seq].text
       /\ page[j].liked = log[page[j].seq].liked
  /\ \A i \in Live : /\ before = 0 \/ i < before
                     /\ ~more \/ i >= page[1].seq
                     => \E j \in DOMAIN page : page[j].seq = i

LEMMA ReadPageIs ==
  ASSUME TypeOK, NEW f \in Fetches, ReadPage(f)
  PROVE  \E page, more :
           /\ IsPage(page, more, fetch[f].before)
           /\ fetch' = [fetch EXCEPT ![f].read = TRUE, ![f].page = page, ![f].more = more]
<1>0. PICK shared \in SUBSET Live :
        LET rows == JoinedBelow(fetch[f].before, shared)
            n    == IF fetch[f].kind = "prefetch" THEN PrefetchSize ELSE PageSize
            last == LastOf(rows, n)
        IN  fetch' = [fetch EXCEPT
                        ![f].read = TRUE,
                        ![f].page = [j \in DOMAIN last |-> MessageOf(last[j])],
                        ![f].more = Len(rows) > n]
  BY DEF ReadPage
<1> DEFINE before == fetch[f].before
           rows == JoinedBelow(before, shared)
           n == IF fetch[f].kind = "prefetch" THEN PrefetchSize ELSE PageSize
           last == LastOf(rows, n)
           page == [j \in DOMAIN last |-> MessageOf(last[j])]
           more == Len(rows) > n
           K == {i \in Live : before = 0 \/ i < before}
<1>1. fetch' = [fetch EXCEPT ![f].read = TRUE, ![f].page = page, ![f].more = more]
  BY <1>0
<1>2. n \in Nat /\ n >= 1 /\ n <= Cap
  BY PageAssumption, CapAssumption
<1> HIDE DEF n
<1>3. log \in Seq(Row) /\ DOMAIN log \subseteq Nat /\ \A i \in DOMAIN log : log[i] \in Row
  BY DEF TypeOK
<1>4. /\ rows \in Seq(DOMAIN log)
      /\ \A a, b \in DOMAIN rows : a < b => rows[a] <= rows[b]
      /\ \A a \in DOMAIN rows : rows[a] \in K
      /\ \A i \in K : \E a \in DOMAIN rows : rows[a] = i
  BY <1>3, JoinedBelowIs
<1> HIDE DEF rows
<1>5. PICK d \in Nat : Drops(DOMAIN log, rows, n, last, d)
  BY <1>2, <1>4, LastOfIs
<1> HIDE DEF last
<1>6. /\ last \in Seq(DOMAIN log) /\ Len(last) = Len(rows) - d /\ Len(rows) \in Nat
      /\ \A j \in DOMAIN last : j + d \in DOMAIN rows /\ last[j] = rows[j + d]
      /\ more <=> d > 0
      /\ more => Len(last) = n
      /\ Len(last) <= n
      /\ DOMAIN last = 1..Len(last) /\ DOMAIN rows = 1..Len(rows)
  <2>1. /\ last \in Seq(DOMAIN log) /\ Len(last) = Len(rows) - d
        /\ \A j \in DOMAIN last : j + d \in DOMAIN rows /\ last[j] = rows[j + d]
        /\ Len(rows) <= n => d = 0
        /\ Len(rows) > n => d = Len(rows) - n
    BY <1>5 DEF Drops
  <2>2. Len(rows) \in Nat /\ DOMAIN rows = 1..Len(rows)
    BY <1>4
  <2> QED
    BY <1>2, <2>1, <2>2
<1>7. ASSUME NEW i \in DOMAIN log
      PROVE  /\ MessageOf(i) \in Message /\ MessageOf(i).seq = i
             /\ MessageOf(i).text = log[i].text /\ MessageOf(i).liked = log[i].liked
  <2>1. log[i].text \in Nat /\ log[i].liked \in BOOLEAN /\ i \in Nat
    BY <1>3, Fields
  <2> QED
    BY <2>1 DEF MessageOf, Message
<1>8. /\ page \in Seq(Message) /\ Len(page) = Len(last) /\ DOMAIN page = DOMAIN last
      /\ \A j \in DOMAIN last : last[j] \in DOMAIN log /\ page[j] = MessageOf(last[j])
  <2>1. \A j \in DOMAIN last : last[j] \in DOMAIN log /\ page[j] = MessageOf(last[j])
    BY <1>6
  <2>2. \A j \in DOMAIN last : page[j] \in Message
    BY <1>7, <2>1
  <2>3. page = [j \in 1..Len(last) |-> page[j]] /\ Len(last) \in Nat
    BY <1>6
  <2> HIDE DEF page
  <2>4. page \in Seq(Message) /\ Len(page) = Len(last)
    BY <1>6, <2>2, <2>3
  <2> QED
    BY <1>6, <2>1, <2>3, <2>4
<1> HIDE DEF page, more
<1>9. \A j \in DOMAIN page :
        /\ page[j].seq = last[j]
        /\ page[j].text = log[page[j].seq].text
        /\ page[j].liked = log[page[j].seq].liked
  BY <1>7, <1>8
<1>10. Ascending(page)
  <2> SUFFICES ASSUME NEW a \in DOMAIN page, NEW b \in DOMAIN page, a < b
               PROVE  page[a].seq <= page[b].seq
    BY DEF Ascending
  <2>1. a + d \in DOMAIN rows /\ b + d \in DOMAIN rows /\ a + d < b + d
    BY <1>6, <1>8
  <2>2. rows[a + d] <= rows[b + d]
    BY <1>4, <2>1
  <2> QED
    BY <1>6, <1>8, <1>9, <2>2
<1>11. \A j \in DOMAIN page : page[j].seq \in Live /\ (before = 0 \/ page[j].seq < before)
  BY <1>4, <1>6, <1>8, <1>9
<1>12. ASSUME NEW i \in Live, before = 0 \/ i < before, ~more \/ i >= page[1].seq
       PROVE  \E j \in DOMAIN page : page[j].seq = i
  <2>1. PICK a \in DOMAIN rows : rows[a] = i
    BY <1>4, <1>12
  <2>2. CASE a > d
    <3>1. a - d \in DOMAIN last /\ (a - d) + d = a
      BY <1>6, <2>1, <2>2
    <3>2. last[a - d] = i
      BY <1>6, <2>1, <3>1
    <3> QED
      BY <1>8, <1>9, <3>1, <3>2
  <2>3. CASE ~(a > d)
    <3>1. d > 0 /\ more
      BY <1>6, <2>1, <2>3
    <3>2. 1 \in DOMAIN last
      BY <1>2, <1>6, <3>1
    <3>3. 1 + d \in DOMAIN rows /\ page[1].seq = rows[1 + d] /\ a < 1 + d
      BY <1>6, <1>8, <1>9, <2>1, <2>3, <3>2
    <3>4. rows[a] <= rows[1 + d]
      BY <1>4, <2>1, <3>3
    <3>5. rows[a] \in Nat /\ rows[1 + d] \in Nat
      BY <1>3, <1>4, <2>1, <3>3
    <3>6. page[1].seq = i
      BY <1>12, <2>1, <3>1, <3>3, <3>4, <3>5
    <3> QED
      BY <1>8, <3>2, <3>6
  <2> QED
    BY <1>6, <2>1, <2>2, <2>3
<1>13. more \in BOOLEAN /\ (more => Len(page) > 0) /\ Len(page) <= Cap
  <2>1. more \in BOOLEAN
    BY DEF more
  <2>2. (more => Len(last) = n) /\ Len(last) <= n /\ Len(page) = Len(last) /\ Len(last) \in Nat
    BY <1>6, <1>8
  <2>3. (more => Len(page) > 0) /\ Len(page) <= Cap
    BY <1>2, <2>2, CapAssumption
  <2> QED
    BY <2>1, <2>3
<1>14. IsPage(page, more, before)
  BY <1>8, <1>9, <1>10, <1>11, <1>12, <1>13 DEF IsPage
<1> QED
  BY <1>1, <1>14

PagesAscend == \A f \in Fetches : Ascending(fetch[f].page)

OnceInv == TypeInv /\ PagesAscend /\ ShownOnce

(* One request changes, with its type.                                       *)
LEMMA RequestSet ==
  ASSUME fetch \in [Fetches -> Fetch], NEW f \in Fetches, NEW r \in Fetch,
         fetch' = [fetch EXCEPT ![f] = r]
  PROVE  /\ fetch' \in [Fetches -> Fetch] /\ fetch'[f] = r
         /\ \A g \in Fetches : g # f => fetch'[g] = fetch[g]
  OBVIOUS

LEMMA IdleIs ==
  /\ Idle \in Fetch /\ Idle.kind = "none" /\ Idle.read = FALSE /\ Idle.before = 0
  /\ Idle.page = <<>> /\ Idle.more = FALSE /\ Idle.stale = FALSE
<1>1. <<>> \in Seq(Message)
  OBVIOUS
<1> QED
  BY <1>1 DEF Idle, Fetch

LEMMA EmptyIs ==
  ASSUME NEW s, s = <<>>
  PROVE  /\ s \in Seq(Message) /\ Len(s) = 0 /\ DOMAIN s = {}
         /\ Ascending(s) /\ \A R : DistinctBut(s, R)
<1>1. s \in Seq(Message) /\ Len(s) = 0 /\ DOMAIN s = {}
  OBVIOUS
<1> QED
  BY <1>1 DEF Ascending, DistinctBut

(* The window after a page of older messages: those of the page that it does *)
(* not show, then its own.                                                   *)
Merged(page) == FreshOf(page) \o window.messages

LEMMA MergedIs ==
  ASSUME window \in Window, NEW page \in Seq(Message)
  PROVE  LET a == FreshOf(page)
             b == window.messages
         IN  /\ Merged(page) \in Seq(Message) /\ Len(Merged(page)) = Len(a) + Len(b)
             /\ \A n \in DOMAIN Merged(page) :
                  \/ n \in DOMAIN a /\ Merged(page)[n] = a[n]
                  \/ /\ n - Len(a) \in DOMAIN b /\ Merged(page)[n] = b[n - Len(a)]
                     /\ n > Len(a)
             /\ \A n \in DOMAIN a : n \in DOMAIN Merged(page) /\ Merged(page)[n] = a[n]
             /\ \A n \in DOMAIN b : n + Len(a) \in DOMAIN Merged(page)
                                    /\ Merged(page)[n + Len(a)] = b[n]
<1> DEFINE a == FreshOf(page)
           b == window.messages
           m == a \o b
<1>1. a \in Seq(Message) /\ b \in Seq(Message)
  BY FreshOfIs, Fields
<1>2. Merged(page) = m
  BY DEF Merged
<1> HIDE DEF a, b
<1>3. /\ m \in Seq(Message) /\ Len(m) = Len(a) + Len(b)
      /\ DOMAIN m = 1..(Len(a) + Len(b)) /\ DOMAIN a = 1..Len(a) /\ DOMAIN b = 1..Len(b)
      /\ Len(a) \in Nat /\ Len(b) \in Nat
      /\ \A n \in 1..(Len(a) + Len(b)) : m[n] = IF n <= Len(a) THEN a[n] ELSE b[n - Len(a)]
  BY <1>1
<1> HIDE DEF m
<1>4. ASSUME NEW n \in DOMAIN b
      PROVE  n + Len(a) \in DOMAIN m /\ m[n + Len(a)] = b[n]
  <2>1. n + Len(a) \in DOMAIN m /\ ~(n + Len(a) <= Len(a)) /\ (n + Len(a)) - Len(a) = n
    BY <1>3
  <2> QED
    BY <1>3, <2>1
<1>5. ASSUME NEW n \in DOMAIN a
      PROVE  n \in DOMAIN m /\ m[n] = a[n]
  BY <1>3
<1>6. ASSUME NEW n \in DOMAIN m
      PROVE  \/ n \in DOMAIN a /\ m[n] = a[n]
             \/ n - Len(a) \in DOMAIN b /\ m[n] = b[n - Len(a)] /\ n > Len(a)
  BY <1>3
<1> QED
  BY <1>2, <1>3, <1>4, <1>5, <1>6 DEF a, b

LEMMA MergedIsDistinct ==
  ASSUME window \in Window, ShownOnce, NEW page \in Seq(Message)
  PROVE  DistinctBut(Merged(page), repeated \cup Repeated(page))
<1> DEFINE a == FreshOf(page)
           b == window.messages
           m == Merged(page)
           R == Repeated(page)
<1>1. /\ a \in Seq(Message) /\ b \in Seq(Message)
      /\ \A n \in DOMAIN a : ~Shows(a[n].seq)
  BY FreshOfIs, Fields
<1>2. DistinctBut(a, R)
  BY FreshIsDistinct
<1>3. DistinctBut(b, repeated) /\ \A n \in DOMAIN b : Shows(b[n].seq)
  BY DEF ShownOnce, DistinctBut, Shows
<1>4. \A n \in DOMAIN m :
        \/ n \in DOMAIN a /\ m[n] = a[n]
        \/ n - Len(a) \in DOMAIN b /\ m[n] = b[n - Len(a)] /\ n > Len(a)
  BY MergedIs
<1>5. m \in Seq(Message)
  BY MergedIs
<1> HIDE DEF a, b, m, R
<1>6. ASSUME NEW i \in DOMAIN m, NEW j \in DOMAIN m, m[i].seq = m[j].seq,
             m[i].seq \notin repeated, m[i].seq \notin R
      PROVE  i = j
  <2>0. i \in Nat /\ j \in Nat /\ Len(a) \in Nat
    BY <1>1, <1>5
  <2>1. CASE i \in DOMAIN a /\ m[i] = a[i]
    <3>1. ~Shows(m[i].seq)
      BY <1>1, <2>1
    <3>2. j \in DOMAIN a /\ m[j] = a[j]
      BY <1>3, <1>4, <1>6, <3>1
    <3> QED
      BY <1>2, <1>6, <2>1, <3>2 DEF DistinctBut
  <2>2. CASE i - Len(a) \in DOMAIN b /\ m[i] = b[i - Len(a)] /\ i > Len(a)
    <3>1. Shows(m[i].seq)
      BY <1>3, <2>2
    <3>2. j - Len(a) \in DOMAIN b /\ m[j] = b[j - Len(a)]
      BY <1>1, <1>4, <1>6, <3>1
    <3>3. i - Len(a) = j - Len(a)
      BY <1>3, <1>6, <2>2, <3>2 DEF DistinctBut
    <3> QED
      BY <2>0, <3>3
  <2> QED
    BY <1>4, <2>1, <2>2
<1>7. DistinctBut(m, repeated \cup R)
  BY <1>6 DEF DistinctBut
<1> QED
  BY <1>7 DEF m, R

(* Cutting at the newest end.                                                *)
LEMMA FirstOfKeeps ==
  ASSUME NEW s \in Seq(Message), NEW n \in Nat
  PROVE  /\ FirstOf(s, n) \in Seq(Message) /\ Len(FirstOf(s, n)) <= n
         /\ \A R : DistinctBut(s, R) => DistinctBut(FirstOf(s, n), R)
         /\ FirstOf(s, n) # <<>> => FirstOf(s, n)[1] \in Message
<1> DEFINE t == FirstOf(s, n)
<1>1. /\ t \in Seq(Message) /\ Len(t) <= n
      /\ \A j \in DOMAIN t : j \in DOMAIN s /\ t[j] = s[j]
  BY FirstOfIs
<1> HIDE DEF t
<1>2. \A R : DistinctBut(s, R) => DistinctBut(t, R)
  BY <1>1 DEF DistinctBut
<1>3. t # <<>> => t[1] \in Message
  BY <1>1
<1> QED
  BY <1>1, <1>2, <1>3 DEF t

LEMMA TypesAre ==
  ASSUME TypeInv
  PROVE  /\ log \in Seq(Row) /\ pending \in Seq(Event) /\ window \in Window
         /\ fetch \in [Fetches -> Fetch] /\ \A f \in Fetches : fetch[f] \in Fetch
         /\ window.messages \in Seq(Message) /\ window.oldest \in Nat
         /\ window.hasMore \in BOOLEAN /\ window.loading \in BOOLEAN
         /\ \A k \in DOMAIN pending : pending[k] \in Event
         /\ \A f \in Fetches : fetch[f].page \in Seq(Message) /\ Len(fetch[f].page) <= Cap
         /\ Len(window.messages) <= Cap /\ Cap \in Nat
<1>1. /\ log \in Seq(Row) /\ pending \in Seq(Event) /\ window \in Window
      /\ fetch \in [Fetches -> Fetch] /\ \A f \in Fetches : fetch[f] \in Fetch
      /\ \A k \in DOMAIN pending : pending[k] \in Event
  BY DEF TypeInv, TypeOK
<1>2. \A f \in Fetches : fetch[f].page \in Seq(Message)
  BY <1>1, Fields
<1> QED
  BY <1>1, <1>2, Fields, CapAssumption DEF TypeInv, TypeOK, PagesFit

(* What the renderer makes of an event.                                      *)
LEMMA HandledKeeps ==
  ASSUME window \in Window, Len(window.messages) <= Cap, ShownOnce, NEW e \in Event, e.kind # "silent"
  PROVE  /\ Handled(e) \in Window /\ Len(Handled(e).messages) <= Cap
         /\ DistinctBut(Handled(e).messages, repeated)
<1>1. CASE Handled(e) = window
  BY <1>1 DEF ShownOnce, DistinctBut
<1>2. CASE e.kind = "new" /\ ~Shows(e.seq)
  <2> DEFINE s == Appended(e).messages
             old == window.messages
  <2>1. Handled(e) = Appended(e)
    BY <1>2 DEF Handled
  <2>2. Appended(e) \in Window /\ Len(s) <= Cap
    BY <1>2, AppendedIs
  <2>3. PICK d \in 0..Len(old) :
          /\ Len(s) = Len(old) + 1 - d /\ s[Len(s)] = Fresh(e)
          /\ \A j \in 1..(Len(s) - 1) : j + d \in DOMAIN old /\ s[j] = old[j + d]
    BY <1>2, AppendedIs
  <2>4. s \in Seq(Message) /\ Fresh(e).seq = e.seq
    BY <2>2, Fields DEF Fresh
  <2>5. DistinctBut(old, repeated) /\ \A j \in DOMAIN old : old[j].seq # e.seq
    BY <1>2 DEF ShownOnce, DistinctBut, Shows
  <2> HIDE DEF s, old
  <2>6. ASSUME NEW i \in DOMAIN s, NEW j \in DOMAIN s, s[i].seq = s[j].seq, s[i].seq \notin repeated
        PROVE  i = j
    <3>1. i \in 1..Len(s) /\ j \in 1..Len(s) /\ Len(s) \in Nat /\ d \in Nat
      BY <2>3, <2>4
    <3>2. CASE i = Len(s) \/ j = Len(s)
      BY <2>3, <2>4, <2>5, <2>6, <3>1, <3>2
    <3>3. CASE i # Len(s) /\ j # Len(s)
      <4>1. i \in 1..(Len(s) - 1) /\ j \in 1..(Len(s) - 1)
        BY <3>1, <3>3
      <4>2. i + d = j + d
        BY <2>3, <2>5, <2>6, <4>1 DEF DistinctBut
      <4> QED
        BY <3>1, <4>2
    <3> QED
      BY <3>2, <3>3
  <2> QED
    BY <2>1, <2>2, <2>6 DEF DistinctBut, s
<1>3. CASE e.kind = "deleted" /\ Handled(e) = Without(e)
  <2>1. LET s == Without(e).messages IN
        /\ Without(e) \in Window /\ Len(s) <= Len(window.messages)
        /\ DistinctBut(s, repeated)
    BY WithoutIs
  <2>2. Len(Without(e).messages) \in Nat /\ Len(window.messages) \in Nat /\ Cap \in Nat
    <3>1. Without(e).messages \in Seq(Message) /\ window.messages \in Seq(Message)
      BY <2>1, Fields
    <3> QED
      BY <3>1, CapAssumption
  <2> QED
    BY <1>3, <2>1, <2>2
<1>4. CASE e.kind \in {"edited", "liked", "unliked"} /\ Handled(e) = WithPatch(e)
  <2>1. LET s == WithPatch(e).messages IN
        /\ WithPatch(e) \in Window /\ Len(s) = Len(window.messages)
        /\ DOMAIN s = DOMAIN window.messages
        /\ \A j \in DOMAIN window.messages : s[j].seq = window.messages[j].seq
    BY <1>4, WithPatchIs
  <2> QED
    BY <1>4, <2>1 DEF ShownOnce, DistinctBut
<1>5. e.kind \in Kinds
  BY Fields
<1>6. e.kind = "new" /\ Shows(e.seq) => Handled(e) = window
  BY DEF Handled, Appended
<1>7. e.kind = "new" \/ (view # "this" /\ Handled(e) = window) \/ Handled(e) = Without(e) \/ Handled(e) = WithPatch(e)
  BY DEF Handled
<1>8. e.kind = "deleted" => Handled(e) = window \/ Handled(e) = Without(e)
  BY DEF Handled
<1>9. e.kind \in {"edited", "liked", "unliked"} => Handled(e) = window \/ Handled(e) = WithPatch(e)
  BY DEF Handled
<1> QED
  BY <1>1, <1>2, <1>3, <1>4, <1>5, <1>6, <1>8, <1>9 DEF Kinds

(* What each step of the client does to its requests.                        *)
LEMMA RequestSteps ==
  ASSUME TypeInv, NEW f \in Fetches
  PROVE  /\ \A kind \in {"first", "older", "prefetch"}, before \in Nat :
              Ask(f, kind, before) =>
                \E r \in Fetch : /\ fetch' = [fetch EXCEPT ![f] = r]
                                 /\ r.kind = kind /\ ~r.read /\ r.before = before
                                 /\ r.page = <<>> /\ ~r.stale
         /\ ReadPage(f) =>
              \E r \in Fetch : /\ fetch' = [fetch EXCEPT ![f] = r]
                               /\ r.kind = fetch[f].kind /\ r.before = fetch[f].before /\ r.read
                               /\ IsPage(r.page, r.more, r.before)
<1>1. ASSUME NEW kind \in {"first", "older", "prefetch"}, NEW before \in Nat, Ask(f, kind, before)
      PROVE  \E r \in Fetch : /\ fetch' = [fetch EXCEPT ![f] = r]
                              /\ r.kind = kind /\ ~r.read /\ r.before = before
                              /\ r.page = <<>> /\ ~r.stale
  <2> DEFINE r == [Idle EXCEPT !.kind = kind, !.before = before]
  <2>1. fetch' = [fetch EXCEPT ![f] = r]
    BY <1>1 DEF Ask
  <2>2. /\ r \in Fetch /\ r.kind = kind /\ r.before = before
        /\ r.read = Idle.read /\ r.page = Idle.page /\ r.stale = Idle.stale
    BY IdleIs DEF Fetch
  <2> HIDE DEF r
  <2> QED
    BY <2>1, <2>2, IdleIs
<1>2. ASSUME ReadPage(f)
      PROVE  \E r \in Fetch : /\ fetch' = [fetch EXCEPT ![f] = r]
                              /\ r.kind = fetch[f].kind /\ r.before = fetch[f].before /\ r.read
                              /\ IsPage(r.page, r.more, r.before)
  <2>0. fetch[f] \in Fetch /\ TypeOK /\ fetch \in [Fetches -> Fetch]
    BY TypesAre DEF TypeInv
  <2>1. PICK page, more :
          /\ IsPage(page, more, fetch[f].before)
          /\ fetch' = [fetch EXCEPT ![f].read = TRUE, ![f].page = page, ![f].more = more]
    BY <1>2, <2>0, ReadPageIs
  <2> DEFINE old == fetch[f]
             r == [old EXCEPT !.read = TRUE, !.page = page, !.more = more]
  <2>2. fetch' = [fetch EXCEPT ![f] = r]
    BY <2>0, <2>1
  <2>3. page \in Seq(Message) /\ more \in BOOLEAN
    BY <2>1 DEF IsPage
  <2> HIDE DEF old
  <2>4. /\ r \in Fetch /\ r.kind = old.kind /\ r.before = old.before /\ r.read
        /\ r.page = page /\ r.more = more
    BY <2>0, <2>3 DEF Fetch, old
  <2> HIDE DEF r
  <2> QED
    BY <2>1, <2>2, <2>4 DEF old
<1> QED
  BY <1>1, <1>2

-----------------------------------------------------------------------------

LEMMA OnceInit == Init => OnceInv
<1> SUFFICES ASSUME Init PROVE OnceInv
  OBVIOUS
<1>1. log \in Seq(Row) /\ pending \in Seq(Event)
  <2>1. NewRow \in Row
    BY DEF NewRow, Row
  <2> QED
    BY <2>1, StoredAssumption DEF Init
<1>2. window \in Window /\ window.messages = <<>>
  <2>1. <<>> \in Seq(Message)
    BY EmptyIs
  <2> QED
    BY <2>1 DEF Init, EmptyWindow, Window
<1>3. fetch \in [Fetches -> Fetch] /\ \A f \in Fetches : fetch[f].page = <<>>
  BY IdleIs DEF Init
<1>4. writes \in 0..MaxWrites /\ view \in {"this", "other", "none"}
      /\ prefetched \in BOOLEAN /\ disturbed \in BOOLEAN /\ repeated \in SUBSET Nat
  <2>1. writes = 0 /\ view = "none" /\ prefetched = FALSE /\ disturbed = FALSE /\ repeated = {}
    BY DEF Init
  <2>2. 0 \in 0..MaxWrites
    BY BoundAssumption
  <2> QED
    BY <2>1, <2>2
<1>5. ShownOnce
  BY <1>2, EmptyIs DEF ShownOnce, DistinctBut
<1>6. \A f \in Fetches : Ascending(fetch[f].page) /\ Len(fetch[f].page) = 0
  BY <1>3, EmptyIs
<1>7. Len(window.messages) <= Cap /\ 0 <= Cap
  BY <1>2, EmptyIs, CapAssumption
<1> QED
  BY <1>1, <1>2, <1>3, <1>4, <1>5, <1>6, <1>7 DEF OnceInv, TypeInv, TypeOK, PagesFit, PagesAscend

(* An applied page takes its request away.                                   *)
LEMMA AnsweredKeeps ==
  ASSUME OnceInv, NEW f \in Fetches, fetch' = [fetch EXCEPT ![f] = Idle]
  PROVE  /\ fetch' \in [Fetches -> Fetch] /\ PagesFit' /\ PagesAscend'
         /\ fetch'[f] = Idle /\ \A g \in Fetches : g # f => fetch'[g] = fetch[g]
<1>1. /\ fetch' \in [Fetches -> Fetch] /\ fetch'[f] = Idle
      /\ \A g \in Fetches : g # f => fetch'[g] = fetch[g]
  BY TypesAre, IdleIs, RequestSet DEF OnceInv
<1>2. Len(Idle.page) <= Cap /\ Ascending(Idle.page)
  BY IdleIs, EmptyIs, CapAssumption
<1>3. \A g \in Fetches : Len(fetch[g].page) <= Cap /\ Ascending(fetch[g].page)
  BY DEF OnceInv, TypeInv, PagesFit, PagesAscend
<1>4. \A g \in Fetches : Len(fetch'[g].page) <= Cap /\ Ascending(fetch'[g].page)
  BY <1>1, <1>2, <1>3
<1> QED
  BY <1>1, <1>4 DEF PagesFit, PagesAscend

(* Applying a page.                                                          *)
LEMMA PageReplaces ==
  ASSUME TypeInv, NEW f \in Fetches, NEW more \in BOOLEAN,
         LET page == fetch[f].page
         IN  window' = [messages |-> page, oldest |-> IF page = <<>> THEN 0 ELSE page[1].seq,
                        hasMore |-> more, loading |-> FALSE]
  PROVE  /\ window' \in Window /\ Len(window'.messages) <= Cap
         /\ DistinctBut(window'.messages, Repeated(fetch[f].page))
         /\ Repeated(fetch[f].page) \in SUBSET Nat
<1> DEFINE page == fetch[f].page
           o == IF page = <<>> THEN 0 ELSE page[1].seq
<1>1. /\ page \in Seq(Message) /\ Len(page) <= Cap
      /\ DistinctBut(page, Repeated(page)) /\ Repeated(page) \in SUBSET Nat
  BY TypesAre, FreshIsDistinct
<1>2. window' = [messages |-> page, oldest |-> o, hasMore |-> more, loading |-> FALSE]
  OBVIOUS
<1>3. o \in Nat
  <2>1. page # <<>> => page[1] \in Message
    BY <1>1
  <2> QED
    BY <2>1, Fields
<1> HIDE DEF page, o
<1>4. window' \in Window /\ window'.messages = page
  BY <1>1, <1>2, <1>3 DEF Window
<1> QED
  BY <1>1, <1>4 DEF page

LEMMA OlderIs ==
  ASSUME OnceInv, NEW f \in Fetches, ApplyOlder(f)
  PROVE  LET kept == FirstOf(Merged(fetch[f].page), Cap)
         IN  /\ window' \in Window /\ window'.messages = kept
             /\ window'.oldest = (IF kept = <<>> THEN window.oldest ELSE kept[1].seq)
             /\ window'.hasMore = fetch[f].more
             /\ Len(kept) <= Cap /\ DistinctBut(kept, repeated')
             /\ repeated' = repeated \cup Repeated(fetch[f].page)
             /\ Repeated(fetch[f].page) \in SUBSET Nat
             /\ ~disturbed' => /\ ~disturbed /\ ~fetch[f].stale
                               /\ Len(Merged(fetch[f].page)) <= Cap
                               /\ window.oldest = fetch[f].before
<1> DEFINE page == fetch[f].page
           kept == FirstOf(Merged(page), Cap)
           o == IF kept = <<>> THEN window.oldest ELSE kept[1].seq
<1>1. /\ page \in Seq(Message) /\ window \in Window /\ Cap \in Nat /\ window.oldest \in Nat
      /\ fetch[f].more \in BOOLEAN
  BY TypesAre, Fields DEF OnceInv
<1>2. ShownOnce /\ Repeated(page) \in SUBSET Nat
  BY <1>1, FreshIsDistinct DEF OnceInv
<1>3. /\ Merged(page) \in Seq(Message)
      /\ DistinctBut(Merged(page), repeated \cup Repeated(page))
  BY <1>1, <1>2, MergedIs, MergedIsDistinct
<1>40. repeated' = repeated \cup Repeated(page)
  BY DEF ApplyOlder
<1>4. /\ kept \in Seq(Message) /\ Len(kept) <= Cap
      /\ DistinctBut(kept, repeated \cup Repeated(page))
      /\ kept # <<>> => kept[1] \in Message
  BY <1>1, <1>3, FirstOfKeeps
<1>5. window' = [messages |-> kept, oldest |-> o, hasMore |-> fetch[f].more, loading |-> FALSE]
  BY DEF ApplyOlder, Merged, FreshOf
<1>6. ~disturbed' => /\ ~disturbed /\ ~fetch[f].stale
                     /\ ~(Len(Merged(page)) > Cap)
                     /\ window.oldest = fetch[f].before
  BY DEF ApplyOlder, Merged, FreshOf
<1>7. Len(Merged(page)) \in Nat
  BY <1>3
<1>8. o \in Nat
  BY <1>1, <1>4, Fields
<1> HIDE DEF kept, o, page
<1>9. /\ window' \in Window /\ window'.messages = kept /\ window'.oldest = o
      /\ window'.hasMore = fetch[f].more
  BY <1>1, <1>4, <1>5, <1>8 DEF Window
<1> QED
  BY <1>1, <1>2, <1>4, <1>40, <1>6, <1>7, <1>9 DEF kept, o, page

LEMMA OnceStep == OnceInv /\ [Next]_vars => OnceInv'
<1> SUFFICES ASSUME OnceInv, [Next]_vars PROVE OnceInv'
  OBVIOUS
<1>0. /\ TypeInv /\ TypeOK /\ PagesFit /\ PagesAscend /\ ShownOnce
      /\ log \in Seq(Row) /\ pending \in Seq(Event) /\ window \in Window
      /\ fetch \in [Fetches -> Fetch] /\ Len(window.messages) <= Cap
      /\ writes \in 0..MaxWrites /\ view \in {"this", "other", "none"}
      /\ prefetched \in BOOLEAN /\ disturbed \in BOOLEAN /\ repeated \in SUBSET Nat
      /\ \A k \in DOMAIN pending : pending[k] \in Event
  BY TypesAre DEF OnceInv, TypeInv, TypeOK
<1> DEFINE ServerTypes == log \in Seq(Row) /\ pending \in Seq(Event) /\ writes \in 0..MaxWrites
           FlagTypes   == /\ view \in {"this", "other", "none"}
                          /\ prefetched \in BOOLEAN /\ disturbed \in BOOLEAN
           WindowPart  == /\ window \in Window /\ Len(window.messages) <= Cap
                          /\ DistinctBut(window.messages, repeated) /\ repeated \in SUBSET Nat
           FetchPart   == fetch \in [Fetches -> Fetch] /\ PagesFit /\ PagesAscend
<1>1. ServerTypes' /\ FlagTypes' /\ WindowPart' /\ FetchPart' => OnceInv'
  BY DEF OnceInv, TypeInv, TypeOK, ShownOnce, DistinctBut
<1>2. ServerTypes /\ FlagTypes /\ WindowPart /\ FetchPart
  BY <1>0 DEF ShownOnce, DistinctBut
<1>3. UNCHANGED serverVars => ServerTypes'
  BY <1>2
<1>4. window' = window /\ repeated' = repeated => WindowPart'
  BY <1>2
<1>5. fetch' = fetch => FetchPart'
  BY <1>2 DEF PagesFit, PagesAscend
<1> HIDE DEF ServerTypes, WindowPart, FetchPart
<1>6. CASE ServerStep
  <2>1. PICK e \in Event : Changes(e) /\ pending' = Append(pending, e)
    BY <1>0, <1>6, ServerIs
  <2>2. log' \in Seq(Row)
    BY <2>1 DEF Changes
  <2>3. pending' \in Seq(Event)
    BY <1>0, <2>1
  <2>4. writes' \in 0..MaxWrites /\ UNCHANGED clientVars
    BY <1>0, <1>6, ServerIs
  <2>5. ServerTypes'
    BY <2>2, <2>3, <2>4 DEF ServerTypes
  <2> QED
    BY <1>1, <1>2, <1>4, <1>5, <2>4, <2>5
<1>7. ASSUME NEW k \in DOMAIN pending, Deliver(k) \/ Miss(k) PROVE OnceInv'
  <2>1. Take(k) /\ MarkStale(pending[k]) /\ UNCHANGED <<log, writes, view, prefetched, repeated>>
    BY <1>7 DEF Deliver, Miss
  <2>2. pending' \in Seq(Event)
    BY <1>0, <2>1, TakeIs
  <2>3. ServerTypes'
    BY <1>0, <2>1, <2>2 DEF ServerTypes
  <2>4. FetchPart'
    <3>1. /\ fetch' \in [Fetches -> Fetch]
          /\ \A f \in Fetches : fetch'[f].page = fetch[f].page
      BY <1>0, <2>1, MarkStaleIs
    <3> QED
      BY <1>0, <3>1 DEF FetchPart, PagesFit, PagesAscend
  <2>5. WindowPart' /\ disturbed' \in BOOLEAN
    <3>1. CASE Deliver(k)
      <4>1. pending[k] \in Event /\ pending[k].kind # "silent" /\ window' = Handled(pending[k])
        BY <1>0, <3>1 DEF Deliver
      <4>2. disturbed' \in BOOLEAN
        BY <3>1 DEF Deliver
      <4>3. /\ Handled(pending[k]) \in Window /\ Len(Handled(pending[k]).messages) <= Cap
            /\ DistinctBut(Handled(pending[k]).messages, repeated)
        BY <1>0, <4>1, HandledKeeps
      <4> QED
        BY <1>0, <2>1, <4>1, <4>2, <4>3 DEF WindowPart
    <3>2. CASE Miss(k)
      BY <1>4, <3>2 DEF Miss
    <3> QED
      BY <1>7, <3>1, <3>2
  <2>6. FlagTypes'
    BY <1>0, <2>1, <2>5
  <2> QED
    BY <1>1, <2>3, <2>4, <2>5, <2>6
<1>8. ASSUME NEW f \in Fetches, NEW kind \in {"first", "older", "prefetch"}, NEW before \in Nat,
             Ask(f, kind, before)
      PROVE  FetchPart'
  <2>1. PICK r \in Fetch : fetch' = [fetch EXCEPT ![f] = r] /\ r.page = <<>>
    BY <1>0, <1>8, RequestSteps
  <2>2. /\ fetch' \in [Fetches -> Fetch] /\ fetch'[f] = r
        /\ \A g \in Fetches : g # f => fetch'[g] = fetch[g]
    BY <1>0, <2>1, RequestSet
  <2>3. Len(r.page) <= Cap /\ Ascending(r.page)
    BY <2>1, EmptyIs, CapAssumption
  <2> QED
    BY <1>0, <2>2, <2>3 DEF FetchPart, PagesFit, PagesAscend
<1>9. /\ repeated' = repeated
      /\ window' = [window EXCEPT !.loading = TRUE] \/ window' = [window EXCEPT !.loading = FALSE]
      => WindowPart'
  <2>1. ASSUME NEW b \in BOOLEAN, window' = [window EXCEPT !.loading = b]
        PROVE  window' \in Window /\ window'.messages = window.messages
    BY <1>0, <2>1 DEF Window
  <2> QED
    BY <1>2, <2>1 DEF WindowPart
<1>10. CASE Open
  <2>1. UNCHANGED <<serverVars, prefetched, disturbed, repeated>> /\ view' = "this"
    BY <1>10 DEF Open
  <2>2. FetchPart' /\ WindowPart'
    <3>1. CASE UNCHANGED <<window, fetch>>
      BY <1>4, <1>5, <2>1, <3>1
    <3>2. CASE /\ \E f \in Fetches : Ask(f, "first", 0)
               /\ window' = [window EXCEPT !.loading = TRUE]
      BY <1>8, <1>9, <2>1, <3>2
    <3> QED
      BY <1>10, <3>1, <3>2 DEF Open
  <2> QED
    BY <1>0, <1>1, <1>3, <2>1, <2>2
<1>11. ASSUME NEW v \in {"other", "none"}, Leave(v) PROVE OnceInv'
  <2>1. UNCHANGED <<serverVars, window, prefetched, fetch, disturbed, repeated>> /\ view' = v
    BY <1>11 DEF Leave
  <2> QED
    BY <1>0, <1>1, <1>3, <1>4, <1>5, <2>1
<1>12. ASSUME NEW f \in Fetches, LoadOlder(f) PROVE OnceInv'
  <2>1. /\ UNCHANGED <<serverVars, view, prefetched, disturbed, repeated>>
        /\ Ask(f, "older", window.oldest) /\ window' = [window EXCEPT !.loading = TRUE]
    BY <1>12 DEF LoadOlder
  <2>2. window.oldest \in Nat
    BY <1>0, Fields
  <2> QED
    BY <1>0, <1>1, <1>3, <1>8, <1>9, <2>1, <2>2
<1>13. ASSUME NEW f \in Fetches, Prefetch(f) PROVE OnceInv'
  <2>1. UNCHANGED <<serverVars, view, window, prefetched, disturbed, repeated>> /\ Ask(f, "prefetch", 0)
    BY <1>13 DEF Prefetch
  <2> QED
    BY <1>0, <1>1, <1>3, <1>4, <1>8, <2>1
<1>14. ASSUME NEW f \in Fetches, ReadPage(f) PROVE OnceInv'
  <2>1. UNCHANGED <<serverVars, view, window, prefetched, disturbed, repeated>>
    BY <1>14 DEF ReadPage
  <2>2. PICK r \in Fetch : fetch' = [fetch EXCEPT ![f] = r] /\ IsPage(r.page, r.more, r.before)
    BY <1>0, <1>14, RequestSteps
  <2>3. /\ fetch' \in [Fetches -> Fetch] /\ fetch'[f] = r
        /\ \A g \in Fetches : g # f => fetch'[g] = fetch[g]
    BY <1>0, <2>2, RequestSet
  <2>4. Len(r.page) <= Cap /\ Ascending(r.page)
    BY <2>2 DEF IsPage
  <2>5. FetchPart'
    BY <1>0, <2>3, <2>4 DEF FetchPart, PagesFit, PagesAscend
  <2> QED
    BY <1>0, <1>1, <1>3, <1>4, <2>1, <2>5
<1>15. ASSUME NEW f \in Fetches, fetch' = [fetch EXCEPT ![f] = Idle] PROVE FetchPart'
  BY <1>15, AnsweredKeeps DEF FetchPart
<1>16. ASSUME NEW f \in Fetches, FetchFails(f) PROVE OnceInv'
  <2>1. /\ UNCHANGED <<serverVars, view, prefetched, disturbed, repeated>>
        /\ fetch' = [fetch EXCEPT ![f] = Idle]
        /\ window' = window \/ window' = [window EXCEPT !.loading = FALSE]
    BY <1>16 DEF FetchFails
  <2> QED
    BY <1>0, <1>1, <1>3, <1>4, <1>9, <1>15, <2>1
<1>17. ASSUME NEW f \in Fetches, ApplyFirst(f) PROVE OnceInv'
  <2>1. /\ UNCHANGED <<serverVars, view, prefetched>> /\ fetch' = [fetch EXCEPT ![f] = Idle]
        /\ disturbed' = fetch[f].stale /\ repeated' = Repeated(fetch[f].page)
    BY <1>17 DEF ApplyFirst, Answered
  <2>2. fetch[f].stale \in BOOLEAN /\ fetch[f].more \in BOOLEAN
    BY <1>0, TypesAre, Fields
  <2>3. WindowPart'
    BY <1>0, <1>17, <2>1, <2>2, PageReplaces DEF ApplyFirst, WindowPart
  <2> QED
    BY <1>0, <1>1, <1>3, <1>15, <2>1, <2>2, <2>3
<1>18. ASSUME NEW f \in Fetches, ApplyOlder(f) PROVE OnceInv'
  <2>1. /\ UNCHANGED <<serverVars, view, prefetched>> /\ fetch' = [fetch EXCEPT ![f] = Idle]
        /\ disturbed' \in BOOLEAN
    BY <1>18 DEF ApplyOlder, Answered
  <2>2. WindowPart'
    BY <1>0, <1>18, OlderIs DEF WindowPart
  <2> QED
    BY <1>0, <1>1, <1>3, <1>15, <2>1, <2>2
<1>19. ASSUME NEW f \in Fetches, ApplyPrefetch(f) PROVE OnceInv'
  <2>1. UNCHANGED <<serverVars, view>> /\ fetch' = [fetch EXCEPT ![f] = Idle]
    BY <1>19 DEF ApplyPrefetch, Answered
  <2>2. WindowPart' /\ prefetched' \in BOOLEAN /\ disturbed' \in BOOLEAN
    <3>1. CASE UNCHANGED <<window, prefetched, disturbed, repeated>>
      BY <1>0, <1>4, <3>1
    <3>2. CASE ~UNCHANGED <<window, prefetched, disturbed, repeated>>
      <4>1. /\ prefetched' = TRUE /\ disturbed' = fetch[f].stale
            /\ repeated' = Repeated(fetch[f].page)
            /\ LET page == fetch[f].page
               IN  window' = [messages |-> page, oldest |-> IF page = <<>> THEN 0 ELSE page[1].seq,
                              hasMore |-> TRUE, loading |-> FALSE]
        BY <1>19, <3>2 DEF ApplyPrefetch
      <4>2. fetch[f].stale \in BOOLEAN
        BY <1>0, TypesAre, Fields
      <4>3. WindowPart'
        BY <1>0, <4>1, PageReplaces DEF WindowPart
      <4> QED
        BY <4>1, <4>2, <4>3
    <3> QED
      BY <3>1, <3>2
  <2> QED
    BY <1>0, <1>1, <1>3, <1>15, <2>1, <2>2
<1>20. CASE UNCHANGED vars
  BY <1>0, <1>1, <1>3, <1>4, <1>5, <1>20 DEF vars
<1> QED
  BY <1>6, <1>7, <1>10, <1>11, <1>12, <1>13, <1>14, <1>16, <1>17, <1>18, <1>19, <1>20
     DEF Next, EventStep, FetchStep

THEOREM TypeCorrect == Spec => []TypeOK
<1>1. OnceInv => TypeOK
  BY DEF OnceInv, TypeInv
<1> QED
  BY <1>1, OnceInit, OnceStep, PTL DEF Spec

THEOREM ShownOnceAlways == Spec => []ShownOnce
<1>1. OnceInv => ShownOnce
  BY DEF OnceInv
<1> QED
  BY <1>1, OnceInit, OnceStep, PTL DEF Spec

-----------------------------------------------------------------------------
(* What a window may differ by from the rows: the changes that are still to  *)
(* be announced, p, of the rows l.                                           *)

Adds  == {"new", "silent"}
Likes == {"liked", "unliked"}

Pends(p, i, K) == \E k \in DOMAIN p : p[k].seq = i /\ p[k].kind \in K

Told(l, p, i, text, liked) ==
  /\ text = l[i].text \/ Pends(p, i, {"edited"})
  /\ liked = l[i].liked \/ Pends(p, i, Likes)
  /\ l[i].deleted => Pends(p, i, {"deleted"})

(* The queue.  The change that added a row is before the others of the row   *)
(* and after those that added earlier rows; the last one of its kind says    *)
(* what the row holds, unless it was overtaken; and one that added a row and *)
(* was not overtaken is announced before any later row is.                   *)
QueueRows == \A k \in DOMAIN pending : pending[k].seq \in DOMAIN log

AddsFirst ==
  \A j, k \in DOMAIN pending : j < k /\ AddsRow(pending[k]) =>
    /\ pending[j].seq # pending[k].seq
    /\ AddsRow(pending[j]) => pending[j].seq < pending[k].seq

LastOfKind(k, K) ==
  /\ pending[k].kind \in K
  /\ \A j \in DOMAIN pending :
       j > k => ~(pending[j].seq = pending[k].seq /\ pending[j].kind \in K)

LastTells ==
  \A k \in DOMAIN pending : ~pending[k].late =>
    /\ LastOfKind(k, {"edited"}) => log[pending[k].seq].text = pending[k].text
    /\ LastOfKind(k, Likes) => log[pending[k].seq].liked = (pending[k].kind = "liked")

DeletedIs ==
  \A k \in DOMAIN pending : pending[k].kind = "deleted" => log[pending[k].seq].deleted

AddTells ==
  \A k \in DOMAIN pending : AddsRow(pending[k]) =>
    /\ pending[k].text = 0
    /\ ~pending[k].late =>
         /\ Told(log, pending, pending[k].seq, 0, FALSE)
         /\ \A i \in DOMAIN log : i > pending[k].seq => Pends(pending, i, Adds)

QueueInv == QueueRows /\ AddsFirst /\ LastTells /\ DeletedIs /\ AddTells

(* What a change of the server does to what is known of the rows.            *)
LEMMA ServerKnows ==
  ASSUME log \in Seq(Row), pending \in Seq(Event), NEW e, Changes(e), pending' = Append(pending, e)
  PROVE  /\ \A i \in DOMAIN log : \A text, liked :
              Told(log, pending, i, text, liked) => Told(log', pending', i, text, liked)
         /\ \A i, K : Pends(pending, i, K) => Pends(pending', i, K)
         /\ \A i \in Live' : i \in Live \/ (i = Len(log) + 1 /\ Pends(pending', i, Adds))
         /\ Len(log) <= Len(log') /\ DOMAIN log \subseteq DOMAIN log'
         /\ DOMAIN log = 1..Len(log) /\ DOMAIN log' = 1..Len(log') /\ Len(log) \in Nat /\ Len(log') \in Nat
         /\ AddsRow(e) => Told(log', pending', e.seq, 0, FALSE)
         /\ \A i \in DOMAIN log' : i \in DOMAIN log \/ (i = Len(log) + 1 /\ AddsRow(e))
<1>1. /\ e \in Event /\ log' \in Seq(Row)
      /\ Len(log') = (IF AddsRow(e) THEN Len(log) + 1 ELSE Len(log))
      /\ AddsRow(e) => e.seq = Len(log) + 1 /\ log'[e.seq] = NewRow
      /\ \A i \in DOMAIN log :
           /\ log'[i].text = log[i].text \/ (e.kind = "edited" /\ e.seq = i)
           /\ log'[i].liked = log[i].liked \/ (e.kind \in {"liked", "unliked"} /\ e.seq = i)
           /\ log[i].deleted => log'[i].deleted
           /\ log'[i].deleted => log[i].deleted \/ (e.kind = "deleted" /\ e.seq = i)
  BY DEF Changes
<1>2. /\ Len(log) \in Nat /\ DOMAIN log = 1..Len(log) /\ Len(log') \in Nat /\ DOMAIN log' = 1..Len(log')
  BY <1>1
<1>3. Len(log) <= Len(log') /\ DOMAIN log \subseteq DOMAIN log'
  BY <1>1, <1>2
<1>4. /\ \A k \in DOMAIN pending : k \in DOMAIN pending' /\ pending'[k] = pending[k]
      /\ Len(pending) + 1 \in DOMAIN pending' /\ pending'[Len(pending) + 1] = e
  BY <1>1
<1>5. \A i, K : Pends(pending, i, K) => Pends(pending', i, K)
  BY <1>4 DEF Pends
<1>6. \A K : e.kind \in K => Pends(pending', e.seq, K)
  BY <1>4 DEF Pends
<1>7. ASSUME NEW i \in DOMAIN log, NEW text, NEW liked, Told(log, pending, i, text, liked)
      PROVE  Told(log', pending', i, text, liked)
  <2>1. text = log[i].text \/ Pends(pending', i, {"edited"})
    BY <1>5, <1>7 DEF Told
  <2>2. text = log'[i].text \/ Pends(pending', i, {"edited"})
    BY <1>1, <1>6, <2>1
  <2>3. liked = log[i].liked \/ Pends(pending', i, Likes)
    BY <1>5, <1>7 DEF Told
  <2>4. liked = log'[i].liked \/ Pends(pending', i, Likes)
    BY <1>1, <1>6, <2>3 DEF Likes
  <2>5. log[i].deleted => Pends(pending', i, {"deleted"})
    BY <1>5, <1>7 DEF Told
  <2>6. log'[i].deleted => Pends(pending', i, {"deleted"})
    BY <1>1, <1>6, <2>5
  <2> QED
    BY <2>2, <2>4, <2>6 DEF Told
<1>8. \A i \in DOMAIN log' : i \in DOMAIN log \/ (i = Len(log) + 1 /\ AddsRow(e))
  BY <1>1, <1>2
<1>9. \A i \in Live' : i \in Live \/ (i = Len(log) + 1 /\ Pends(pending', i, Adds))
  <2> SUFFICES ASSUME NEW i \in DOMAIN log', ~log'[i].deleted
               PROVE  i \in Live \/ (i = Len(log) + 1 /\ Pends(pending', i, Adds))
    BY DEF Live
  <2>1. CASE i \in DOMAIN log
    BY <1>1, <2>1 DEF Live
  <2>2. CASE i = Len(log) + 1 /\ AddsRow(e)
    BY <1>1, <1>6, <2>2 DEF AddsRow, Adds
  <2> QED
    BY <1>8, <2>1, <2>2
<1>10. AddsRow(e) => Told(log', pending', e.seq, 0, FALSE)
  <2>1. NewRow.text = 0 /\ NewRow.liked = FALSE /\ NewRow.deleted = FALSE
    BY DEF NewRow
  <2> QED
    BY <1>1, <2>1 DEF Told
<1> QED
  BY <1>2, <1>3, <1>5, <1>7, <1>8, <1>9, <1>10

LEMMA ServerQueue ==
  ASSUME log \in Seq(Row), pending \in Seq(Event), QueueInv,
         NEW e, Changes(e), pending' = Append(pending, e)
  PROVE  QueueInv'
<1> DEFINE n == Len(pending)
<1>1. /\ n \in Nat /\ DOMAIN pending = 1..n /\ DOMAIN pending' = 1..(n + 1)
      /\ pending'[n + 1] = e /\ \A k \in 1..n : pending'[k] = pending[k]
  <2>1. e \in Event
    BY DEF Changes
  <2> QED
    BY <2>1
<1>2. /\ e.seq \in DOMAIN log' /\ ~e.late
      /\ AddsRow(e) => e.seq = Len(log) + 1 /\ e.text = 0
      /\ \A i \in DOMAIN log :
           /\ log'[i].text = log[i].text \/ (e.kind = "edited" /\ e.seq = i)
           /\ log'[i].liked = log[i].liked \/ (e.kind \in Likes /\ e.seq = i)
           /\ log[i].deleted => log'[i].deleted
      /\ e.kind = "edited" => log'[e.seq].text = e.text
      /\ e.kind \in Likes => log'[e.seq].liked = (e.kind = "liked")
      /\ e.kind = "deleted" => log'[e.seq].deleted
  BY DEF Changes, Likes
<1>3. /\ \A i \in DOMAIN log : \A text, liked :
           Told(log, pending, i, text, liked) => Told(log', pending', i, text, liked)
      /\ \A i, K : Pends(pending, i, K) => Pends(pending', i, K)
      /\ DOMAIN log \subseteq DOMAIN log' /\ DOMAIN log = 1..Len(log) /\ Len(log) \in Nat
      /\ DOMAIN log' = 1..Len(log') /\ Len(log') \in Nat
      /\ AddsRow(e) => Told(log', pending', e.seq, 0, FALSE)
      /\ \A i \in DOMAIN log' : i \in DOMAIN log \/ (i = Len(log) + 1 /\ AddsRow(e))
  BY ServerKnows
<1>4. \A k \in 1..n : pending[k].seq \in DOMAIN log
  BY <1>1 DEF QueueInv, QueueRows
<1> HIDE DEF n
<1>5. QueueRows'
  <2> SUFFICES ASSUME NEW k \in 1..(n + 1) PROVE pending'[k].seq \in DOMAIN log'
    BY <1>1 DEF QueueRows
  <2>1. CASE k = n + 1
    BY <1>1, <1>2, <2>1
  <2>2. CASE k \in 1..n
    BY <1>1, <1>3, <1>4, <2>2
  <2>3. k = n + 1 \/ k \in 1..n
    BY <1>1
  <2> QED
    BY <2>1, <2>2, <2>3
<1>6. AddsFirst'
  <2> SUFFICES ASSUME NEW j \in 1..(n + 1), NEW k \in 1..(n + 1), j < k, AddsRow(pending'[k])
               PROVE  /\ pending'[j].seq # pending'[k].seq
                      /\ AddsRow(pending'[j]) => pending'[j].seq < pending'[k].seq
    BY <1>1 DEF AddsFirst, AddsRow
  <2>0. j \in 1..n /\ pending'[j] = pending[j]
    BY <1>1
  <2>1. CASE k = n + 1
    <3>1. pending'[k] = e /\ AddsRow(e)
      BY <1>1, <2>1
    <3>2. e.seq = Len(log) + 1 /\ pending[j].seq \in 1..Len(log)
      BY <1>2, <1>3, <1>4, <2>0, <3>1
    <3>3. pending[j].seq < e.seq /\ pending[j].seq # e.seq
      BY <1>3, <3>2
    <3>4. pending'[j].seq = pending[j].seq /\ pending'[k].seq = e.seq
      BY <2>0, <3>1
    <3> QED
      BY <3>3, <3>4
  <2>2. CASE k \in 1..n
    <3>1. pending'[k] = pending[k] /\ j \in DOMAIN pending /\ k \in DOMAIN pending
      BY <1>1, <2>0, <2>2
    <3>2. AddsRow(pending[k])
      BY <3>1
    <3>3. /\ pending[j].seq # pending[k].seq
          /\ AddsRow(pending[j]) => pending[j].seq < pending[k].seq
      BY <3>1, <3>2 DEF QueueInv, AddsFirst
    <3> QED
      BY <2>0, <3>1, <3>3
  <2>3. k = n + 1 \/ k \in 1..n
    BY <1>1
  <2> QED
    BY <2>1, <2>2, <2>3
<1>7. LastTells'
  <2> SUFFICES ASSUME NEW k \in 1..(n + 1), ~pending'[k].late
               PROVE  /\ LastOfKind(k, {"edited"})' => log'[pending'[k].seq].text = pending'[k].text
                      /\ LastOfKind(k, Likes)' => log'[pending'[k].seq].liked = (pending'[k].kind = "liked")
    BY <1>1 DEF LastTells, LastOfKind, Likes
  <2>1. CASE k = n + 1
    <3>1. pending'[k] = e
      BY <1>1, <2>1
    <3> QED
      BY <1>2, <3>1 DEF LastOfKind, Likes
  <2>2. CASE k \in 1..n
    <3> DEFINE i == pending[k].seq
    <3>1. pending'[k] = pending[k] /\ i \in DOMAIN log /\ n + 1 > k /\ n + 1 \in DOMAIN pending'
      BY <1>1, <1>4, <2>2
    <3>2. ASSUME NEW K, LastOfKind(k, K)'
          PROVE  LastOfKind(k, K) /\ ~(e.seq = i /\ e.kind \in K)
      <4>1. pending[k].kind \in K
        BY <3>1, <3>2 DEF LastOfKind
      <4>2. \A j \in DOMAIN pending' : j > k => ~(pending'[j].seq = i /\ pending'[j].kind \in K)
        BY <3>1, <3>2 DEF LastOfKind
      <4>3. ~(e.seq = i /\ e.kind \in K)
        BY <1>1, <3>1, <4>2
      <4>4. \A j \in DOMAIN pending : j > k => ~(pending[j].seq = i /\ pending[j].kind \in K)
        BY <1>1, <4>2
      <4> QED
        BY <4>1, <4>3, <4>4 DEF LastOfKind
    <3>3. ~pending[k].late /\ k \in DOMAIN pending
      BY <1>1, <2>2, <3>1
    <3>4. /\ LastOfKind(k, {"edited"}) => log[i].text = pending[k].text
          /\ LastOfKind(k, Likes) => log[i].liked = (pending[k].kind = "liked")
      BY <3>3 DEF QueueInv, LastTells
    <3>5. ASSUME LastOfKind(k, {"edited"})' PROVE log'[i].text = pending[k].text
      <4>1. LastOfKind(k, {"edited"}) /\ ~(e.seq = i /\ e.kind = "edited")
        BY <3>2, <3>5
      <4> QED
        BY <1>2, <3>1, <3>4, <4>1
    <3>6. ASSUME LastOfKind(k, Likes)' PROVE log'[i].liked = (pending[k].kind = "liked")
      <4>1. LastOfKind(k, Likes) /\ ~(e.seq = i /\ e.kind \in Likes)
        BY <3>2, <3>6 DEF Likes
      <4> QED
        BY <1>2, <3>1, <3>4, <4>1
    <3> HIDE DEF i
    <3>7. pending'[k].seq = i /\ pending'[k].text = pending[k].text /\ pending'[k].kind = pending[k].kind
      BY <3>1 DEF i
    <3> QED
      BY <3>5, <3>6, <3>7
  <2>3. k = n + 1 \/ k \in 1..n
    BY <1>1
  <2> QED
    BY <2>1, <2>2, <2>3
<1>8. DeletedIs'
  <2> SUFFICES ASSUME NEW k \in 1..(n + 1), pending'[k].kind = "deleted"
               PROVE  log'[pending'[k].seq].deleted
    BY <1>1 DEF DeletedIs
  <2>1. CASE k = n + 1
    BY <1>1, <1>2, <2>1
  <2>2. CASE k \in 1..n
    <3>1. log[pending[k].seq].deleted
      BY <1>1, <2>2 DEF QueueInv, DeletedIs
    <3> QED
      BY <1>1, <1>2, <1>4, <2>2, <3>1
  <2>3. k = n + 1 \/ k \in 1..n
    BY <1>1
  <2> QED
    BY <2>1, <2>2, <2>3
<1>9. AddTells'
  <2> SUFFICES ASSUME NEW k \in 1..(n + 1), AddsRow(pending'[k])
               PROVE  /\ pending'[k].text = 0
                      /\ ~pending'[k].late =>
                           /\ Told(log', pending', pending'[k].seq, 0, FALSE)
                           /\ \A i \in DOMAIN log' : i > pending'[k].seq => Pends(pending', i, Adds)
    BY <1>1 DEF AddTells, AddsRow, Told, Pends, Adds, Likes
  <2>0. AddsRow(e) => Pends(pending', e.seq, Adds)
    BY <1>1 DEF Pends, AddsRow, Adds
  <2>1. CASE k = n + 1
    <3>1. pending'[k] = e /\ \A i \in DOMAIN log' : ~(i > e.seq)
      BY <1>1, <1>2, <1>3, <2>1
    <3> QED
      BY <1>2, <1>3, <3>1
  <2>2. CASE k \in 1..n
    <3>1. pending'[k] = pending[k] /\ pending[k].seq \in DOMAIN log
      BY <1>1, <1>4, <2>2
    <3>2. /\ pending[k].text = 0
          /\ ~pending[k].late =>
               /\ Told(log, pending, pending[k].seq, 0, FALSE)
               /\ \A i \in DOMAIN log : i > pending[k].seq => Pends(pending, i, Adds)
      BY <1>1, <2>2, <3>1 DEF QueueInv, AddTells
    <3>3. ASSUME ~pending[k].late
          PROVE  \A i \in DOMAIN log' : i > pending[k].seq => Pends(pending', i, Adds)
      <4>1. \A i \in DOMAIN log : i > pending[k].seq => Pends(pending', i, Adds)
        BY <1>3, <3>2, <3>3
      <4>2. \A i \in DOMAIN log' : i \notin DOMAIN log => Pends(pending', i, Adds)
        BY <1>2, <1>3, <2>0
      <4> QED
        BY <4>1, <4>2
    <3>4. ~pending[k].late => Told(log', pending', pending[k].seq, 0, FALSE)
      BY <1>3, <3>1, <3>2
    <3>5. /\ pending[k].text = 0 /\ pending'[k].text = pending[k].text
          /\ pending'[k].seq = pending[k].seq /\ pending'[k].late = pending[k].late
      BY <3>1, <3>2
    <3>6. /\ ~pending'[k].late => Told(log', pending', pending'[k].seq, 0, FALSE)
          /\ ~pending'[k].late => \A i \in DOMAIN log' : i > pending'[k].seq => Pends(pending', i, Adds)
      BY <3>3, <3>4, <3>5
    <3> QED
      BY <3>5, <3>6
  <2>3. k = n + 1 \/ k \in 1..n
    BY <1>1
  <2> QED
    BY <2>1, <2>2, <2>3
<1> QED
  BY <1>5, <1>6, <1>7, <1>8, <1>9 DEF QueueInv

(* What an announcement leaves to be announced.                              *)
LEMMA TakeKnows ==
  ASSUME pending \in Seq(Event), NEW k \in DOMAIN pending, Take(k), log' = log
  PROVE  /\ \A i, K : Pends(pending, i, K) => Pends(pending', i, K)
                      \/ (i = pending[k].seq /\ pending[k].kind \in K)
         /\ \A i, text, liked : i # pending[k].seq /\ Told(log, pending, i, text, liked)
                                => Told(log', pending', i, text, liked)
<1>1. /\ \A j \in DOMAIN pending' :
           /\ pending'[j].kind = pending[Old(k, j)].kind
           /\ pending'[j].seq = pending[Old(k, j)].seq
      /\ \A i \in DOMAIN pending : i # k => \E j \in DOMAIN pending' : Old(k, j) = i
  BY TakeIs
<1>2. ASSUME NEW i, NEW K, Pends(pending, i, K), ~(i = pending[k].seq /\ pending[k].kind \in K)
      PROVE  Pends(pending', i, K)
  <2>1. PICK m \in DOMAIN pending : pending[m].seq = i /\ pending[m].kind \in K
    BY <1>2 DEF Pends
  <2>2. m # k
    BY <1>2, <2>1
  <2>3. PICK j \in DOMAIN pending' : Old(k, j) = m
    BY <1>1, <2>1, <2>2
  <2>4. pending'[j].seq = i /\ pending'[j].kind \in K
    BY <1>1, <2>1, <2>3
  <2> QED
    BY <2>3, <2>4 DEF Pends
<1>3. \A i, text, liked : i # pending[k].seq /\ Told(log, pending, i, text, liked)
                          => Told(log', pending', i, text, liked)
  BY <1>2 DEF Told
<1> QED
  BY <1>2, <1>3

LEMMA TakeQueue ==
  ASSUME log \in Seq(Row), pending \in Seq(Event), QueueInv,
         NEW k \in DOMAIN pending, Take(k), log' = log
  PROVE  QueueInv'
<1>1. /\ pending' \in Seq(Event)
      /\ \A j \in DOMAIN pending' :
           /\ Old(k, j) \in DOMAIN pending /\ Old(k, j) # k
           /\ pending'[j].kind = pending[Old(k, j)].kind
           /\ pending'[j].seq = pending[Old(k, j)].seq
           /\ pending'[j].text = pending[Old(k, j)].text
           /\ ~pending'[j].late => /\ ~pending[Old(k, j)].late
                                   /\ Old(k, j) < k => ~Overtaken(pending[Old(k, j)], pending[k])
      /\ \A i, j \in DOMAIN pending' : i < j <=> Old(k, i) < Old(k, j)
      /\ \A i \in DOMAIN pending : i # k => \E j \in DOMAIN pending' : Old(k, j) = i
  BY TakeIs
<1>2. \A j \in DOMAIN pending' : AddsRow(pending'[j]) <=> AddsRow(pending[Old(k, j)])
  BY <1>1 DEF AddsRow
<1>3. k \in Nat /\ \A j \in DOMAIN pending : j \in Nat
  OBVIOUS
<1>4. QueueRows'
  BY <1>1 DEF QueueInv, QueueRows
<1>5. AddsFirst'
  <2> SUFFICES ASSUME NEW i \in DOMAIN pending', NEW j \in DOMAIN pending', i < j, AddsRow(pending'[j])
               PROVE  /\ pending'[i].seq # pending'[j].seq
                      /\ AddsRow(pending'[i]) => pending'[i].seq < pending'[j].seq
    BY DEF AddsFirst, AddsRow
  <2>1. /\ Old(k, i) \in DOMAIN pending /\ Old(k, j) \in DOMAIN pending
        /\ Old(k, i) < Old(k, j) /\ AddsRow(pending[Old(k, j)])
        /\ pending'[i].seq = pending[Old(k, i)].seq /\ pending'[j].seq = pending[Old(k, j)].seq
        /\ AddsRow(pending'[i]) <=> AddsRow(pending[Old(k, i)])
    BY <1>1, <1>2
  <2> QED
    BY <2>1 DEF QueueInv, AddsFirst
<1>6. LastTells'
  <2> SUFFICES ASSUME NEW j \in DOMAIN pending', ~pending'[j].late
               PROVE  /\ LastOfKind(j, {"edited"})' => log'[pending'[j].seq].text = pending'[j].text
                      /\ LastOfKind(j, Likes)' => log'[pending'[j].seq].liked = (pending'[j].kind = "liked")
    BY DEF LastTells, LastOfKind, Likes
  <2> DEFINE o == Old(k, j)
  <2>1. /\ o \in DOMAIN pending /\ o # k /\ ~pending[o].late
        /\ pending'[j].kind = pending[o].kind /\ pending'[j].seq = pending[o].seq
        /\ pending'[j].text = pending[o].text
        /\ o < k => ~Overtaken(pending[o], pending[k])
    BY <1>1
  <2>2. ASSUME NEW K, LastOfKind(j, K)' PROVE LastOfKind(o, K)
    <3>1. /\ pending[o].kind \in K
          /\ \A m \in DOMAIN pending' : m > j => ~(pending'[m].seq = pending[o].seq /\ pending'[m].kind \in K)
      BY <2>1, <2>2 DEF LastOfKind
    <3>2. ASSUME NEW i \in DOMAIN pending, i > o, pending[i].seq = pending[o].seq, pending[i].kind \in K
          PROVE  FALSE
      <4>1. CASE i = k
        BY <1>3, <2>1, <3>2, <4>1 DEF Overtaken
      <4>2. CASE i # k
        <5>1. PICK m \in DOMAIN pending' : Old(k, m) = i
          BY <1>1, <4>2
        <5>2. o < i
          BY <1>3, <2>1, <3>2
        <5>3. j < m
          BY <1>1, <5>1, <5>2
        <5>4. m > j
          BY <1>1, <5>3
        <5> QED
          BY <1>1, <3>1, <3>2, <5>1, <5>4
      <4> QED
        BY <4>1, <4>2
    <3> QED
      BY <3>1, <3>2 DEF LastOfKind
  <2>3. /\ LastOfKind(o, {"edited"}) => log[pending[o].seq].text = pending[o].text
        /\ LastOfKind(o, Likes) => log[pending[o].seq].liked = (pending[o].kind = "liked")
    BY <2>1 DEF QueueInv, LastTells
  <2>4. LastOfKind(j, {"edited"})' => LastOfKind(o, {"edited"})
    BY <2>2
  <2>5. LastOfKind(j, Likes)' => LastOfKind(o, Likes)
    BY <2>2 DEF Likes
  <2> HIDE DEF o
  <2> QED
    BY <2>1, <2>3, <2>4, <2>5
<1>7. DeletedIs'
  BY <1>1 DEF QueueInv, DeletedIs
<1>8. AddTells'
  <2> SUFFICES ASSUME NEW j \in DOMAIN pending', AddsRow(pending'[j])
               PROVE  /\ pending'[j].text = 0
                      /\ ~pending'[j].late =>
                           /\ Told(log', pending', pending'[j].seq, 0, FALSE)
                           /\ \A i \in DOMAIN log' : i > pending'[j].seq => Pends(pending', i, Adds)
    BY DEF AddTells, AddsRow, Told, Pends, Adds, Likes
  <2> DEFINE o == Old(k, j)
  <2>1. /\ o \in DOMAIN pending /\ o # k
        /\ pending'[j].text = pending[o].text /\ pending'[j].seq = pending[o].seq
        /\ AddsRow(pending[o])
        /\ ~pending'[j].late => ~pending[o].late /\ (o < k => ~Overtaken(pending[o], pending[k]))
    BY <1>1, <1>2
  <2>2. /\ pending[o].text = 0
        /\ ~pending[o].late =>
             /\ Told(log, pending, pending[o].seq, 0, FALSE)
             /\ \A i \in DOMAIN log : i > pending[o].seq => Pends(pending, i, Adds)
    BY <2>1 DEF QueueInv, AddTells
  <2> HIDE DEF o
  <2>3. o < k \/ k < o
    BY <1>3, <2>1
  <2>4. ASSUME ~pending'[j].late
        PROVE  /\ pending[k].seq # pending[o].seq
               /\ AddsRow(pending[k]) => pending[k].seq < pending[o].seq
    <3>1. CASE o < k
      <4>1. ~Overtaken(pending[o], pending[k])
        BY <2>1, <2>4, <3>1
      <4> QED
        BY <2>1, <4>1 DEF Overtaken
    <3>2. CASE k < o
      BY <2>1, <3>2 DEF QueueInv, AddsFirst
    <3> QED
      BY <2>3, <3>1, <3>2
  <2>5. ASSUME ~pending'[j].late
        PROVE  Told(log', pending', pending[o].seq, 0, FALSE)
    BY <2>1, <2>2, <2>4, <2>5, TakeKnows
  <2>6. ASSUME ~pending'[j].late, NEW i \in DOMAIN log, i > pending[o].seq
        PROVE  Pends(pending', i, Adds)
    <3>1. Pends(pending, i, Adds)
      BY <2>1, <2>2, <2>6
    <3>2. ~(i = pending[k].seq /\ pending[k].kind \in Adds)
      <4>1. pending[k].kind \in Adds => AddsRow(pending[k])
        BY DEF Adds, AddsRow
      <4>2. i \in Nat /\ pending[o].seq \in Nat
        <5>1. pending[o] \in Event
          BY <2>1
        <5> QED
          BY <5>1, Fields
      <4>3. AddsRow(pending[k]) => pending[k].seq < pending[o].seq
        BY <2>4, <2>6
      <4> QED
        BY <2>6, <4>1, <4>2, <4>3
    <3> QED
      BY <3>1, <3>2, TakeKnows
  <2> QED
    BY <2>1, <2>2, <2>5, <2>6
<1> QED
  BY <1>4, <1>5, <1>6, <1>7, <1>8 DEF QueueInv

Has(s, i) == \E j \in DOMAIN s : s[j].seq = i

AllTold(l, p, s) == \A j \in DOMAIN s : Told(l, p, s[j].seq, s[j].text, s[j].liked)

LiveIn(l) == {i \in DOMAIN l : ~l[i].deleted}

(* The page of a request, which was right when it was read: unless it is     *)
(* marked, it differs from the rows by what is still to be announced, and    *)
(* lacks only rows from `before` on, which the window has, or added since.   *)
PageTells(l, p, r) ==
  /\ AllTold(l, p, r.page)
  /\ r.more => r.page # <<>>
  /\ \A i \in LiveIn(l) : ~r.more \/ i >= r.page[1].seq =>
       Has(r.page, i) \/ (r.before # 0 /\ i >= r.before) \/ (r.before = 0 /\ Pends(p, i, Adds))

RequestRight(l, p, r) ==
  /\ r.kind \in {"first", "prefetch"} => r.before = 0
  /\ r.before \in 0..Len(l) /\ \A j \in DOMAIN r.page : r.page[j].seq \in DOMAIN l
  /\ r.kind = "none" => ~r.read
  /\ ~r.read => r.page = <<>>
  /\ r.before # 0 => \A j \in DOMAIN r.page : r.page[j].seq < r.before
  /\ r.read /\ ~r.stale => PageTells(l, p, r)

(* The window, the same: an undisturbed one ascends, differs by what is to   *)
(* be announced, and lacks only rows below its first or added since.         *)
WindowTells(l, p, w) ==
  /\ Ascending(w.messages)
  /\ AllTold(l, p, w.messages)
  /\ \A j \in DOMAIN w.messages : w.messages[j].seq >= w.oldest
  /\ \A i \in LiveIn(l) : (w.oldest # 0 /\ i >= w.oldest) \/ ~w.hasMore =>
       Has(w.messages, i) \/ Pends(p, i, Adds)

WindowIs(l, p, w, d) ==
  /\ w.oldest \in 0..Len(l) /\ \A j \in DOMAIN w.messages : w.messages[j].seq \in DOMAIN l
  /\ w.oldest = 0 => w.messages = <<>>
  /\ ~d => WindowTells(l, p, w)

RequestsRight == \A f \in Fetches : RequestRight(log, pending, fetch[f])

WindowRight == WindowIs(log, pending, window, disturbed)

FaithInv == OnceInv /\ QueueInv /\ RequestsRight /\ WindowRight

-----------------------------------------------------------------------------
(* The server changes its rows.                                              *)

LEMMA ServerKeepsRequest ==
  ASSUME log \in Seq(Row), pending \in Seq(Event), NEW e, Changes(e), pending' = Append(pending, e),
         NEW r, r \in Fetch, RequestRight(log, pending, r)
  PROVE  RequestRight(log', pending', r)
<1>1. /\ \A i \in DOMAIN log : \A text, liked :
           Told(log, pending, i, text, liked) => Told(log', pending', i, text, liked)
      /\ \A i, K : Pends(pending, i, K) => Pends(pending', i, K)
      /\ \A i \in Live' : i \in Live \/ (i = Len(log) + 1 /\ Pends(pending', i, Adds))
      /\ Len(log) <= Len(log') /\ DOMAIN log \subseteq DOMAIN log'
      /\ Len(log) \in Nat /\ Len(log') \in Nat
  BY ServerKnows
<1>2. Live = LiveIn(log) /\ Live' = LiveIn(log')
  BY DEF Live, LiveIn
<1>3. /\ r.kind \in {"first", "prefetch"} => r.before = 0
      /\ r.before \in 0..Len(log) /\ \A j \in DOMAIN r.page : r.page[j].seq \in DOMAIN log
      /\ r.kind = "none" => ~r.read
      /\ ~r.read => r.page = <<>>
      /\ r.before # 0 => \A j \in DOMAIN r.page : r.page[j].seq < r.before
      /\ r.read /\ ~r.stale => PageTells(log, pending, r)
  BY DEF RequestRight
<1>4. r.before \in 0..Len(log') /\ \A j \in DOMAIN r.page : r.page[j].seq \in DOMAIN log'
  BY <1>1, <1>3
<1>5. ASSUME PageTells(log, pending, r) PROVE PageTells(log', pending', r)
  <2>1. AllTold(log', pending', r.page)
    BY <1>1, <1>3, <1>5 DEF PageTells, AllTold
  <2>2. ASSUME NEW i \in Live', ~r.more \/ i >= r.page[1].seq
        PROVE  Has(r.page, i) \/ (r.before # 0 /\ i >= r.before) \/ (r.before = 0 /\ Pends(pending', i, Adds))
    <3>1. CASE i \in Live
      BY <1>1, <1>2, <1>5, <2>2, <3>1 DEF PageTells
    <3>2. CASE i = Len(log) + 1 /\ Pends(pending', i, Adds)
      <4>1. i >= r.before
        BY <1>1, <1>3, <3>2
      <4> QED
        BY <3>2, <4>1
    <3> QED
      BY <1>1, <3>1, <3>2
  <2> QED
    BY <1>2, <1>5, <2>1, <2>2 DEF PageTells
<1> QED
  BY <1>3, <1>4, <1>5 DEF RequestRight

LEMMA ServerKeepsWindow ==
  ASSUME log \in Seq(Row), pending \in Seq(Event), NEW e, Changes(e), pending' = Append(pending, e),
         NEW w, NEW d, WindowIs(log, pending, w, d)
  PROVE  WindowIs(log', pending', w, d)
<1>1. /\ \A i \in DOMAIN log : \A text, liked :
           Told(log, pending, i, text, liked) => Told(log', pending', i, text, liked)
      /\ \A i, K : Pends(pending, i, K) => Pends(pending', i, K)
      /\ \A i \in Live' : i \in Live \/ (i = Len(log) + 1 /\ Pends(pending', i, Adds))
      /\ Len(log) <= Len(log') /\ DOMAIN log \subseteq DOMAIN log'
      /\ Len(log) \in Nat /\ Len(log') \in Nat
  BY ServerKnows
<1>2. Live = LiveIn(log) /\ Live' = LiveIn(log')
  BY DEF Live, LiveIn
<1>3. /\ w.oldest \in 0..Len(log) /\ \A j \in DOMAIN w.messages : w.messages[j].seq \in DOMAIN log
      /\ w.oldest = 0 => w.messages = <<>>
      /\ ~d => WindowTells(log, pending, w)
  BY DEF WindowIs
<1>4. w.oldest \in 0..Len(log') /\ \A j \in DOMAIN w.messages : w.messages[j].seq \in DOMAIN log'
  BY <1>1, <1>3
<1>5. ASSUME WindowTells(log, pending, w) PROVE WindowTells(log', pending', w)
  <2>1. AllTold(log', pending', w.messages)
    BY <1>1, <1>3, <1>5 DEF WindowTells, AllTold
  <2>2. ASSUME NEW i \in Live', (w.oldest # 0 /\ i >= w.oldest) \/ ~w.hasMore
        PROVE  Has(w.messages, i) \/ Pends(pending', i, Adds)
    <3>1. CASE i \in Live
      BY <1>1, <1>2, <1>5, <2>2, <3>1 DEF WindowTells
    <3> QED
      BY <1>1, <3>1
  <2> QED
    BY <1>2, <1>5, <2>1, <2>2 DEF WindowTells
<1> QED
  BY <1>3, <1>4, <1>5 DEF WindowIs

-----------------------------------------------------------------------------
(* An event leaves the queue.                                                *)

LEMMA TakeKeepsRequest ==
  ASSUME log \in Seq(Row), pending \in Seq(Event), fetch \in [Fetches -> Fetch],
         NEW k \in DOMAIN pending, Take(k), log' = log, MarkStale(pending[k]),
         NEW f \in Fetches, RequestRight(log, pending, fetch[f])
  PROVE  RequestRight(log', pending', fetch'[f])
<1> DEFINE e == pending[k]
           r == fetch[f]
           s == fetch'[f]
<1>1. /\ s.kind = r.kind /\ s.read = r.read /\ s.before = r.before /\ s.page = r.page
      /\ s.more = r.more /\ (~s.stale => ~Outdates(e, f) /\ ~r.stale)
  BY MarkStaleIs
<1>2. /\ r.kind \in {"first", "prefetch"} => r.before = 0
      /\ r.before \in 0..Len(log) /\ \A j \in DOMAIN r.page : r.page[j].seq \in DOMAIN log
      /\ r.kind = "none" => ~r.read
      /\ ~r.read => r.page = <<>>
      /\ r.before # 0 => \A j \in DOMAIN r.page : r.page[j].seq < r.before
      /\ r.read /\ ~r.stale => PageTells(log, pending, r)
  BY DEF RequestRight
<1>3. /\ \A i, K : Pends(pending, i, K) => Pends(pending', i, K) \/ (i = e.seq /\ e.kind \in K)
      /\ \A i, text, liked : i # e.seq /\ Told(log, pending, i, text, liked)
                             => Told(log', pending', i, text, liked)
  BY TakeKnows
<1>4. ASSUME s.read, ~s.stale PROVE PageTells(log', pending', s)
  <2>1. PageTells(log, pending, r) /\ ~Outdates(e, f)
    BY <1>1, <1>2, <1>4
  <2>2. ~(AddsRow(e) /\ r.before = 0) /\ \A j \in DOMAIN r.page : r.page[j].seq # e.seq
    <3>1. r.read /\ r.kind # "none"
      BY <1>1, <1>2, <1>4
    <3> QED
      BY <2>1, <3>1 DEF Outdates
  <2>3. AllTold(log', pending', r.page)
    BY <1>3, <2>1, <2>2 DEF PageTells, AllTold
  <2>4. e.kind \in Adds <=> AddsRow(e)
    BY DEF Adds, AddsRow
  <2> HIDE DEF e, r, s
  <2>5. \A i \in LiveIn(log) : ~r.more \/ i >= r.page[1].seq =>
          \/ Has(r.page, i) \/ (r.before # 0 /\ i >= r.before)
          \/ (r.before = 0 /\ Pends(pending', i, Adds))
    BY <1>3, <2>1, <2>2, <2>4 DEF PageTells
  <2> QED
    BY <1>1, <2>1, <2>3, <2>5 DEF PageTells
<1> HIDE DEF r, s, e
<1>5. /\ s.kind \in {"first", "prefetch"} => s.before = 0
      /\ s.before \in 0..Len(log') /\ \A j \in DOMAIN s.page : s.page[j].seq \in DOMAIN log'
      /\ s.kind = "none" => ~s.read
      /\ ~s.read => s.page = <<>>
      /\ s.before # 0 => \A j \in DOMAIN s.page : s.page[j].seq < s.before
  BY <1>1, <1>2
<1>6. RequestRight(log', pending', s)
  BY <1>4, <1>5 DEF RequestRight
<1> QED
  BY <1>6 DEF s

(* A new message, in its place at the end.                                   *)
LEMMA AppendKeepsWindow ==
  ASSUME OnceInv, QueueInv, WindowRight, NEW k \in DOMAIN pending, Deliver(k),
         pending[k].kind = "new", ~Shows(pending[k].seq)
  PROVE  WindowRight'
<1> DEFINE e == pending[k]
           w == window
           v == window'
           old == window.messages
           s == window'.messages
<1>1. /\ \A i, K : Pends(pending, i, K) => Pends(pending', i, K) \/ (i = e.seq /\ e.kind \in K)
      /\ log' = log /\ window' = Appended(e) /\ w \in Window /\ e \in Event
      /\ disturbed' = (disturbed \/ Misapplied(e))
      /\ log \in Seq(Row)
  <2>1. /\ Take(k) /\ log' = log /\ window' = Handled(e) /\ pending \in Seq(Event)
        /\ w \in Window /\ e \in Event /\ disturbed' = (disturbed \/ Misapplied(e))
        /\ log \in Seq(Row)
    BY TypesAre DEF Deliver, OnceInv
  <2>2. Handled(e) = Appended(e)
    BY DEF Handled
  <2> QED
    BY <2>1, <2>2, TakeKnows
<1>2. /\ v \in Window /\ v.oldest = s[1].seq /\ s \in Seq(Message) /\ old \in Seq(Message)
      /\ \E d \in 0..Len(old) :
           /\ Len(s) = Len(old) + 1 - d /\ s[Len(s)] = Fresh(e)
           /\ \A j \in 1..(Len(s) - 1) : j + d \in DOMAIN old /\ s[j] = old[j + d]
           /\ v.hasMore = (w.hasMore \/ d > 0)
  <2>1. LET t == Appended(e).messages
        IN  /\ Appended(e) \in Window /\ Appended(e).oldest = t[1].seq
            /\ \E d \in 0..Len(window.messages) :
                 /\ Len(t) = Len(window.messages) + 1 - d /\ t[Len(t)] = Fresh(e)
                 /\ \A j \in 1..(Len(t) - 1) : j + d \in DOMAIN window.messages /\ t[j] = window.messages[j + d]
                 /\ Appended(e).hasMore = (window.hasMore \/ d > 0)
    BY <1>1, AppendedIs
  <2> QED
    BY <1>1, <2>1, Fields
<1>3. PICK d \in 0..Len(old) :
           /\ Len(s) = Len(old) + 1 - d /\ s[Len(s)] = Fresh(e)
           /\ \A j \in 1..(Len(s) - 1) : j + d \in DOMAIN old /\ s[j] = old[j + d]
           /\ v.hasMore = (w.hasMore \/ d > 0)
  BY <1>2
<1>4. Fresh(e).seq = e.seq /\ Fresh(e).text = e.text /\ Fresh(e).liked = FALSE
  BY DEF Fresh
<1>5. /\ w.oldest \in 0..Len(log) /\ \A j \in DOMAIN old : old[j].seq \in DOMAIN log
      /\ w.oldest = 0 => old = <<>>
      /\ ~disturbed => WindowTells(log, pending, w)
  BY DEF WindowRight, WindowIs
<1>6. /\ e.seq \in DOMAIN log /\ e.text = 0
      /\ ~e.late => /\ Told(log, pending, e.seq, 0, FALSE)
                    /\ \A i \in DOMAIN log : i > e.seq => Pends(pending, i, Adds)
  <2>1. AddsRow(e)
    BY DEF AddsRow
  <2> QED
    BY <2>1 DEF QueueInv, QueueRows, AddTells
<1>7. /\ DOMAIN log = 1..Len(log) /\ Len(log) \in Nat
      /\ DOMAIN s = 1..Len(s) /\ Len(s) \in Nat /\ Len(s) >= 1
      /\ DOMAIN old = 1..Len(old) /\ Len(old) \in Nat /\ d \in Nat
  <2>1. DOMAIN log = 1..Len(log) /\ Len(log) \in Nat
    BY <1>1
  <2>2. DOMAIN s = 1..Len(s) /\ Len(s) \in Nat /\ DOMAIN old = 1..Len(old) /\ Len(old) \in Nat
    BY <1>2
  <2> HIDE DEF s, old
  <2> QED
    BY <1>3, <2>1, <2>2
<1>8. e.kind = "new"
  OBVIOUS
<1>9. ~disturbed' => /\ ~disturbed /\ ~e.late /\ \A j \in DOMAIN old : ~(old[j].seq > e.seq)
  BY <1>1 DEF Misapplied
<1>10. \A j \in DOMAIN old : old[j].seq # e.seq
  BY DEF Shows
<1>11. \A i, text, liked : Told(log, pending, i, text, liked) => Told(log, pending', i, text, liked)
  <2>1. e.kind \notin {"edited"} /\ e.kind \notin Likes /\ e.kind \notin {"deleted"}
    BY <1>8 DEF Likes
  <2> QED
    BY <1>1, <2>1 DEF Told
<1> HIDE DEF e, w, v, old, s
<1>12. \A j \in DOMAIN s : (j = Len(s) /\ s[j] = Fresh(e)) \/ (j + d \in DOMAIN old /\ s[j] = old[j + d])
  <2> SUFFICES ASSUME NEW j \in DOMAIN s, j # Len(s) PROVE j + d \in DOMAIN old /\ s[j] = old[j + d]
    BY <1>3
  <2>1. j \in 1..(Len(s) - 1)
    BY <1>7
  <2> QED
    BY <1>3, <2>1
<1>13. \A j \in DOMAIN s : s[j].seq \in DOMAIN log
  BY <1>4, <1>5, <1>6, <1>12
<1>14. v.oldest \in 0..Len(log) /\ v.oldest # 0
  <2>1. 1 \in DOMAIN s
    BY <1>7
  <2> QED
    BY <1>2, <1>7, <1>13, <2>1
<1>15. ASSUME ~disturbed' PROVE WindowTells(log, pending', v)
  <2>1. /\ Ascending(old) /\ AllTold(log, pending, old)
        /\ \A j \in DOMAIN old : old[j].seq >= w.oldest
        /\ \A i \in LiveIn(log) : (w.oldest # 0 /\ i >= w.oldest) \/ ~w.hasMore =>
             Has(old, i) \/ Pends(pending, i, Adds)
    BY <1>5, <1>9, <1>15 DEF WindowTells, w, old
  <2>2. \A j \in DOMAIN old : old[j].seq < e.seq
    BY <1>5, <1>6, <1>7, <1>9, <1>10, <1>15
  <2>3. AllTold(log, pending', s)
    BY <1>4, <1>6, <1>9, <1>11, <1>12, <1>15, <2>1 DEF AllTold
  <2>4. Ascending(s)
    <3> SUFFICES ASSUME NEW i \in DOMAIN s, NEW j \in DOMAIN s, i < j PROVE s[i].seq <= s[j].seq
      BY DEF Ascending
    <3>1. i \in 1..(Len(s) - 1)
      BY <1>7
    <3>2. i + d \in DOMAIN old /\ s[i] = old[i + d]
      BY <1>3, <3>1
    <3>3. CASE j = Len(s)
      <4>1. s[i].seq < e.seq /\ s[j].seq = e.seq
        BY <1>3, <1>4, <2>2, <3>2, <3>3
      <4>2. s[i].seq \in Nat /\ s[j].seq \in Nat
        BY <1>7, <1>13
      <4> QED
        BY <4>1, <4>2
    <3>4. CASE j # Len(s)
      <4>1. j \in 1..(Len(s) - 1)
        BY <1>7, <3>4
      <4>2. j + d \in DOMAIN old /\ s[j] = old[j + d]
        BY <1>3, <4>1
      <4>3. i + d < j + d
        BY <1>7
      <4> QED
        BY <2>1, <3>2, <4>2, <4>3 DEF Ascending
    <3> QED
      BY <3>3, <3>4
  <2>5. ASSUME NEW j \in DOMAIN s PROVE s[j].seq >= v.oldest
    <3>1. 1 \in DOMAIN s /\ j \in Nat /\ j >= 1
      BY <1>7
    <3>2. j = 1 \/ 1 < j
      BY <3>1
    <3>3. s[1].seq \in Nat /\ s[j].seq \in Nat
      BY <1>7, <1>13, <3>1
    <3>4. 1 < j => s[1].seq <= s[j].seq
      BY <2>4, <3>1 DEF Ascending
    <3> QED
      BY <1>2, <3>2, <3>3, <3>4
  <2>6. ASSUME NEW i \in LiveIn(log), i >= v.oldest \/ ~v.hasMore
        PROVE  Has(s, i) \/ Pends(pending', i, Adds)
    <3>0. i \in DOMAIN log /\ i \in Nat /\ e.seq \in Nat
      BY <1>6, <1>7 DEF LiveIn
    <3>1. CASE i = e.seq
      BY <1>3, <1>4, <1>7, <3>1 DEF Has
    <3>2. CASE i > e.seq
      <4>1. i # e.seq
        BY <3>0, <3>2
      <4>2. Pends(pending, i, Adds)
        BY <1>6, <1>9, <1>15, <3>0, <3>2
      <4> QED
        BY <1>1, <4>1, <4>2
    <3>3. CASE i < e.seq
      <4>1. (w.oldest # 0 /\ i >= w.oldest) \/ ~w.hasMore
        <5>1. CASE ~v.hasMore
          BY <1>3, <5>1
        <5>2. CASE i >= v.oldest
          <6>1. Len(s) # 1
            BY <1>2, <1>3, <1>4, <3>0, <3>3, <5>2
          <6>2. 1 \in 1..(Len(s) - 1)
            BY <1>7, <6>1
          <6>3. 1 + d \in DOMAIN old /\ s[1] = old[1 + d]
            BY <1>3, <6>2
          <6>4. v.oldest >= w.oldest
            BY <1>2, <2>1, <6>3
          <6>5. w.oldest # 0
            <7>1. old = <<>> => DOMAIN old = {}
              BY EmptyIs
            <7> QED
              BY <1>5, <6>3, <7>1
          <6>6. w.oldest \in Nat /\ v.oldest \in Nat
            BY <1>5, <1>7, <1>14
          <6> QED
            BY <3>0, <5>2, <6>4, <6>5, <6>6
        <5> QED
          BY <2>6, <5>1, <5>2
      <4>2. CASE Pends(pending, i, Adds)
        BY <1>1, <3>0, <3>3, <4>2
      <4>3. CASE Has(old, i)
        <5>1. PICK m \in DOMAIN old : old[m].seq = i
          BY <4>3 DEF Has
        <5>2. CASE m > d
          <6>1. m - d \in 1..(Len(s) - 1) /\ (m - d) + d = m
            BY <1>3, <1>7, <5>1, <5>2
          <6>2. s[m - d] = old[m] /\ m - d \in DOMAIN s
            BY <1>3, <1>7, <6>1
          <6> QED
            BY <5>1, <6>2 DEF Has
        <5>3. CASE ~(m > d)
          <6>0. d > 0
            BY <1>7, <5>1, <5>3
          <6>1. v.hasMore
            BY <1>3, <6>0
          <6>2. i >= v.oldest
            BY <2>6, <6>1
          <6>3. CASE Len(s) = 1
            <7>1. v.oldest = e.seq
              BY <1>2, <1>3, <1>4, <6>3
            <7> QED
              BY <3>0, <3>3, <6>2, <7>1
          <6>4. CASE Len(s) # 1
            <7>1. 1 \in 1..(Len(s) - 1)
              BY <1>7, <6>4
            <7>2. 1 + d \in DOMAIN old /\ s[1] = old[1 + d] /\ m < 1 + d
              BY <1>3, <1>7, <5>1, <5>3, <7>1
            <7>3. i <= v.oldest
              BY <1>2, <2>1, <5>1, <7>2 DEF Ascending
            <7>4. v.oldest \in Nat
              BY <1>7, <1>14
            <7>5. s[1].seq = i /\ 1 \in DOMAIN s
              BY <1>2, <1>7, <3>0, <6>2, <7>3, <7>4
            <7> QED
              BY <7>5 DEF Has
          <6> QED
            BY <6>3, <6>4
        <5> QED
          BY <5>2, <5>3
      <4> QED
        BY <2>1, <4>1, <4>2, <4>3
    <3> QED
      BY <3>0, <3>1, <3>2, <3>3
  <2>7. v.messages = s
    BY DEF v, s
  <2> QED
    BY <2>3, <2>4, <2>5, <2>6, <2>7 DEF WindowTells
<1>16. WindowIs(log, pending', v, disturbed')
  <2>1. v.messages = s
    BY DEF v, s
  <2> QED
    BY <1>13, <1>14, <1>15, <2>1 DEF WindowIs
<1> QED
  BY <1>1, <1>16 DEF WindowRight, v

(* The window stays: it is not loaded yet, it shows the row that was added,  *)
(* or the event is of a row that it does not show.                           *)
LEMMA StaysRight ==
  ASSUME OnceInv, WindowRight, NEW k \in DOMAIN pending, Take(k), log' = log, window' = window,
         ~disturbed' => /\ ~disturbed
                        /\ \/ window.oldest = 0 /\ window.hasMore
                           \/ AddsRow(pending[k]) /\ Shows(pending[k].seq)
                           \/ ~AddsRow(pending[k]) /\ ~Shows(pending[k].seq)
  PROVE  WindowRight'
<1> DEFINE e == pending[k]
           w == window
<1>1. /\ \A i, K : Pends(pending, i, K) => Pends(pending', i, K) \/ (i = e.seq /\ e.kind \in K)
      /\ \A i, text, liked : i # e.seq /\ Told(log, pending, i, text, liked)
                             => Told(log', pending', i, text, liked)
  BY TypesAre, TakeKnows DEF OnceInv
<1>2. WindowIs(log, pending, w, disturbed)
  BY DEF WindowRight
<1>3. ASSUME ~disturbed' PROVE WindowTells(log, pending', w)
  <2>1. WindowTells(log, pending, w)
    BY <1>2, <1>3 DEF WindowIs
  <2>2. CASE AddsRow(e) /\ Shows(e.seq)
    <3>1. Has(w.messages, e.seq)
      BY <2>2 DEF Shows, Has
    <3>2. e.kind \notin {"edited"} /\ e.kind \notin Likes /\ e.kind \notin {"deleted"}
      BY <2>2 DEF AddsRow, Likes
    <3>3. \A i, text, liked : Told(log, pending, i, text, liked) => Told(log, pending', i, text, liked)
      BY <1>1, <3>2 DEF Told
    <3> HIDE DEF w, e
    <3>4. AllTold(log, pending', w.messages)
      BY <2>1, <3>3 DEF WindowTells, AllTold
    <3>5. \A i \in LiveIn(log) : (w.oldest # 0 /\ i >= w.oldest) \/ ~w.hasMore =>
            Has(w.messages, i) \/ Pends(pending', i, Adds)
      BY <1>1, <2>1, <3>1 DEF WindowTells
    <3> QED
      BY <2>1, <3>4, <3>5 DEF WindowTells
  <2>3. CASE ~AddsRow(e) /\ ~Shows(e.seq)
    <3>1. \A j \in DOMAIN w.messages : w.messages[j].seq # e.seq
      BY <2>3 DEF Shows
    <3>2. e.kind \notin Adds
      BY <2>3 DEF AddsRow, Adds
    <3> HIDE DEF w, e
    <3>4. AllTold(log, pending', w.messages)
      BY <1>1, <2>1, <3>1 DEF WindowTells, AllTold
    <3>5. \A i \in LiveIn(log) : (w.oldest # 0 /\ i >= w.oldest) \/ ~w.hasMore =>
            Has(w.messages, i) \/ Pends(pending', i, Adds)
      BY <1>1, <2>1, <3>2 DEF WindowTells
    <3> QED
      BY <2>1, <3>4, <3>5 DEF WindowTells
  <2>4. CASE w.oldest = 0 /\ w.hasMore
    <3>1. DOMAIN w.messages = {}
      BY <1>2, <2>4, EmptyIs DEF WindowIs
    <3>2. ~(w.oldest # 0) /\ w.hasMore
      BY <2>4
    <3> HIDE DEF w
    <3> QED
      BY <3>1, <3>2 DEF WindowTells, AllTold, Ascending
  <2> QED
    BY <1>3, <2>2, <2>3, <2>4
<1>4. WindowIs(log, pending', w, disturbed')
  BY <1>2, <1>3 DEF WindowIs
<1> QED
  BY <1>4 DEF WindowRight

LEMMA RemovalKeepsWindow ==
  ASSUME OnceInv, QueueInv, WindowRight, NEW k \in DOMAIN pending, Deliver(k),
         pending[k].kind = "deleted", view = "this"
  PROVE  WindowRight'
<1> DEFINE e == pending[k]
           w == window
           v == window'
           old == window.messages
           s == window'.messages
<1>1. /\ \A i, K : Pends(pending, i, K) => Pends(pending', i, K) \/ (i = e.seq /\ e.kind \in K)
      /\ \A i, text, liked : i # e.seq /\ Told(log, pending, i, text, liked)
                             => Told(log', pending', i, text, liked)
      /\ log' = log /\ v = Without(e) /\ w \in Window
      /\ disturbed' = (disturbed \/ Misapplied(e))
  <2>1. /\ Take(k) /\ log' = log /\ window' = Handled(e) /\ pending \in Seq(Event)
        /\ w \in Window /\ disturbed' = (disturbed \/ Misapplied(e))
    BY TypesAre DEF Deliver, OnceInv
  <2>2. Handled(e) = Without(e)
    BY DEF Handled
  <2> QED
    BY <2>1, <2>2, TakeKnows
<1>2. /\ v \in Window /\ Len(s) <= Len(old) /\ v = [w EXCEPT !.messages = s]
      /\ \A n \in DOMAIN s : \E j \in DOMAIN old : s[n] = old[j] /\ ~Meant(old[j], e)
      /\ \A j \in DOMAIN old : ~Meant(old[j], e) => \E n \in DOMAIN s : s[n] = old[j]
      /\ Ascending(old) => Ascending(s)
  <2>1. LET t == Without(e).messages
        IN  /\ Without(e) \in Window /\ Len(t) <= Len(window.messages)
            /\ Without(e) = [window EXCEPT !.messages = t]
            /\ \A n \in DOMAIN t : \E j \in DOMAIN window.messages :
                 t[n] = window.messages[j] /\ ~Meant(window.messages[j], e)
            /\ \A j \in DOMAIN window.messages : ~Meant(window.messages[j], e) =>
                 \E n \in DOMAIN t : t[n] = window.messages[j]
            /\ Ascending(window.messages) => Ascending(t)
    BY <1>1, WithoutIs
  <2> QED
    BY <1>1, <2>1
<1>3. v.oldest = w.oldest /\ v.hasMore = w.hasMore /\ s \in Seq(Message) /\ old \in Seq(Message)
  <2>1. v.oldest = w.oldest /\ v.hasMore = w.hasMore
    BY <1>1, <1>2 DEF Window
  <2> QED
    BY <1>1, <1>2, <2>1, Fields
<1>4. /\ w.oldest \in 0..Len(log) /\ \A j \in DOMAIN old : old[j].seq \in DOMAIN log
      /\ w.oldest = 0 => old = <<>>
      /\ ~disturbed => WindowTells(log, pending, w)
  BY DEF WindowRight, WindowIs
<1>5. log[e.seq].deleted /\ e.kind \notin Adds
  BY DEF QueueInv, DeletedIs, Adds
<1>6. ~disturbed' => ~disturbed /\ \A j \in DOMAIN old : old[j].seq = e.seq <=> Meant(old[j], e)
  BY <1>1 DEF Misapplied, Meant
<1>7. v.messages = s /\ w.messages = old
  OBVIOUS
<1> HIDE DEF e, w, v, old, s
<1>8. \A j \in DOMAIN s : s[j].seq \in DOMAIN log
  BY <1>2, <1>4
<1>9. w.oldest = 0 => s = <<>>
  <2> SUFFICES ASSUME w.oldest = 0 PROVE s = <<>>
    OBVIOUS
  <2>1. Len(old) = 0
    BY <1>4, EmptyIs
  <2>2. Len(s) = 0
    BY <1>2, <1>3, <2>1
  <2> QED
    BY <1>3, <2>2
<1>10. ASSUME ~disturbed' PROVE WindowTells(log, pending', v)
  <2>1. /\ Ascending(old) /\ AllTold(log, pending, old)
        /\ \A j \in DOMAIN old : old[j].seq >= w.oldest
        /\ \A i \in LiveIn(log) : (w.oldest # 0 /\ i >= w.oldest) \/ ~w.hasMore =>
             Has(old, i) \/ Pends(pending, i, Adds)
    BY <1>4, <1>6, <1>7, <1>10 DEF WindowTells
  <2>2. AllTold(log, pending', s)
    BY <1>1, <1>2, <1>6, <1>10, <2>1 DEF AllTold
  <2>3. \A j \in DOMAIN s : s[j].seq >= v.oldest
    BY <1>2, <1>3, <2>1
  <2>4. ASSUME NEW i \in LiveIn(log), Has(old, i) PROVE Has(s, i)
    <3>1. PICK j \in DOMAIN old : old[j].seq = i
      BY <2>4 DEF Has
    <3>2. i # e.seq
      BY <1>5, <2>4 DEF LiveIn
    <3>3. ~Meant(old[j], e)
      BY <1>6, <1>10, <3>1, <3>2
    <3> QED
      BY <1>2, <3>1, <3>3 DEF Has
  <2>5. \A i \in LiveIn(log) : (v.oldest # 0 /\ i >= v.oldest) \/ ~v.hasMore =>
          Has(s, i) \/ Pends(pending', i, Adds)
    BY <1>1, <1>3, <1>5, <2>1, <2>4
  <2> QED
    BY <1>2, <1>7, <2>1, <2>2, <2>3, <2>5 DEF WindowTells
<1>11. WindowIs(log, pending', v, disturbed')
  BY <1>3, <1>4, <1>7, <1>8, <1>9, <1>10 DEF WindowIs
<1> QED
  BY <1>1, <1>11 DEF WindowRight, v

LEMMA PatchKeepsWindow ==
  ASSUME OnceInv, QueueInv, WindowRight, NEW k \in DOMAIN pending, Deliver(k),
         pending[k].kind \in {"edited", "liked", "unliked"}, view = "this"
  PROVE  WindowRight'
<1> DEFINE e == pending[k]
           w == window
           v == window'
           old == window.messages
           s == window'.messages
<1>0. /\ Take(k) /\ log' = log /\ v = WithPatch(e) /\ pending \in Seq(Event)
      /\ w \in Window /\ e \in Event /\ disturbed' = (disturbed \/ Misapplied(e))
  <2>1. /\ Take(k) /\ log' = log /\ window' = Handled(e) /\ pending \in Seq(Event)
        /\ w \in Window /\ e \in Event /\ disturbed' = (disturbed \/ Misapplied(e))
    BY TypesAre DEF Deliver, OnceInv
  <2>2. Handled(e) = WithPatch(e)
    BY DEF Handled
  <2> QED
    BY <2>1, <2>2
<1>1. /\ \A i, K : Pends(pending, i, K) => Pends(pending', i, K) \/ (i = e.seq /\ e.kind \in K)
      /\ \A i, text, liked : i # e.seq /\ Told(log, pending, i, text, liked)
                             => Told(log', pending', i, text, liked)
  BY <1>0, TakeKnows
<1>2. /\ v \in Window /\ DOMAIN s = DOMAIN old /\ v = [w EXCEPT !.messages = s]
      /\ Len(s) = Len(old)
      /\ \A j \in DOMAIN old :
           /\ s[j].seq = old[j].seq
           /\ ~Meant(old[j], e) => s[j] = old[j]
           /\ Meant(old[j], e) =>
                /\ s[j].text = (IF e.kind = "edited" THEN e.text ELSE old[j].text)
                /\ s[j].liked = (IF e.kind = "edited" THEN old[j].liked ELSE e.kind = "liked")
  <2>1. LET t == WithPatch(e).messages
        IN  /\ WithPatch(e) \in Window /\ DOMAIN t = DOMAIN window.messages
            /\ Len(t) = Len(window.messages)
            /\ WithPatch(e) = [window EXCEPT !.messages = t]
            /\ \A j \in DOMAIN window.messages :
                 /\ t[j].seq = window.messages[j].seq
                 /\ ~Meant(window.messages[j], e) => t[j] = window.messages[j]
                 /\ Meant(window.messages[j], e) =>
                      /\ t[j].text = (IF e.kind = "edited" THEN e.text ELSE window.messages[j].text)
                      /\ t[j].liked = (IF e.kind = "edited" THEN window.messages[j].liked
                                                            ELSE e.kind = "liked")
    BY <1>0, WithPatchIs
  <2> QED
    BY <1>0, <2>1
<1>3. v.oldest = w.oldest /\ v.hasMore = w.hasMore /\ s \in Seq(Message) /\ old \in Seq(Message)
  <2>1. v.oldest = w.oldest /\ v.hasMore = w.hasMore
    BY <1>0, <1>2 DEF Window
  <2> QED
    BY <1>0, <1>2, <2>1, Fields
<1>4. /\ w.oldest \in 0..Len(log) /\ \A j \in DOMAIN old : old[j].seq \in DOMAIN log
      /\ w.oldest = 0 => old = <<>>
      /\ ~disturbed => WindowTells(log, pending, w)
  BY DEF WindowRight, WindowIs
<1>5. /\ e.kind \notin Adds /\ e.kind # "deleted" /\ e.kind # "new"
      /\ e.kind = "edited" => e.kind \notin Likes
      /\ e.kind # "edited" => e.kind \in Likes
  BY DEF Adds, Likes
<1>6. ~disturbed' => /\ ~disturbed /\ ~e.late
                     /\ \A j \in DOMAIN old : old[j].seq = e.seq <=> Meant(old[j], e)
  BY <1>0, <1>5 DEF Misapplied, Meant
<1>7. v.messages = s /\ w.messages = old
  OBVIOUS
<1>8. ASSUME NEW K, e.kind \in K PROVE LastOfKind(k, K) \/ Pends(pending', e.seq, K)
  <2> SUFFICES ASSUME NEW m \in DOMAIN pending, m > k, pending[m].seq = e.seq, pending[m].kind \in K
               PROVE  Pends(pending', e.seq, K)
    BY <1>8 DEF LastOfKind
  <2>1. m # k
    BY <1>0
  <2>2. PICK j \in DOMAIN pending' : Old(k, j) = m
    BY <1>0, <2>1, TakeIs
  <2>3. pending'[j].seq = pending[m].seq /\ pending'[j].kind = pending[m].kind
    BY <1>0, <2>2, TakeIs
  <2> QED
    BY <2>2, <2>3 DEF Pends
<1>9. ~e.late => /\ LastOfKind(k, {"edited"}) => log[e.seq].text = e.text
                 /\ LastOfKind(k, Likes) => log[e.seq].liked = (e.kind = "liked")
  BY DEF QueueInv, LastTells
<1> HIDE DEF e, w, v, old, s
<1>10. ASSUME ~disturbed' PROVE WindowTells(log, pending', v)
  <2>1. /\ Ascending(old) /\ AllTold(log, pending, old)
        /\ \A j \in DOMAIN old : old[j].seq >= w.oldest
        /\ \A i \in LiveIn(log) : (w.oldest # 0 /\ i >= w.oldest) \/ ~w.hasMore =>
             Has(old, i) \/ Pends(pending, i, Adds)
    BY <1>4, <1>6, <1>7, <1>10 DEF WindowTells
  <2>2. ASSUME NEW j \in DOMAIN s
        PROVE  Told(log, pending', s[j].seq, s[j].text, s[j].liked)
    <3>1. Told(log, pending, old[j].seq, old[j].text, old[j].liked) /\ j \in DOMAIN old
      BY <1>2, <2>1 DEF AllTold
    <3>2. CASE ~Meant(old[j], e)
      <4>1. old[j].seq # e.seq /\ s[j] = old[j]
        BY <1>2, <1>6, <1>10, <3>1, <3>2
      <4> QED
        BY <1>0, <1>1, <3>1, <4>1
    <3>3. CASE Meant(old[j], e)
      <4>1. /\ s[j].seq = e.seq /\ old[j].seq = e.seq
            /\ s[j].text = (IF e.kind = "edited" THEN e.text ELSE old[j].text)
            /\ s[j].liked = (IF e.kind = "edited" THEN old[j].liked ELSE e.kind = "liked")
        BY <1>2, <1>6, <1>10, <3>1, <3>3
      <4>2. log[e.seq].deleted => Pends(pending', e.seq, {"deleted"})
        BY <1>1, <1>5, <3>1, <4>1 DEF Told
      <4>3. s[j].text = log[e.seq].text \/ Pends(pending', e.seq, {"edited"})
        <5>1. CASE e.kind = "edited"
          <6>1. LastOfKind(k, {"edited"}) \/ Pends(pending', e.seq, {"edited"})
            BY <1>8, <5>1
          <6> QED
            BY <1>6, <1>9, <1>10, <4>1, <5>1, <6>1
        <5>2. CASE e.kind # "edited"
          BY <1>1, <3>1, <4>1, <5>2 DEF Told
        <5> QED
          BY <5>1, <5>2
      <4>4. s[j].liked = log[e.seq].liked \/ Pends(pending', e.seq, Likes)
        <5>1. CASE e.kind = "edited"
          BY <1>1, <1>5, <3>1, <4>1, <5>1 DEF Told
        <5>2. CASE e.kind # "edited"
          <6>1. LastOfKind(k, Likes) \/ Pends(pending', e.seq, Likes)
            BY <1>5, <1>8, <5>2
          <6>2. s[j].liked = (e.kind = "liked")
            BY <4>1, <5>2
          <6> QED
            BY <1>6, <1>9, <1>10, <6>1, <6>2
        <5> QED
          BY <5>1, <5>2
      <4> QED
        BY <4>1, <4>2, <4>3, <4>4 DEF Told
    <3> QED
      BY <3>2, <3>3
  <2>3. Ascending(s) /\ \A j \in DOMAIN s : s[j].seq >= v.oldest
    BY <1>2, <1>3, <2>1 DEF Ascending
  <2>4. \A i : Has(old, i) => Has(s, i)
    BY <1>2 DEF Has
  <2>5. \A i \in LiveIn(log) : (v.oldest # 0 /\ i >= v.oldest) \/ ~v.hasMore =>
          Has(s, i) \/ Pends(pending', i, Adds)
    BY <1>1, <1>3, <1>5, <2>1, <2>4
  <2>6. AllTold(log, pending', s)
    BY <2>2 DEF AllTold
  <2> QED
    BY <1>7, <2>3, <2>5, <2>6 DEF WindowTells
<1>11. w.oldest = 0 => s = <<>>
  <2> SUFFICES ASSUME w.oldest = 0 PROVE s = <<>>
    OBVIOUS
  <2>1. Len(s) = 0
    BY <1>2, <1>4, EmptyIs
  <2> QED
    BY <1>3, <2>1
<1>12. WindowIs(log, pending', v, disturbed')
  <2>1. \A j \in DOMAIN s : s[j].seq \in DOMAIN log
    BY <1>2, <1>4
  <2> QED
    BY <1>3, <1>4, <1>7, <1>10, <1>11, <2>1 DEF WindowIs
<1> QED
  BY <1>0, <1>12 DEF WindowRight, v

LEMMA EventKeepsWindow ==
  ASSUME OnceInv, QueueInv, WindowRight, NEW k \in DOMAIN pending, Deliver(k) \/ Miss(k)
  PROVE  WindowRight'
<1> DEFINE e == pending[k]
<1>1. Take(k) /\ log' = log /\ e.kind \in Kinds
  <2>1. e \in Event
    BY TypesAre DEF OnceInv
  <2> QED
    BY <2>1, Fields DEF Deliver, Miss
<1>2. CASE Miss(k)
  BY <1>1, <1>2, StaysRight DEF Miss
<1>3. ASSUME Deliver(k), Handled(e) = window,
             ~Misapplied(e) => \/ AddsRow(e) /\ Shows(e.seq)
                               \/ ~AddsRow(e) /\ ~Shows(e.seq)
      PROVE  WindowRight'
  BY <1>1, <1>3, StaysRight DEF Deliver
<1>4. CASE Deliver(k) /\ e.kind = "new"
  <2>1. CASE Shows(e.seq)
    <3>1. Handled(e) = window /\ AddsRow(e)
      BY <1>4, <2>1 DEF Handled, Appended, AddsRow
    <3> QED
      BY <1>3, <1>4, <2>1, <3>1
  <2>2. CASE ~Shows(e.seq)
    BY <1>4, <2>2, AppendKeepsWindow
  <2> QED
    BY <2>1, <2>2
<1>5. CASE Deliver(k) /\ e.kind # "new" /\ view # "this"
  <2>1. Handled(e) = window
    BY <1>5 DEF Handled
  <2>2. ~AddsRow(e)
    BY <1>5 DEF AddsRow, Deliver
  <2>3. ~Misapplied(e) => ~Shows(e.seq)
    BY <1>5 DEF Misapplied, Shows
  <2> QED
    BY <1>3, <1>5, <2>1, <2>2, <2>3
<1>6. CASE Deliver(k) /\ e.kind # "new" /\ view = "this"
  <2>1. e.kind = "deleted" \/ e.kind \in {"edited", "liked", "unliked"}
    BY <1>1, <1>6 DEF Kinds, Deliver
  <2> QED
    BY <1>6, <2>1, RemovalKeepsWindow, PatchKeepsWindow
<1> QED
  BY <1>2, <1>4, <1>5, <1>6

-----------------------------------------------------------------------------
(* Requests.                                                                 *)

LEMMA AskedIsRight ==
  ASSUME log \in Seq(Row), NEW r \in Fetch, r.page = <<>>, ~r.read, r.before \in 0..Len(log),
         r.kind \in {"first", "prefetch"} => r.before = 0
  PROVE  RequestRight(log, pending, r)
<1>1. DOMAIN r.page = {}
  BY EmptyIs
<1> QED
  BY <1>1 DEF RequestRight

LEMMA ReadIsRight ==
  ASSUME log \in Seq(Row), NEW r \in Fetch, IsPage(r.page, r.more, r.before),
         r.before \in 0..Len(log), r.kind # "none",
         r.kind \in {"first", "prefetch"} => r.before = 0, r.read
  PROVE  RequestRight(log, pending, r)
<1>1. /\ r.page \in Seq(Message) /\ (r.more => Len(r.page) > 0)
      /\ \A j \in DOMAIN r.page :
           /\ r.page[j].seq \in Live /\ (r.before = 0 \/ r.page[j].seq < r.before)
           /\ r.page[j].text = log[r.page[j].seq].text
           /\ r.page[j].liked = log[r.page[j].seq].liked
      /\ \A i \in Live : /\ r.before = 0 \/ i < r.before
                         /\ ~r.more \/ i >= r.page[1].seq
                         => \E j \in DOMAIN r.page : r.page[j].seq = i
  BY DEF IsPage
<1>2. \A i \in Live : i \in DOMAIN log /\ ~log[i].deleted /\ i \in Nat
  BY DEF Live
<1>3. Live = LiveIn(log)
  BY DEF Live, LiveIn
<1>4. r.before \in Nat
  OBVIOUS
<1>5. AllTold(log, pending, r.page)
  BY <1>1, <1>2 DEF AllTold, Told
<1>6. ASSUME NEW i \in LiveIn(log), ~r.more \/ i >= r.page[1].seq
      PROVE  Has(r.page, i) \/ (r.before # 0 /\ i >= r.before)
  <2>1. i \in Live /\ i \in Nat
    BY <1>2, <1>3
  <2>2. CASE r.before = 0 \/ i < r.before
    BY <1>1, <1>6, <2>1, <2>2 DEF Has
  <2>3. CASE ~(r.before = 0 \/ i < r.before)
    BY <1>4, <2>1, <2>3
  <2> QED
    BY <2>2, <2>3
<1>7. r.more => r.page # <<>>
  BY <1>1, EmptyIs
<1>8. PageTells(log, pending, r)
  BY <1>5, <1>6, <1>7 DEF PageTells
<1>9. \A j \in DOMAIN r.page : r.page[j].seq \in DOMAIN log
  BY <1>1, <1>2
<1> QED
  BY <1>1, <1>8, <1>9 DEF RequestRight

-----------------------------------------------------------------------------
(* A page takes the place of the window.                                     *)

LEMMA ReplacedIsRight ==
  ASSUME OnceInv, RequestsRight, NEW f \in Fetches, fetch[f].read,
         fetch[f].kind \in {"first", "prefetch"}, NEW more, NEW d, ~d => ~fetch[f].stale,
         ~more => ~fetch[f].more
  PROVE  LET page == fetch[f].page
         IN  WindowIs(log, pending, [messages |-> page, oldest |-> IF page = <<>> THEN 0 ELSE page[1].seq,
                                     hasMore |-> more, loading |-> FALSE], d)
<1> DEFINE r == fetch[f]
           page == r.page
           o == IF page = <<>> THEN 0 ELSE page[1].seq
           w == [messages |-> page, oldest |-> o, hasMore |-> more, loading |-> FALSE]
<1>1. /\ r.before = 0 /\ \A j \in DOMAIN page : page[j].seq \in DOMAIN log
      /\ ~r.stale => PageTells(log, pending, r)
  BY DEF RequestsRight, RequestRight
<1>2. page \in Seq(Message) /\ Ascending(page) /\ DOMAIN log = 1..Len(log) /\ Len(log) \in Nat
  <2>1. log \in Seq(Row) /\ page \in Seq(Message)
    BY TypesAre DEF OnceInv
  <2> QED
    BY <2>1 DEF OnceInv, PagesAscend
<1>3. w.messages = page /\ w.oldest = o /\ w.hasMore = more
  OBVIOUS
<1> HIDE DEF w, page
<1>4. page # <<>> => 1 \in DOMAIN page
  BY <1>2
<1>5. o \in 0..Len(log) /\ (o = 0 => page = <<>>)
  BY <1>1, <1>2, <1>4
<1>6. \A j \in DOMAIN page : page[j].seq >= o
  <2> SUFFICES ASSUME NEW j \in DOMAIN page PROVE page[j].seq >= o
    OBVIOUS
  <2>1. page # <<>> /\ o = page[1].seq /\ 1 \in DOMAIN page
    BY <1>4, EmptyIs
  <2>2. j \in Nat /\ (j = 1 \/ 1 < j)
    BY <1>2
  <2>3. 1 < j => page[1].seq <= page[j].seq
    BY <1>2, <2>1 DEF Ascending
  <2>4. page[j].seq \in Nat /\ page[1].seq \in Nat
    BY <1>1, <1>2, <2>1
  <2> QED
    BY <2>1, <2>2, <2>3, <2>4
<1>7. ASSUME ~d PROVE WindowTells(log, pending, w)
  <2>1. /\ AllTold(log, pending, page) /\ (r.more => page # <<>>)
        /\ \A i \in LiveIn(log) : ~r.more \/ i >= page[1].seq =>
             Has(page, i) \/ (r.before = 0 /\ Pends(pending, i, Adds))
    BY <1>1, <1>7 DEF PageTells, page
  <2>2. ASSUME NEW i \in LiveIn(log), (o # 0 /\ i >= o) \/ ~more
        PROVE  Has(page, i) \/ Pends(pending, i, Adds)
    <3>1. ~r.more \/ i >= page[1].seq
      BY <2>2
    <3> QED
      BY <2>1, <3>1
  <2> HIDE DEF o
  <2> QED
    BY <1>2, <1>3, <1>6, <2>1, <2>2 DEF WindowTells
<1>8. WindowIs(log, pending, w, d)
  <2> HIDE DEF o
  <2> QED
    BY <1>1, <1>3, <1>5, <1>7 DEF WindowIs
<1> QED
  BY <1>8 DEF w, page

LEMMA OlderKeepsWindow ==
  ASSUME OnceInv, RequestsRight, WindowRight, NEW f \in Fetches, ApplyOlder(f)
  PROVE  WindowRight'
<1> DEFINE r == fetch[f]
           page == r.page
           w == window
           old == window.messages
           a == FreshOf(page)
           m == Merged(page)
           kept == FirstOf(m, Cap)
           v == window'
<1>1. /\ page \in Seq(Message) /\ old \in Seq(Message) /\ w \in Window /\ Cap \in Nat
      /\ Ascending(page) /\ log \in Seq(Row)
  BY TypesAre DEF OnceInv, PagesAscend
<1>2. /\ v.messages = kept /\ v.oldest = (IF kept = <<>> THEN w.oldest ELSE kept[1].seq)
      /\ v.hasMore = r.more
      /\ ~disturbed' => /\ ~disturbed /\ ~r.stale /\ Len(m) <= Cap /\ w.oldest = r.before
  BY OlderIs
<1>3. /\ UNCHANGED <<log, pending>> /\ r.read
  BY DEF ApplyOlder, Answered
<1>4. /\ a \in Seq(Message) /\ Ascending(a)
      /\ \A n \in DOMAIN a : \E j \in DOMAIN page : a[n] = page[j]
      /\ \A j \in DOMAIN page : ~Shows(page[j].seq) => \E n \in DOMAIN a : a[n] = page[j]
  BY <1>1, FreshOfIs, FreshAscends
<1>5. /\ m \in Seq(Message) /\ Len(m) = Len(a) + Len(old)
      /\ \A n \in DOMAIN m :
           \/ n \in DOMAIN a /\ m[n] = a[n]
           \/ n - Len(a) \in DOMAIN old /\ m[n] = old[n - Len(a)] /\ n > Len(a)
      /\ \A n \in DOMAIN a : n \in DOMAIN m /\ m[n] = a[n]
      /\ \A n \in DOMAIN old : n + Len(a) \in DOMAIN m /\ m[n + Len(a)] = old[n]
  BY <1>1, MergedIs
<1>6. /\ kept \in Seq(Message) /\ \A j \in DOMAIN kept : j \in DOMAIN m /\ kept[j] = m[j]
      /\ Len(m) <= Cap => kept = m
  BY <1>1, <1>5, FirstOfIs
<1>7. /\ w.oldest \in 0..Len(log) /\ \A j \in DOMAIN old : old[j].seq \in DOMAIN log
      /\ w.oldest = 0 => old = <<>>
      /\ ~disturbed => WindowTells(log, pending, w)
  BY DEF WindowRight, WindowIs
<1>8. /\ r.before \in 0..Len(log) /\ \A j \in DOMAIN page : page[j].seq \in DOMAIN log
      /\ r.before # 0 => \A j \in DOMAIN page : page[j].seq < r.before
      /\ ~r.stale => PageTells(log, pending, r)
  BY <1>3 DEF RequestsRight, RequestRight
<1>9. DOMAIN log = 1..Len(log) /\ Len(log) \in Nat
  BY <1>1
<1>10. \A n \in DOMAIN old : Shows(old[n].seq)
  BY DEF Shows
<1>100. w.messages = old /\ r.page = page
  OBVIOUS
<1>101. \A i : Shows(i) => Has(old, i)
  BY DEF Shows, Has
<1> HIDE DEF r, page, w, old, a, m, kept, v
<1>11. \A j \in DOMAIN m : m[j].seq \in DOMAIN log
  BY <1>4, <1>5, <1>7, <1>8
<1>12. \A j \in DOMAIN kept : kept[j].seq \in DOMAIN log
  BY <1>6, <1>11
<1>13. v.oldest \in 0..Len(log) /\ (v.oldest = 0 => kept = <<>>)
  <2>1. kept # <<>> => 1 \in DOMAIN kept
    BY <1>6
  <2> QED
    BY <1>2, <1>7, <1>9, <1>12, <2>1
<1>14. ASSUME ~disturbed' PROVE WindowTells(log, pending, v)
  <2>1. /\ WindowTells(log, pending, w) /\ PageTells(log, pending, r)
        /\ kept = m /\ w.oldest = r.before
    BY <1>2, <1>6, <1>7, <1>8, <1>14
  <2>2. /\ Ascending(old) /\ AllTold(log, pending, old)
        /\ \A j \in DOMAIN old : old[j].seq >= w.oldest
        /\ \A i \in LiveIn(log) : (w.oldest # 0 /\ i >= w.oldest) \/ ~w.hasMore =>
             Has(old, i) \/ Pends(pending, i, Adds)
    BY <1>100, <2>1 DEF WindowTells
  <2>3. /\ AllTold(log, pending, page) /\ (r.more => page # <<>>)
        /\ \A i \in LiveIn(log) : ~r.more \/ i >= page[1].seq =>
             Has(page, i) \/ (r.before # 0 /\ i >= r.before) \/ (r.before = 0 /\ Pends(pending, i, Adds))
    BY <1>100, <2>1 DEF PageTells
  <2>4. AllTold(log, pending, m)
    <3>1. AllTold(log, pending, a)
      BY <1>4, <2>3 DEF AllTold
    <3> QED
      BY <1>5, <2>2, <3>1 DEF AllTold
  <2>5. \A i \in DOMAIN a, j \in DOMAIN old : a[i].seq < old[j].seq
    <3> SUFFICES ASSUME NEW i \in DOMAIN a, NEW j \in DOMAIN old PROVE a[i].seq < old[j].seq
      OBVIOUS
    <3>1. r.before # 0
      <4>1. w.oldest = 0 => DOMAIN old = {}
        BY <1>7, EmptyIs
      <4> QED
        BY <2>1, <4>1
    <3>2. PICK n \in DOMAIN page : a[i] = page[n]
      BY <1>4
    <3>3. a[i].seq < r.before /\ old[j].seq >= r.before
      BY <1>8, <2>1, <2>2, <3>1, <3>2
    <3>4. a[i].seq \in Nat /\ old[j].seq \in Nat /\ r.before \in Nat
      BY <1>7, <1>8, <1>9, <3>2
    <3> QED
      BY <3>3, <3>4
  <2>6. Ascending(m)
    <3> SUFFICES ASSUME NEW i \in DOMAIN m, NEW j \in DOMAIN m, i < j PROVE m[i].seq <= m[j].seq
      BY DEF Ascending
    <3>1. i \in Nat /\ j \in Nat /\ Len(a) \in Nat /\ DOMAIN a = 1..Len(a)
      BY <1>4, <1>5
    <3>2. CASE i \in DOMAIN a /\ m[i] = a[i]
      <4>1. CASE j \in DOMAIN a /\ m[j] = a[j]
        BY <1>4, <3>2, <4>1 DEF Ascending
      <4>2. CASE j - Len(a) \in DOMAIN old /\ m[j] = old[j - Len(a)]
        <5>1. m[i].seq < m[j].seq
          BY <2>5, <3>2, <4>2
        <5>2. m[i].seq \in Nat /\ m[j].seq \in Nat
          BY <1>9, <1>11
        <5> QED
          BY <5>1, <5>2
      <4> QED
        BY <1>5, <4>1, <4>2
    <3>3. CASE i - Len(a) \in DOMAIN old /\ m[i] = old[i - Len(a)] /\ i > Len(a)
      <4>1. j > Len(a) /\ j \notin DOMAIN a /\ i - Len(a) < j - Len(a)
        BY <3>1, <3>3
      <4>2. j - Len(a) \in DOMAIN old /\ m[j] = old[j - Len(a)]
        BY <1>5, <4>1
      <4> QED
        BY <2>2, <3>3, <4>1, <4>2 DEF Ascending
    <3> QED
      BY <1>5, <3>2, <3>3
  <2>7. \A i : Has(old, i) => Has(m, i)
    BY <1>5 DEF Has
  <2>8. \A i : Has(page, i) => Has(m, i)
    <3> SUFFICES ASSUME NEW i, Has(page, i) PROVE Has(m, i)
      OBVIOUS
    <3>1. PICK j \in DOMAIN page : page[j].seq = i
      BY DEF Has
    <3>2. CASE Shows(i)
      BY <1>101, <2>7, <3>2
    <3>3. CASE ~Shows(i)
      <4>1. PICK n \in DOMAIN a : a[n] = page[j]
        BY <1>4, <3>1, <3>3
      <4> QED
        BY <1>5, <3>1, <4>1 DEF Has
    <3> QED
      BY <3>2, <3>3
  <2>9. \A j \in DOMAIN m : m[j].seq >= v.oldest
    <3> SUFFICES ASSUME NEW j \in DOMAIN m PROVE m[j].seq >= v.oldest
      OBVIOUS
    <3>1. m # <<>> /\ 1 \in DOMAIN m /\ (j = 1 \/ 1 < j)
      BY <1>5, EmptyIs
    <3>2. v.oldest = m[1].seq
      BY <1>2, <2>1, <3>1
    <3>3. m[j].seq \in Nat /\ m[1].seq \in Nat
      BY <1>9, <1>11, <3>1
    <3>4. 1 < j => m[1].seq <= m[j].seq
      BY <2>6, <3>1 DEF Ascending
    <3> QED
      BY <3>1, <3>2, <3>3, <3>4
  <2>10. ASSUME NEW i \in LiveIn(log), (v.oldest # 0 /\ i >= v.oldest) \/ ~v.hasMore
         PROVE  Has(m, i) \/ Pends(pending, i, Adds)
    <3>0. i \in Nat /\ r.before \in Nat
      BY <1>8, <1>9 DEF LiveIn
    <3>1. CASE r.before # 0 /\ i >= r.before
      BY <2>1, <2>2, <2>7, <3>1
    <3>2. CASE ~(r.before # 0 /\ i >= r.before)
      <4>1. ~r.more \/ i >= page[1].seq
        <5> SUFFICES ASSUME r.more PROVE i >= page[1].seq
          OBVIOUS
        <5>1. page # <<>> /\ 1 \in DOMAIN page /\ i >= v.oldest
          BY <1>1, <1>2, <2>3, <2>10
        <5>2. Has(m, page[1].seq)
          BY <2>8, <5>1 DEF Has
        <5>3. PICK n \in DOMAIN m : m[n].seq = page[1].seq
          BY <5>2 DEF Has
        <5>4. m # <<>> /\ 1 \in DOMAIN m
          BY <1>5, <5>3, EmptyIs
        <5>5. v.oldest = m[1].seq
          BY <1>2, <2>1, <5>4
        <5>6. m[1].seq >= page[1].seq
          <6>1. CASE 1 \in DOMAIN a /\ m[1] = a[1]
            <7>1. PICK j \in DOMAIN page : a[1] = page[j]
              BY <1>4, <6>1
            <7>2. j \in Nat /\ (j = 1 \/ 1 < j)
              BY <1>1, <7>1
            <7>3. 1 < j => page[1].seq <= page[j].seq
              BY <1>1, <5>1, <7>1 DEF Ascending
            <7>4. page[1].seq \in Nat /\ page[j].seq \in Nat
              BY <1>8, <1>9, <5>1, <7>1
            <7> QED
              BY <6>1, <7>1, <7>2, <7>3, <7>4
          <6>2. CASE 1 - Len(a) \in DOMAIN old /\ m[1] = old[1 - Len(a)]
            <7>1. old[1 - Len(a)].seq >= r.before
              BY <2>1, <2>2, <6>2
            <7>2. r.before # 0
              <8>1. w.oldest = 0 => DOMAIN old = {}
                BY <1>7, EmptyIs
              <8> QED
                BY <2>1, <6>2, <8>1
            <7>3. page[1].seq < r.before
              BY <1>8, <5>1, <7>2
            <7>4. page[1].seq \in Nat /\ m[1].seq \in Nat
              BY <1>8, <1>9, <1>11, <5>1, <5>4
            <7> QED
              BY <3>0, <6>2, <7>1, <7>3, <7>4
          <6> QED
            BY <1>5, <5>4, <6>1, <6>2
        <5>7. m[1].seq \in Nat /\ page[1].seq \in Nat
          BY <1>8, <1>9, <1>11, <5>1, <5>4
        <5> QED
          BY <3>0, <5>1, <5>5, <5>6, <5>7
      <4> QED
        BY <2>3, <2>8, <3>2, <4>1
    <3> QED
      BY <3>1, <3>2
  <2>11. v.messages = m
    BY <1>2, <2>1
  <2> QED
    BY <2>4, <2>6, <2>9, <2>10, <2>11 DEF WindowTells
<1>15. WindowIs(log, pending, v, disturbed')
  BY <1>2, <1>12, <1>13, <1>14 DEF WindowIs
<1> QED
  BY <1>3, <1>15 DEF WindowRight, v

(* A right window with nothing left to announce holds the live rows.         *)
LEMMA WindowIsFaithful == FaithInv => Faithful
<1> DEFINE shown == window.messages
           seqs == {shown[j].seq : j \in DOMAIN shown}
<1> SUFFICES ASSUME FaithInv, pending = <<>>, ~disturbed
             PROVE  /\ shown # <<>> => seqs = {i \in Live : i >= shown[1].seq}
                    /\ \A j \in DOMAIN shown :
                         /\ \A k \in DOMAIN shown : j < k => shown[j].seq <= shown[k].seq
                         /\ shown[j].text = log[shown[j].seq].text
                         /\ shown[j].liked = log[shown[j].seq].liked
                    /\ ~window.hasMore => seqs = Live
  BY DEF Faithful
<1>1. /\ log \in Seq(Row) /\ shown \in Seq(Message)
      /\ DOMAIN log = 1..Len(log) /\ Len(log) \in Nat
  <2>1. log \in Seq(Row) /\ shown \in Seq(Message)
    BY TypesAre DEF FaithInv, OnceInv
  <2> QED
    BY <2>1
<1>2. \A i, L : ~Pends(pending, i, L)
  BY EmptyIs DEF Pends
<1>3. /\ \A j \in DOMAIN shown : shown[j].seq \in DOMAIN log
      /\ window.oldest = 0 => shown = <<>>
      /\ window.oldest \in Nat
      /\ WindowTells(log, pending, window)
  BY <1>1 DEF FaithInv, WindowRight, WindowIs
<1>4. /\ Ascending(shown)
      /\ \A j \in DOMAIN shown : Told(log, pending, shown[j].seq, shown[j].text, shown[j].liked)
      /\ \A j \in DOMAIN shown : shown[j].seq >= window.oldest
      /\ \A i \in LiveIn(log) : (window.oldest # 0 /\ i >= window.oldest) \/ ~window.hasMore => Has(shown, i)
  BY <1>2, <1>3 DEF WindowTells, AllTold
<1>5. \A j \in DOMAIN shown : /\ shown[j].text = log[shown[j].seq].text
                              /\ shown[j].liked = log[shown[j].seq].liked
                              /\ ~log[shown[j].seq].deleted
  BY <1>2, <1>4 DEF Told
<1>6. LiveIn(log) = Live /\ \A i \in Live : i \in Nat
  BY <1>1 DEF Live, LiveIn
<1> HIDE DEF shown
<1>7. \A j \in DOMAIN shown : shown[j].seq \in Live /\ shown[j].seq \in Nat
  BY <1>1, <1>3, <1>5 DEF Live
<1>8. \A i : Has(shown, i) => i \in seqs
  BY DEF Has
<1>9. ASSUME shown # <<>> PROVE seqs = {i \in Live : i >= shown[1].seq}
  <2>1. 1 \in DOMAIN shown /\ shown[1].seq \in Nat /\ shown[1].seq >= window.oldest /\ window.oldest # 0
    BY <1>1, <1>3, <1>4, <1>7, <1>9
  <2>2. ASSUME NEW j \in DOMAIN shown PROVE shown[j].seq >= shown[1].seq
    <3>1. j \in Nat /\ (j = 1 \/ 1 < j)
      BY <1>1
    <3>2. 1 < j => shown[1].seq <= shown[j].seq
      BY <1>4, <2>1 DEF Ascending
    <3>3. shown[j].seq \in Nat
      BY <1>7
    <3> QED
      BY <2>1, <3>1, <3>2, <3>3
  <2>3. ASSUME NEW i \in Live, i >= shown[1].seq PROVE i \in seqs
    <3>1. i \in Nat /\ i >= window.oldest
      BY <1>3, <1>6, <2>1, <2>3
    <3> QED
      BY <1>4, <1>6, <1>8, <2>1, <3>1
  <2> QED
    BY <1>7, <2>2, <2>3
<1>10. ASSUME ~window.hasMore PROVE seqs = Live
  <2>1. \A i \in Live : i \in seqs
    BY <1>4, <1>6, <1>8, <1>10
  <2> QED
    BY <1>7, <2>1
<1>11. \A j, k \in DOMAIN shown : j < k => shown[j].seq <= shown[k].seq
  BY <1>4 DEF Ascending
<1> HIDE DEF seqs
<1> QED
  BY <1>5, <1>9, <1>10, <1>11

LEMMA FaithInit == Init => FaithInv
<1> SUFFICES ASSUME Init PROVE FaithInv
  OBVIOUS
<1>1. OnceInv
  BY OnceInit
<1>2. pending = <<>> /\ DOMAIN pending = {}
  BY EmptyIs DEF Init
<1>3. QueueInv
  BY <1>2 DEF QueueInv, QueueRows, AddsFirst, LastTells, DeletedIs, AddTells
<1>4. log \in Seq(Row) /\ Len(log) \in Nat /\ 0 \in 0..Len(log)
  <2>1. log \in Seq(Row)
    BY <1>1, TypesAre DEF OnceInv
  <2> QED
    BY <2>1
<1>5. RequestsRight
  <2>1. \A f \in Fetches : fetch[f] = Idle
    BY DEF Init
  <2> QED
    BY <1>4, <2>1, IdleIs, AskedIsRight DEF RequestsRight
<1>6. WindowRight
  <2>1. window.oldest = 0 /\ window.hasMore = TRUE /\ window.messages = <<>>
    BY DEF Init, EmptyWindow
  <2>2. DOMAIN window.messages = {} /\ Ascending(window.messages)
    BY <2>1, EmptyIs
  <2>3. WindowTells(log, pending, window)
    BY <2>1, <2>2 DEF WindowTells, AllTold
  <2> QED
    BY <1>4, <2>1, <2>2, <2>3 DEF WindowRight, WindowIs
<1> QED
  BY <1>1, <1>3, <1>5, <1>6 DEF FaithInv

LEMMA FaithStep == FaithInv /\ [Next]_vars => FaithInv'
<1> SUFFICES ASSUME FaithInv, [Next]_vars PROVE FaithInv'
  OBVIOUS
<1>0. /\ OnceInv /\ TypeInv /\ TypeOK /\ QueueInv /\ RequestsRight /\ WindowRight
      /\ log \in Seq(Row) /\ pending \in Seq(Event) /\ fetch \in [Fetches -> Fetch]
      /\ \A f \in Fetches : fetch[f] \in Fetch /\ RequestRight(log, pending, fetch[f])
      /\ 0 \in 0..Len(log)
  <2>1. /\ log \in Seq(Row) /\ pending \in Seq(Event) /\ fetch \in [Fetches -> Fetch]
        /\ \A f \in Fetches : fetch[f] \in Fetch
    BY TypesAre DEF FaithInv, OnceInv
  <2> QED
    BY <2>1 DEF FaithInv, OnceInv, TypeInv, RequestsRight
<1>1. OnceInv'
  BY <1>0, OnceStep
<1>2. QueueInv' /\ RequestsRight' /\ WindowRight' => FaithInv'
  BY <1>1 DEF FaithInv
(* What is kept by a step that the server takes no part in.                  *)
<1>3. UNCHANGED serverVars => QueueInv'
  <2> SUFFICES ASSUME UNCHANGED serverVars PROVE QueueInv'
    OBVIOUS
  <2>1. QueueInv
    BY <1>0
  <2>2. QueueRows' /\ AddsFirst' /\ DeletedIs'
    BY <2>1 DEF QueueInv, QueueRows, AddsFirst, DeletedIs, AddsRow
  <2>3. LastTells'
    BY <2>1 DEF QueueInv, LastTells, LastOfKind, Likes
  <2>4. AddTells'
    BY <2>1 DEF QueueInv, AddTells, AddsRow, Adds, Likes, Told, Pends
  <2> QED
    BY <2>2, <2>3, <2>4 DEF QueueInv
<1>4. UNCHANGED serverVars /\ fetch' = fetch => RequestsRight'
  BY <1>0 DEF RequestsRight
<1>5. UNCHANGED serverVars /\ window' = window /\ disturbed' = disturbed => WindowRight'
  BY <1>0 DEF WindowRight
<1>6. ASSUME UNCHANGED serverVars, NEW f \in Fetches, NEW r \in Fetch, RequestRight(log, pending, r),
             fetch' = [fetch EXCEPT ![f] = r]
      PROVE  RequestsRight'
  <2>1. fetch'[f] = r /\ \A g \in Fetches : g # f => fetch'[g] = fetch[g]
    BY <1>0, <1>6, RequestSet
  <2>2. \A g \in Fetches : RequestRight(log, pending, fetch'[g])
    BY <1>0, <1>6, <2>1
  <2> QED
    BY <1>6, <2>2 DEF RequestsRight
<1>7. ASSUME NEW b \in BOOLEAN, UNCHANGED serverVars, disturbed' = disturbed,
             window' = [window EXCEPT !.loading = b]
      PROVE  WindowRight'
  <2>1. /\ window'.messages = window.messages /\ window'.oldest = window.oldest
        /\ window'.hasMore = window.hasMore
    <3>1. window \in Window
      BY <1>0, TypesAre
    <3> QED
      BY <1>7, <3>1 DEF Window
  <2> QED
    BY <1>0, <1>7, <2>1 DEF WindowRight, WindowIs, WindowTells
<1>8. ASSUME UNCHANGED serverVars, NEW f \in Fetches, fetch' = [fetch EXCEPT ![f] = Idle]
      PROVE  RequestsRight'
  BY <1>0, <1>6, <1>8, IdleIs, AskedIsRight
<1>9. ASSUME UNCHANGED serverVars, NEW f \in Fetches, NEW kind \in {"first", "older", "prefetch"},
             NEW before \in 0..Len(log), Ask(f, kind, before),
             kind \in {"first", "prefetch"} => before = 0
      PROVE  RequestsRight'
  <2>1. before \in Nat
    BY <1>0
  <2>2. PICK r \in Fetch : /\ fetch' = [fetch EXCEPT ![f] = r]
                           /\ r.kind = kind /\ ~r.read /\ r.before = before
                           /\ r.page = <<>> /\ ~r.stale
    BY <1>0, <1>9, <2>1, RequestSteps
  <2>3. RequestRight(log, pending, r)
    BY <1>0, <1>9, <2>2, AskedIsRight
  <2> QED
    BY <1>6, <1>9, <2>2, <2>3
<1>10. CASE ServerStep
  <2>1. PICK e \in Event : Changes(e) /\ pending' = Append(pending, e)
    BY <1>0, <1>10, ServerIs
  <2>2. UNCHANGED clientVars
    BY <1>0, <1>10, ServerIs
  <2>3. QueueInv'
    BY <1>0, <2>1, ServerQueue
  <2>4. \A f \in Fetches : RequestRight(log', pending', fetch[f])
    BY <1>0, <2>1, ServerKeepsRequest
  <2>5. WindowIs(log', pending', window, disturbed)
    BY <1>0, <2>1, ServerKeepsWindow DEF WindowRight
  <2>6. RequestsRight' /\ WindowRight'
    BY <2>2, <2>4, <2>5 DEF RequestsRight, WindowRight
  <2> QED
    BY <1>2, <2>3, <2>6
<1>11. ASSUME NEW k \in DOMAIN pending, Deliver(k) \/ Miss(k) PROVE FaithInv'
  <2>1. Take(k) /\ MarkStale(pending[k]) /\ log' = log
    BY <1>11 DEF Deliver, Miss
  <2>2. QueueInv'
    BY <1>0, <2>1, TakeQueue
  <2>3. \A f \in Fetches : RequestRight(log', pending', fetch'[f])
    BY <1>0, <2>1, TakeKeepsRequest
  <2>4. WindowRight'
    BY <1>0, <1>11, EventKeepsWindow
  <2>5. RequestsRight'
    BY <2>3 DEF RequestsRight
  <2> QED
    BY <1>2, <2>2, <2>4, <2>5
<1>12. CASE Open
  <2>1. UNCHANGED serverVars /\ disturbed' = disturbed
    BY <1>12 DEF Open
  <2>2. RequestsRight' /\ WindowRight'
    <3>1. CASE UNCHANGED <<window, fetch>>
      BY <1>4, <1>5, <2>1, <3>1
    <3>2. CASE /\ \E f \in Fetches : Ask(f, "first", 0)
               /\ window' = [window EXCEPT !.loading = TRUE]
      <4>1. WindowRight'
        BY <1>7, <2>1, <3>2
      <4>2. RequestsRight'
        BY <1>0, <1>9, <2>1, <3>2
      <4> QED
        BY <4>1, <4>2
    <3> QED
      BY <1>12, <3>1, <3>2 DEF Open
  <2> QED
    BY <1>2, <1>3, <2>1, <2>2
<1>13. ASSUME NEW v, Leave(v) PROVE FaithInv'
  <2>1. UNCHANGED serverVars /\ UNCHANGED <<window, fetch, disturbed>>
    BY <1>13 DEF Leave
  <2> QED
    BY <1>2, <1>3, <1>4, <1>5, <2>1
<1>14. ASSUME NEW f \in Fetches, LoadOlder(f) PROVE FaithInv'
  <2>1. /\ UNCHANGED serverVars /\ disturbed' = disturbed
        /\ Ask(f, "older", window.oldest) /\ window' = [window EXCEPT !.loading = TRUE]
    BY <1>14 DEF LoadOlder
  <2>2. window.oldest \in 0..Len(log)
    BY <1>0 DEF WindowRight, WindowIs
  <2>3. RequestsRight'
    BY <1>9, <2>1, <2>2
  <2>4. WindowRight'
    BY <1>7, <2>1
  <2> QED
    BY <1>2, <1>3, <2>1, <2>3, <2>4
<1>15. ASSUME NEW f \in Fetches, Prefetch(f) PROVE FaithInv'
  <2>1. UNCHANGED serverVars /\ UNCHANGED <<window, disturbed>> /\ Ask(f, "prefetch", 0)
    BY <1>15 DEF Prefetch
  <2>2. RequestsRight'
    BY <1>0, <1>9, <2>1
  <2> QED
    BY <1>2, <1>3, <1>5, <2>1, <2>2
<1>16. ASSUME NEW f \in Fetches, ReadPage(f) PROVE FaithInv'
  <2>1. UNCHANGED serverVars /\ UNCHANGED <<window, disturbed>> /\ fetch[f].kind # "none"
    BY <1>16 DEF ReadPage
  <2>2. PICK r \in Fetch : /\ fetch' = [fetch EXCEPT ![f] = r]
                           /\ r.kind = fetch[f].kind /\ r.before = fetch[f].before /\ r.read
                           /\ IsPage(r.page, r.more, r.before)
    BY <1>0, <1>16, RequestSteps
  <2>3. /\ fetch[f].before \in 0..Len(log)
        /\ fetch[f].kind \in {"first", "prefetch"} => fetch[f].before = 0
    BY <1>0 DEF RequestRight
  <2>4. RequestRight(log, pending, r)
    BY <1>0, <2>1, <2>2, <2>3, ReadIsRight
  <2>5. RequestsRight'
    BY <1>6, <2>1, <2>2, <2>4
  <2> QED
    BY <1>2, <1>3, <1>5, <2>1, <2>5
<1>17. ASSUME NEW f \in Fetches, FetchFails(f) PROVE FaithInv'
  <2>1. /\ UNCHANGED serverVars /\ disturbed' = disturbed /\ fetch' = [fetch EXCEPT ![f] = Idle]
        /\ window' = window \/ window' = [window EXCEPT !.loading = FALSE]
    BY <1>17 DEF FetchFails
  <2>2. WindowRight'
    BY <1>5, <1>7, <2>1
  <2> QED
    BY <1>2, <1>3, <1>8, <2>1, <2>2
<1>18. ASSUME NEW f \in Fetches, ApplyFirst(f) PROVE FaithInv'
  <2>1. /\ UNCHANGED serverVars /\ fetch' = [fetch EXCEPT ![f] = Idle]
        /\ fetch[f].read /\ fetch[f].kind = "first"
    BY <1>18 DEF ApplyFirst, Answered
  <2>2. /\ disturbed' = fetch[f].stale
        /\ LET page == fetch[f].page
           IN  window' = [messages |-> page, oldest |-> IF page = <<>> THEN 0 ELSE page[1].seq,
                          hasMore |-> fetch[f].more, loading |-> FALSE]
    BY <1>18 DEF ApplyFirst
  <2>3. WindowIs(log, pending, window', disturbed')
    BY <1>0, <2>1, <2>2, ReplacedIsRight
  <2>4. WindowRight'
    BY <2>1, <2>3 DEF WindowRight
  <2> QED
    BY <1>2, <1>3, <1>8, <2>1, <2>4
<1>19. ASSUME NEW f \in Fetches, ApplyOlder(f) PROVE FaithInv'
  <2>1. UNCHANGED serverVars /\ fetch' = [fetch EXCEPT ![f] = Idle]
    BY <1>19 DEF ApplyOlder, Answered
  <2>2. WindowRight'
    BY <1>0, <1>19, OlderKeepsWindow
  <2> QED
    BY <1>2, <1>3, <1>8, <2>1, <2>2
<1>20. ASSUME NEW f \in Fetches, ApplyPrefetch(f) PROVE FaithInv'
  <2>1. /\ UNCHANGED serverVars /\ fetch' = [fetch EXCEPT ![f] = Idle]
        /\ fetch[f].read /\ fetch[f].kind = "prefetch"
    BY <1>20 DEF ApplyPrefetch, Answered
  <2>2. WindowRight'
    <3>1. CASE UNCHANGED <<window, prefetched, disturbed, repeated>>
      BY <1>5, <2>1, <3>1
    <3>2. CASE ~UNCHANGED <<window, prefetched, disturbed, repeated>>
      <4>1. /\ disturbed' = fetch[f].stale
            /\ LET page == fetch[f].page
               IN  window' = [messages |-> page, oldest |-> IF page = <<>> THEN 0 ELSE page[1].seq,
                              hasMore |-> TRUE, loading |-> FALSE]
        BY <1>20, <3>2 DEF ApplyPrefetch
      <4>2. WindowIs(log, pending, window', disturbed')
        BY <1>0, <2>1, <4>1, ReplacedIsRight
      <4> QED
        BY <2>1, <4>2 DEF WindowRight
    <3> QED
      BY <3>1, <3>2
  <2> QED
    BY <1>2, <1>3, <1>8, <2>1, <2>2
<1>21. CASE UNCHANGED vars
  <2>1. UNCHANGED serverVars /\ UNCHANGED <<window, fetch, disturbed>>
    BY <1>21 DEF vars
  <2> QED
    BY <1>2, <1>3, <1>4, <1>5, <2>1
<1> QED
  BY <1>10, <1>11, <1>12, <1>13, <1>14, <1>15, <1>16, <1>17, <1>18, <1>19, <1>20, <1>21
     DEF Next, EventStep, FetchStep

THEOREM FaithfulAlways == Spec => []Faithful
  BY FaithInit, FaithStep, WindowIsFaithful, PTL DEF Spec
===============================================================================
