--------------------------- MODULE ChannelMessages ---------------------------
(***************************************************************************)
(* One channel: its rows on the server (server/src/chat/messages.rs,       *)
(* reactions.rs, p2p/messages.rs) and the window of them that one client    *)
(* keeps (client/.../stores/messages.ts, hooks/useMessages.ts).             *)
(*                                                                         *)
(* A handler changes the rows under the database mutex and broadcasts the   *)
(* event after releasing it, so two handlers may broadcast in either order. *)
(* The client's mailbox is a queue: the time an event spends in it is part  *)
(* of the time before its broadcast, and Deliver is both.  The client       *)
(* patches its window with the events and fills it with pages that were     *)
(* read at another time than they are applied.                             *)
(***************************************************************************)
EXTENDS Naturals, Sequences, FiniteSets

CONSTANTS Fetches,       \* bound: history requests in flight at a time
          Stored,        \* rows that exist before the client starts
          MaxWrites,     \* bound: changes the server makes after that
          PageSize,      \* DEFAULT_PAGE_SIZE
          PrefetchSize,  \* PREFETCH_LIMIT
          Cap            \* MAX_MESSAGES_PER_CHANNEL

ASSUME StoredAssumption == Stored \in Nat
ASSUME BoundAssumption  == MaxWrites \in Nat
ASSUME PageAssumption   == PageSize \in Nat \ {0} /\ PrefetchSize \in Nat \ {0}
ASSUME CapAssumption    == Cap \in Nat /\ Cap >= PageSize /\ Cap >= PrefetchSize

VARIABLES
  log,        \* table messages of the channel: server_sequence is the index
  pending,    \* changes that are stored and not yet broadcast, oldest first
  writes,     \* the number of changes, for the bound
  view,       \* what ChatView shows: this channel, another one, or no chat
  window,     \* channelMessages[channel]
  prefetched, \* whether the channel is in prefetchedChannels
  fetch,      \* the history requests
  disturbed,  \* history: why the window may rightly differ from the rows
  repeated    \* history: the rows that a page in the window brought twice

serverVars == <<log, pending, writes>>
clientVars == <<view, window, prefetched, fetch, disturbed, repeated>>
vars == <<serverVars, clientVars>>

(* A row: how often it was edited, whether the one reaction is on it.        *)
(* `rowId`: whether the window knows the message under the row's id, which   *)
(* is what later events name; gossip is broadcast under its sender's.        *)
Row     == [text : Nat, liked : BOOLEAN, deleted : BOOLEAN]
Message == [seq : Nat, text : Nat, liked : BOOLEAN, rowId : BOOLEAN]
Kinds   == {"new", "silent", "edited", "deleted", "liked", "unliked"}
Event   == [kind : Kinds, seq : Nat, text : Nat, rowId : BOOLEAN, late : BOOLEAN]
Window  == [messages : Seq(Message), oldest : Nat, hasMore : BOOLEAN, loading : BOOLEAN]
Fetch   == [kind : {"none", "first", "older", "prefetch"}, read : BOOLEAN,
            before : Nat, page : Seq(Message), more : BOOLEAN, stale : BOOLEAN]

NewRow      == [text |-> 0, liked |-> FALSE, deleted |-> FALSE]
Idle        == [kind |-> "none", read |-> FALSE, before |-> 0,
                page |-> <<>>, more |-> FALSE, stale |-> FALSE]
EmptyWindow == [messages |-> <<>>, oldest |-> 0, hasMore |-> TRUE, loading |-> FALSE]

TypeOK ==
  /\ log \in Seq(Row)
  /\ pending \in Seq(Event)
  /\ writes \in 0..MaxWrites
  /\ view \in {"this", "other", "none"}
  /\ window \in Window
  /\ prefetched \in BOOLEAN
  /\ fetch \in [Fetches -> Fetch]
  /\ disturbed \in BOOLEAN
  /\ repeated \in SUBSET Nat
  /\ Len(window.messages) <= Cap

Init ==
  /\ log = [i \in 1..Stored |-> NewRow]
  /\ pending = <<>>
  /\ writes = 0
  /\ view = "none"
  /\ window = EmptyWindow
  /\ prefetched = FALSE
  /\ fetch = [f \in Fetches |-> Idle]
  /\ disturbed = FALSE
  /\ repeated = {}

-----------------------------------------------------------------------------
(* The server's changes, each one closure under the mutex.                   *)

Change(e) ==
  /\ writes < MaxWrites
  /\ writes' = writes + 1
  /\ pending' = Append(pending, e)
  /\ UNCHANGED clientVars

Announce(kind, i, text) ==
  [kind |-> kind, seq |-> i, text |-> text, rowId |-> TRUE, late |-> FALSE]

(* MAX(server_sequence) + 1 counts deleted rows too, so it is the number of  *)
(* rows plus one.                                                            *)
CreateMessage ==
  /\ log' = Append(log, NewRow)
  /\ Change(Announce("new", Len(log) + 1, 0))

(* handle_gossip_message.  What is not a chat message gets a row and no      *)
(* event: a "silent" change, which no client ever hears of.                  *)
HandleGossipMessage(kind) ==
  /\ log' = Append(log, NewRow)
  /\ Change([Announce(kind, Len(log) + 1, 0) EXCEPT !.rowId = FALSE])

EditMessage(i) ==
  /\ ~log[i].deleted
  /\ log' = [log EXCEPT ![i].text = @ + 1]
  /\ Change(Announce("edited", i, log[i].text + 1))

DeleteMessage(i) ==
  /\ ~log[i].deleted
  /\ log' = [log EXCEPT ![i].deleted = TRUE]
  /\ Change(Announce("deleted", i, 0))

(* INSERT OR IGNORE: a reaction that is there already is announced again.    *)
AddReaction(i) ==
  /\ ~log[i].deleted
  /\ log' = [log EXCEPT ![i].liked = TRUE]
  /\ Change(Announce("liked", i, 0))

(* It does not ask whether the message was deleted.                          *)
RemoveReaction(i) ==
  /\ log[i].liked
  /\ log' = [log EXCEPT ![i].liked = FALSE]
  /\ Change(Announce("unliked", i, 0))

-----------------------------------------------------------------------------
(* Events reach the window.                                                  *)

Shows(seq) == \E j \in DOMAIN window.messages : window.messages[j].seq = seq

(* A set of numbers in ascending order, as ORDER BY and sort leave them, and *)
(* the elements of a sequence at a set of places, as filter leaves them.     *)
InOrder(K) ==
  [n \in 1..Cardinality(K) |-> CHOOSE i \in K : Cardinality({j \in K : j <= i}) = n]

Selected(s, K) == LET places == InOrder(K) IN [n \in DOMAIN places |-> s[places[n]]]

LastOf(s, n)  == SubSeq(s, IF Len(s) > n THEN Len(s) - n + 1 ELSE 1, Len(s))

FirstOf(s, n) == SubSeq(s, 1, IF Len(s) > n THEN n ELSE Len(s))

(* Altered: the message is appended whether the window has it or not.        *)
AppendAgain(e) ==
  LET longer == Append(window.messages,
                       [seq |-> e.seq, text |-> e.text, liked |-> FALSE, rowId |-> e.rowId])
      kept   == LastOf(longer, Cap)
  IN  [window EXCEPT !.messages = kept,
                     !.oldest   = kept[1].seq,
                     !.hasMore  = @ \/ Len(longer) > Cap]

(* appendMessage: for a channel that is not shown as well.                   *)
Appended(e) ==
  IF Shows(e.seq) THEN window
  ELSE LET longer == Append(window.messages,
                            [seq |-> e.seq, text |-> e.text, liked |-> FALSE, rowId |-> e.rowId])
           kept   == LastOf(longer, Cap)
       IN  [window EXCEPT !.messages = kept,
                          !.oldest   = kept[1].seq,
                          !.hasMore  = @ \/ Len(longer) > Cap]

(* updateMessage, addReaction, removeReaction on one message.                *)
Patched(m, e) ==
  CASE e.kind = "edited"  -> [m EXCEPT !.text = e.text]
    [] e.kind = "liked"   -> [m EXCEPT !.liked = TRUE]
    [] e.kind = "unliked" -> [m EXCEPT !.liked = FALSE]

Meant(m, e) == m.rowId /\ m.seq = e.seq

Without(e) ==
  [window EXCEPT !.messages = Selected(@, {j \in DOMAIN @ : ~Meant(@[j], e)})]

WithPatch(e) ==
  [window EXCEPT !.messages = [j \in DOMAIN @ |-> IF Meant(@[j], e) THEN Patched(@[j], e) ELSE @[j]]]

(* The listener of useMessages: what is not a new message is applied to the  *)
(* channel that is shown only.                                               *)
Handled(e) ==
  IF e.kind = "new" THEN Appended(e)
  ELSE IF view # "this" THEN window
  ELSE IF e.kind = "deleted" THEN Without(e) ELSE WithPatch(e)

AddsRow(e) == e.kind \in {"new", "silent"}

(* The pages that were read before this event and are not applied yet.       *)
Outdates(e, f) ==
  /\ fetch[f].kind # "none" /\ fetch[f].read
  /\ \/ AddsRow(e) /\ fetch[f].before = 0
     \/ \E j \in DOMAIN fetch[f].page : fetch[f].page[j].seq = e.seq

MarkStale(e) ==
  fetch' = [f \in Fetches |-> IF Outdates(e, f) THEN [fetch[f] EXCEPT !.stale = TRUE] ELSE fetch[f]]

Overtaken(e, by) == e.seq = by.seq \/ (AddsRow(e) /\ AddsRow(by))

(* The k-th change leaves the queue; the earlier ones of its message, and    *)
(* for a new message the earlier new ones, were overtaken.                   *)
Take(k) ==
  pending' = [j \in 1..(Len(pending) - 1) |->
               IF j < k THEN [pending[j] EXCEPT !.late = @ \/ Overtaken(pending[j], pending[k])]
                        ELSE pending[j + 1]]

(* What an event does to a window that was right before it: it came late, a  *)
(* newer message is shown already, or it is not applied to a message shown.  *)
Misapplied(e) ==
  \/ e.late
  \/ /\ e.kind = "new" /\ ~Shows(e.seq)
     /\ \E j \in DOMAIN window.messages : window.messages[j].seq > e.seq
  \/ /\ e.kind # "new"
     /\ \E j \in DOMAIN window.messages :
          window.messages[j].seq = e.seq /\ (view # "this" \/ ~window.messages[j].rowId)

(* The event is broadcast, travels and is handled by the renderer.           *)
Deliver(k) ==
  /\ view # "none" /\ pending[k].kind # "silent"
  /\ Take(k)
  /\ window' = Handled(pending[k])
  /\ disturbed' = (disturbed \/ Misapplied(pending[k]))
  /\ MarkStale(pending[k])
  /\ UNCHANGED <<log, writes, view, prefetched, repeated>>

(* Nobody handles it: the client is not connected, no ChatView is mounted,   *)
(* the handler was dropped before its broadcast, or it is silent.  That does  *)
(* not matter to a window that is still to be loaded.                        *)
Miss(k) ==
  /\ Take(k)
  /\ disturbed' = (\/ disturbed
                   \/ /\ window.oldest # 0 \/ ~window.hasMore
                      /\ ~(AddsRow(pending[k]) /\ Shows(pending[k].seq)))
  /\ MarkStale(pending[k])
  /\ UNCHANGED <<log, writes, view, window, prefetched, repeated>>

-----------------------------------------------------------------------------
(* History requests.                                                         *)

Ask(f, kind, before) ==
  /\ fetch[f] = Idle
  /\ fetch' = [fetch EXCEPT ![f] = [Idle EXCEPT !.kind = kind, !.before = before]]

(* The user goes to another channel or panel.                                *)
Leave(v) ==
  /\ view # v
  /\ view' = v
  /\ UNCHANGED <<serverVars, window, prefetched, fetch, disturbed, repeated>>

(* ... or to this one: loadMessages asks for a page unless it has messages   *)
(* or is loading.                                                            *)
Open ==
  /\ view # "this"
  /\ view' = "this"
  /\ IF window.messages = <<>> /\ ~window.loading
     THEN /\ \E f \in Fetches : Ask(f, "first", 0)
          /\ window' = [window EXCEPT !.loading = TRUE]
     ELSE UNCHANGED <<window, fetch>>
  /\ UNCHANGED <<serverVars, prefetched, disturbed, repeated>>

LoadOlder(f) ==
  /\ view = "this"
  /\ window.hasMore /\ ~window.loading
  /\ Ask(f, "older", window.oldest)
  /\ window' = [window EXCEPT !.loading = TRUE]
  /\ UNCHANGED <<serverVars, view, prefetched, disturbed, repeated>>

(* prefetchOnHover; it does not ask whether a page is being loaded.          *)
Prefetch(f) ==
  /\ window.messages = <<>>
  /\ ~prefetched
  /\ Ask(f, "prefetch", 0)
  /\ UNCHANGED <<serverVars, view, window, prefetched, disturbed, repeated>>

(* get_channel_messages, under the mutex: the newest live rows below         *)
(* `before`, one more than asked for to know whether there are more.  The    *)
(* rows are joined with users on the sender's key, which two users may have: *)
(* a row is then in the answer twice, and the limit counts it twice.  Which  *)
(* keys are shared changes with the users, so each read has its own `shared` *)
(* rows.  Bound: no key is of more than two users.                           *)
Live == {i \in DOMAIN log : ~log[i].deleted}

JoinedBelow(before, shared) ==
  LET rows   == {i \in Live : before = 0 \/ i < before}
      joined == InOrder({2 * i : i \in rows} \cup {2 * i + 1 : i \in rows \cap shared})
  IN  [n \in DOMAIN joined |-> joined[n] \div 2]

MessageOf(i) == [seq |-> i, text |-> log[i].text, liked |-> log[i].liked, rowId |-> TRUE]

ReadPage(f) ==
  /\ fetch[f].kind # "none" /\ ~fetch[f].read
  /\ \E shared \in SUBSET Live :
       LET rows == JoinedBelow(fetch[f].before, shared)
           n    == IF fetch[f].kind = "prefetch" THEN PrefetchSize ELSE PageSize
           last == LastOf(rows, n)
       IN  fetch' = [fetch EXCEPT
                       ![f].read = TRUE,
                       ![f].page = [j \in DOMAIN last |-> MessageOf(last[j])],
                       ![f].more = Len(rows) > n]
  /\ UNCHANGED <<serverVars, view, window, prefetched, disturbed, repeated>>

Repeated(page) ==
  {page[j].seq : j \in {j \in DOMAIN page :
                          \E k \in DOMAIN page \ {j} : page[k].seq = page[j].seq}}

Answered(f, kind) ==
  /\ fetch[f].kind = kind /\ fetch[f].read
  /\ fetch' = [fetch EXCEPT ![f] = Idle]

(* loadMessages gets its page and puts it in place of the messages.          *)
ApplyFirst(f) ==
  LET page == fetch[f].page
  IN  /\ Answered(f, "first")
      /\ window' = [messages |-> page,
                    oldest   |-> IF page = <<>> THEN 0 ELSE page[1].seq,
                    hasMore  |-> fetch[f].more,
                    loading  |-> FALSE]
      /\ disturbed' = fetch[f].stale
      /\ repeated' = Repeated(page)
      /\ UNCHANGED <<serverVars, view, prefetched>>

(* Altered: the messages that do not fit are dropped from the oldest end,    *)
(* and has_more is taken as the answer says.                                 *)
ApplyOlderKeepNewest(f) ==
  LET page   == fetch[f].page
      fresh  == Selected(page, {j \in DOMAIN page : ~Shows(page[j].seq)})
      merged == fresh \o window.messages
      kept   == LastOf(merged, Cap)
  IN  /\ Answered(f, "older")
      /\ window' = [messages |-> kept,
                    oldest   |-> IF kept = <<>> THEN window.oldest ELSE kept[1].seq,
                    hasMore  |-> fetch[f].more,
                    loading  |-> FALSE]
      /\ disturbed' = (\/ disturbed \/ fetch[f].stale
                       \/ window.oldest # fetch[f].before)
      /\ repeated' = repeated \cup Repeated(page)
      /\ UNCHANGED <<serverVars, view, prefetched>>

(* loadOlderMessages: the page goes before the messages, without those that  *)
(* are there, and what exceeds the cap is dropped from the newest end.  The  *)
(* window is then no longer a suffix; neither is it when messages were       *)
(* trimmed or replaced since the page was asked for.                         *)
ApplyOlder(f) ==
  LET page   == fetch[f].page
      fresh  == Selected(page, {j \in DOMAIN page : ~Shows(page[j].seq)})
      merged == fresh \o window.messages
      kept   == FirstOf(merged, Cap)
  IN  /\ Answered(f, "older")
      /\ window' = [messages |-> kept,
                    oldest   |-> IF kept = <<>> THEN window.oldest ELSE kept[1].seq,
                    hasMore  |-> fetch[f].more,
                    loading  |-> FALSE]
      /\ disturbed' = (\/ disturbed \/ fetch[f].stale
                       \/ Len(merged) > Cap
                       \/ window.oldest # fetch[f].before)
      /\ repeated' = repeated \cup Repeated(page)
      /\ UNCHANGED <<serverVars, view, prefetched>>

(* prefetchMessages: only into an empty window, and then as if it had been   *)
(* loaded, whether or not a load is in flight.                               *)
ApplyPrefetch(f) ==
  LET page == fetch[f].page
  IN  /\ Answered(f, "prefetch")
      /\ IF window.messages = <<>>
         THEN /\ window' = [messages |-> page,
                            oldest   |-> IF page = <<>> THEN 0 ELSE page[1].seq,
                            hasMore  |-> TRUE,
                            loading  |-> FALSE]
              /\ prefetched' = TRUE
              /\ disturbed' = fetch[f].stale
              /\ repeated' = Repeated(page)
         ELSE UNCHANGED <<window, prefetched, disturbed, repeated>>
      /\ UNCHANGED <<serverVars, view>>

(* Altered: the catch block forgets the flag.                                *)
FetchFailsLoading(f) ==
  /\ fetch[f].kind # "none"
  /\ fetch' = [fetch EXCEPT ![f] = Idle]
  /\ UNCHANGED <<serverVars, view, window, prefetched, disturbed, repeated>>

(* The request or its answer is lost; a failed prefetch is silent.           *)
FetchFails(f) ==
  /\ fetch[f].kind # "none"
  /\ fetch' = [fetch EXCEPT ![f] = Idle]
  /\ window' = IF fetch[f].kind = "prefetch" THEN window ELSE [window EXCEPT !.loading = FALSE]
  /\ UNCHANGED <<serverVars, view, prefetched, disturbed, repeated>>

-----------------------------------------------------------------------------
ServerStep ==
  \/ CreateMessage
  \/ \E kind \in {"new", "silent"} : HandleGossipMessage(kind)
  \/ \E i \in DOMAIN log : \/ EditMessage(i) \/ DeleteMessage(i)
                           \/ AddReaction(i) \/ RemoveReaction(i)

EventStep == \E k \in DOMAIN pending : Deliver(k) \/ Miss(k)

FetchStep(f) ==
  \/ LoadOlder(f) \/ Prefetch(f) \/ ReadPage(f) \/ FetchFails(f)
  \/ ApplyFirst(f) \/ ApplyOlder(f) \/ ApplyPrefetch(f)

Next ==
  \/ ServerStep
  \/ EventStep
  \/ Open
  \/ \E v \in {"other", "none"} : Leave(v)
  \/ \E f \in Fetches : FetchStep(f)

Spec == Init /\ [][Next]_vars

-----------------------------------------------------------------------------
(* Properties.                                                               *)

(* A message is shown twice only when one page brought it twice, by the join *)
(* on a key that two users have: live events, first pages, prefetched and    *)
(* older ones may bring the same row in any order, and each looks for it.    *)
ShownOnce ==
  \A i, j \in DOMAIN window.messages :
    window.messages[i].seq = window.messages[j].seq =>
      i = j \/ window.messages[i].seq \in repeated

(* `loading` stops every other load of the channel (loadMessages and         *)
(* loadOlderMessages return at once), so it is never left set without a      *)
(* request whose end will clear it, however loads, prefetches and failures   *)
(* interleave.                                                               *)
LoadingIsOwned ==
  window.loading => \E f \in Fetches : fetch[f].kind \in {"first", "older"}

(* Once everything stored has been announced, an undisturbed window shows    *)
(* the live rows from its first one on, all of them and no others, in their  *)
(* order, with their present text and reactions; and all live rows when it   *)
(* says there are no older ones.  Pages with repeated rows are no exception: *)
(* the limit cuts the oldest end of a page only.                             *)
Faithful ==
  LET shown == window.messages
      seqs  == {shown[j].seq : j \in DOMAIN shown}
  IN  pending = <<>> /\ ~disturbed =>
        /\ shown # <<>> => seqs = {i \in Live : i >= shown[1].seq}
        /\ \A j \in DOMAIN shown :
             /\ \A k \in DOMAIN shown : j < k => shown[j].seq <= shown[k].seq
             /\ shown[j].text = log[shown[j].seq].text
             /\ shown[j].liked = log[shown[j].seq].liked
        /\ ~window.hasMore => seqs = Live
===============================================================================
