----------------------------- MODULE ReadMarkers -----------------------------
(***************************************************************************)
(* How far a user has read: the rows last_read of the server                *)
(* (server/src/chat/messages.rs) against what one client shows              *)
(* (stores/messages.ts, hooks/useMessages.ts, components/ChatView.tsx).      *)
(*                                                                         *)
(* The client sends a marker whenever its view of a channel opens, gets a   *)
(* newer message, grows at the bottom or is scrolled there, and waits for   *)
(* no answer: two markers may be stored in the other order.  It reads the   *)
(* stored marker once, between asking for the first page and showing it.    *)
(* An effect of React runs after the render that a change of the store      *)
(* causes; both are part of the step that makes the change.                 *)
(*                                                                         *)
(* Messages are not edited or deleted here and the cap is not reached:      *)
(* ChannelMessages has both.                                                *)
(***************************************************************************)
EXTENDS Integers, Sequences, FiniteSets

CONSTANTS TextChannels,
          NoChannel,  \* no ChatView is mounted
          Stored,     \* rows of each channel before the client starts
          Writes,     \* bound: messages sent to each channel after that
          Most,       \* the greatest sum of the two
          Hovered,    \* bound: the channels that are prefetched
          MaxPuts,    \* bound: markers on their way
          MaxFetches, \* bound: requests for pages at a time
          PageSize    \* DEFAULT_PAGE_SIZE and PREFETCH_LIMIT

ASSUME ChannelAssumption == NoChannel \notin TextChannels
ASSUME RowsAssumption    == /\ Most \in Nat
                            /\ Stored \in [TextChannels -> 0..Most]
                            /\ Writes \in [TextChannels -> 0..Most]
                            /\ \A c \in TextChannels : Stored[c] + Writes[c] <= Most
ASSUME BoundAssumption   == {MaxPuts, MaxFetches} \subseteq Nat
ASSUME PageAssumption    == PageSize \in Nat \ {0}

VARIABLES
  top,      \* the greatest server_sequence of each channel
  events,   \* new messages that are stored and not yet handled by the client
  marker,   \* last_read of the user, 0 without a row
  puts,     \* the updates of last_read on their way, in the order sent
  windows,  \* channelMessages
  fetches,  \* the requests for pages, of each kind
  view,     \* activeChannelId while a ChatView is mounted
  scroll,   \* what ChatView keeps between renders
  clean     \* history: nothing has happened that may take the marker back

markerVars == <<top, events, marker, puts, windows, fetches, view, scroll, clean>>

Seqs == 0..Most

Window == [messages : SUBSET Seqs, oldest : Seqs, newest : Seqs,
           hasMore : BOOLEAN, lastRead : Seqs, loading : BOOLEAN]
Empty  == [messages |-> {}, oldest |-> 0, newest |-> 0,
           hasMore |-> TRUE, lastRead |-> 0, loading |-> FALSE]

Kinds == {"first", "older", "prefetch"}
Fetch == [pc : {"idle", "asked", "read", "marked"}, before : Seqs, page : SUBSET Seqs,
          more : BOOLEAN, last : Seqs]
Idle  == [pc |-> "idle", before |-> 0, page |-> {}, more |-> FALSE, last |-> 0]

(* isAtBottom and isLoadingOlderRef, as a ChatView mounts with them.         *)
Scroll  == [atBottom : BOOLEAN, older : BOOLEAN]
Mounted == [atBottom |-> TRUE, older |-> FALSE]

(* prevMessageCountRef: every render leaves the number it showed.            *)
Count(c) == Cardinality(windows[c].messages)

MarkersTypeOK ==
  /\ top \in [TextChannels -> Seqs]
  /\ events \subseteq (TextChannels \X Seqs)
  /\ marker \in [TextChannels -> Seqs]
  /\ puts \in Seq([channel : TextChannels, seq : Seqs, late : BOOLEAN])
  /\ windows \in [TextChannels -> Window]
  /\ fetches \in [TextChannels -> [Kinds -> Fetch]]
  /\ view \in TextChannels \cup {NoChannel}
  /\ scroll \in Scroll
  /\ clean \in [TextChannels -> BOOLEAN]

MarkersInit ==
  /\ top = Stored
  /\ events = {}
  /\ marker = [c \in TextChannels |-> 0]
  /\ puts = <<>>
  /\ windows = [c \in TextChannels |-> Empty]
  /\ fetches = [c \in TextChannels |-> [k \in Kinds |-> Idle]]
  /\ view = NoChannel
  /\ scroll = Mounted
  /\ clean = [c \in TextChannels |-> TRUE]

-----------------------------------------------------------------------------
(* The server.                                                               *)

Create(c) ==
  /\ top[c] < Stored[c] + Writes[c]
  /\ top' = [top EXCEPT ![c] = @ + 1]
  /\ events' = events \cup {<<c, top[c] + 1>>}
  /\ UNCHANGED <<marker, puts, windows, fetches, view, scroll, clean>>

(* update_last_read stores what it is given.  The k-th update sent is the    *)
(* next to reach the database; those of its channel sent before it are late. *)
UpdateLastRead(k) ==
  LET put == puts[k]
  IN  /\ marker' = [marker EXCEPT ![put.channel] = put.seq]
      /\ puts' = [j \in 1..(Len(puts) - 1) |->
                    IF j >= k THEN puts[j + 1]
                    ELSE [puts[j] EXCEPT !.late = @ \/ puts[j].channel = put.channel]]
      /\ clean' = [clean EXCEPT ![put.channel] = @ /\ ~put.late]
      /\ UNCHANGED <<top, events, windows, fetches, view, scroll>>

(* The update fails or never arrives: `.catch(() => {})`.                    *)
LoseUpdate(k) ==
  /\ puts' = [j \in 1..(Len(puts) - 1) |-> IF j >= k THEN puts[j + 1] ELSE puts[j]]
  /\ clean' = [clean EXCEPT ![puts[k].channel] = FALSE]
  /\ UNCHANGED <<top, events, marker, windows, fetches, view, scroll>>

(* The user reads the channel on another device.                             *)
OtherDevice(c) ==
  /\ \E i \in 1..top[c] : i > marker[c] /\ marker' = [marker EXCEPT ![c] = i]
  /\ clean' = [clean EXCEPT ![c] = FALSE]
  /\ UNCHANGED <<top, events, puts, windows, fetches, view, scroll>>

-----------------------------------------------------------------------------
(* Rendering.                                                                *)

(* markChannelRead, n times in a row: nothing without a newest message.      *)
Marked(w, n) == IF n > 0 /\ w.newest > 0 THEN [w EXCEPT !.lastRead = w.newest] ELSE w

MarksSent(c, w, n) ==
  IF w.newest = 0 THEN puts
  ELSE puts \o [j \in 1..n |-> [channel |-> c, seq |-> w.newest, late |-> FALSE]]

Times(b) == IF b THEN 1 ELSE 0

(* Altered: the marker is that of the window before the change.              *)
RerenderStale(c, w) ==
  LET grown == Cardinality(w.messages) > Count(c)
      marks == Times(w.newest # windows[c].newest) + Times(grown /\ scroll.atBottom)
  IN  /\ windows' = [windows EXCEPT ![c] = w]
      /\ puts' = MarksSent(c, windows[c], marks)
      /\ scroll' = [scroll EXCEPT !.older = @ /\ (windows[c].loading = w.loading \/ w.loading)]

(* The view of a channel that was on the screen already is rendered with the *)
(* window `w`: useMessages marks when newestLoaded changed, ChatView when    *)
(* there are more messages than at the last render and it is at the bottom,  *)
(* and the end of loading lets the scroll handler load again.                *)
Rerender(c, w) ==
  LET grown == Cardinality(w.messages) > Count(c)
      marks == Times(w.newest # windows[c].newest) + Times(grown /\ scroll.atBottom)
  IN  /\ windows' = [windows EXCEPT ![c] = Marked(w, marks)]
      /\ puts' = MarksSent(c, w, marks)
      /\ scroll' = [scroll EXCEPT !.older = @ /\ (windows[c].loading = w.loading \/ w.loading)]

(* The window of a channel changes, which matters to the screen if it is     *)
(* the one shown.                                                            *)
Change(c, w) ==
  IF view = c THEN Rerender(c, w)
  ELSE /\ windows' = [windows EXCEPT ![c] = w]
       /\ UNCHANGED <<puts, scroll>>

-----------------------------------------------------------------------------
(* What the client shows.                                                    *)

(* loadMessages, on opening.                                                 *)
Loads(c) == windows[c].messages = {} /\ ~windows[c].loading

(* The user selects a channel.  useMessages loads, useMessages and ChatView   *)
(* mark, ChatView marks again if this channel is the longer one and it was   *)
(* at the bottom.  It then scrolls to the bottom of what is loaded.  A       *)
(* ChatView that was mounted for another channel is kept.                    *)
Open(c) ==
  LET w       == windows[c]
      mounted == view # NoChannel
      longer  == mounted /\ Count(c) > Count(view)
      marks   == 2 + Times(longer /\ scroll.atBottom)
      changed == mounted /\ windows[view].loading # w.loading
  IN  /\ view # c
      /\ view' = c
      /\ Loads(c) => fetches[c]["first"] = Idle
      /\ fetches' = IF Loads(c) THEN [fetches EXCEPT ![c]["first"].pc = "asked"] ELSE fetches
      /\ windows' = [windows EXCEPT ![c] =
                       [Marked(w, marks) EXCEPT !.loading = @ \/ Loads(c)]]
      /\ puts' = MarksSent(c, w, marks)
      /\ scroll' = [atBottom |-> scroll.atBottom \/ (Count(c) > 0 /\ ~w.loading),
                    older |-> scroll.older /\ (changed => w.loading)]
      /\ UNCHANGED <<top, events, marker, clean>>

(* Another panel takes the place of the chat, whose refs go with it.         *)
Close ==
  /\ view # NoChannel
  /\ view' = NoChannel
  /\ scroll' = Mounted
  /\ UNCHANGED <<top, events, marker, puts, windows, fetches, clean>>

(* "Mark as Read" of the channel list, offered while something is unread.    *)
MarkAsRead(c) ==
  /\ \E i \in windows[c].messages : i > windows[c].lastRead
  /\ windows' = [windows EXCEPT ![c] = Marked(@, 1)]
  /\ puts' = MarksSent(c, windows[c], 1)
  /\ UNCHANGED <<top, events, marker, fetches, view, scroll, clean>>

(* Altered: the flag is set before it is known whether there is more.        *)
HandleScrollFlagged(atBottom, nearTop) ==
  LET w     == windows[view]
      asks  == nearTop /\ ~w.loading /\ ~scroll.older
      loads == asks /\ w.hasMore
  IN  /\ view # NoChannel
      /\ loads => fetches[view]["older"] = Idle
      /\ windows' = [windows EXCEPT ![view] =
                       [Marked(w, Times(atBottom)) EXCEPT !.loading = @ \/ loads]]
      /\ puts' = MarksSent(view, w, Times(atBottom))
      /\ fetches' = IF loads THEN [fetches EXCEPT ![view]["older"] =
                                     [Idle EXCEPT !.pc = "asked", !.before = w.oldest]]
                    ELSE fetches
      /\ scroll' = [scroll EXCEPT !.atBottom = atBottom, !.older = @ \/ asks]
      /\ UNCHANGED <<top, events, marker, view, clean>>

(* handleScroll: a short channel is at its bottom and near its top at once.  *)
(* The prefetch past seventy per cent asks the same conditions.              *)
HandleScroll(atBottom, nearTop) ==
  LET w     == windows[view]
      loads == nearTop /\ w.hasMore /\ ~w.loading /\ ~scroll.older
  IN  /\ view # NoChannel
      /\ loads => fetches[view]["older"] = Idle
      /\ windows' = [windows EXCEPT ![view] =
                       [Marked(w, Times(atBottom)) EXCEPT !.loading = @ \/ loads]]
      /\ puts' = MarksSent(view, w, Times(atBottom))
      /\ fetches' = IF loads THEN [fetches EXCEPT ![view]["older"] =
                                     [Idle EXCEPT !.pc = "asked", !.before = w.oldest]]
                    ELSE fetches
      /\ scroll' = [scroll EXCEPT !.atBottom = atBottom, !.older = @ \/ loads]
      /\ UNCHANGED <<top, events, marker, view, clean>>

(* A new message is handled; events may pass each other.  One that comes     *)
(* after a later one makes newestLoaded the smaller number.                  *)
Deliver(c, i) ==
  LET w == windows[c]
  IN  /\ view # NoChannel
      /\ <<c, i>> \in events
      /\ events' = events \ {<<c, i>>}
      /\ IF i \in w.messages THEN UNCHANGED <<windows, puts, scroll, clean>>
         ELSE /\ Change(c, [w EXCEPT !.messages = @ \cup {i},
                                     !.newest = i,
                                     !.oldest = IF w.messages = {} THEN i ELSE @])
              /\ clean' = [clean EXCEPT ![c] = @ /\ i >= w.newest]
      /\ UNCHANGED <<top, marker, fetches, view>>

(* Nobody listens.                                                           *)
Miss(c, i) ==
  /\ <<c, i>> \in events
  /\ events' = events \ {<<c, i>>}
  /\ UNCHANGED <<top, marker, puts, windows, fetches, view, scroll, clean>>

-----------------------------------------------------------------------------
(* Pages.                                                                    *)

(* prefetchOnHover and useAppLaunchPrefetch, of which only the first asks    *)
(* whether the channel was prefetched before: left out, as one that was has  *)
(* messages or none to get.                                                  *)
Prefetch(c) ==
  /\ c \in Hovered
  /\ windows[c].messages = {}
  /\ fetches[c]["prefetch"] = Idle
  /\ fetches' = [fetches EXCEPT ![c]["prefetch"].pc = "asked"]
  /\ UNCHANGED <<top, events, marker, puts, windows, view, scroll, clean>>

Below(c, before) == {i \in 1..top[c] : before = 0 \/ i < before}

ReadPage(c, k) ==
  LET f    == fetches[c][k]
      rows == Below(c, f.before)
  IN  /\ f.pc = "asked"
      /\ fetches' = [fetches EXCEPT ![c][k] =
                       [f EXCEPT !.pc = "read",
                                 !.page = {i \in rows : Cardinality({j \in rows : j > i}) < PageSize},
                                 !.more = Cardinality(rows) > PageSize]]
      /\ UNCHANGED <<top, events, marker, puts, windows, view, scroll, clean>>

(* loadMessages asks for the marker when it has its page; an error leaves 0. *)
GetLastRead(c) ==
  /\ fetches[c]["first"].pc = "read"
  /\ \E last \in {marker[c], 0} :
       fetches' = [fetches EXCEPT ![c]["first"].pc = "marked", ![c]["first"].last = last]
  /\ UNCHANGED <<top, events, marker, puts, windows, view, scroll, clean>>

Least(S)    == IF S = {} THEN 0 ELSE CHOOSE i \in S : \A j \in S : i <= j
Greatest(S) == IF S = {} THEN 0 ELSE CHOOSE i \in S : \A j \in S : i >= j

(* The first page replaces the window, what live events put there as well,   *)
(* and the marker that was read replaces the one set meanwhile.              *)
ApplyFirst(c) ==
  LET f == fetches[c]["first"]
  IN  /\ f.pc = "marked"
      /\ fetches' = [fetches EXCEPT ![c]["first"] = Idle]
      /\ Change(c, [messages |-> f.page,
                    oldest |-> Least(f.page), newest |-> Greatest(f.page),
                    hasMore |-> f.more, lastRead |-> f.last, loading |-> FALSE])
      /\ clean' = [clean EXCEPT ![c] = @ /\ Greatest(f.page) >= windows[c].newest]
      /\ UNCHANGED <<top, events, marker, view>>

(* Altered: the newest message loaded is the newest of the page.             *)
ApplyOlderAsNewest(c) ==
  LET f == fetches[c]["older"]
      w == windows[c]
  IN  /\ f.pc = "read"
      /\ fetches' = [fetches EXCEPT ![c]["older"] = Idle]
      /\ Change(c, [w EXCEPT !.messages = @ \cup f.page,
                             !.oldest = IF f.page \ w.messages = {} THEN @
                                        ELSE Least(f.page \ w.messages),
                             !.newest = IF f.page = {} THEN @ ELSE Greatest(f.page),
                             !.hasMore = f.more, !.loading = FALSE])
      /\ UNCHANGED <<top, events, marker, view, clean>>

(* An older page goes before the messages and leaves newestLoaded alone.     *)
ApplyOlder(c) ==
  LET f == fetches[c]["older"]
      w == windows[c]
  IN  /\ f.pc = "read"
      /\ fetches' = [fetches EXCEPT ![c]["older"] = Idle]
      /\ Change(c, [w EXCEPT !.messages = @ \cup f.page,
                             !.oldest = IF f.page \ w.messages = {} THEN @
                                        ELSE Least(f.page \ w.messages),
                             !.hasMore = f.more, !.loading = FALSE])
      /\ UNCHANGED <<top, events, marker, view, clean>>

(* A prefetched page fills an empty window, with nothing read.               *)
ApplyPrefetch(c) ==
  LET f == fetches[c]["prefetch"]
  IN  /\ f.pc = "read"
      /\ fetches' = [fetches EXCEPT ![c]["prefetch"] = Idle]
      /\ IF windows[c].messages # {} THEN UNCHANGED <<windows, puts, scroll>>
         ELSE Change(c, [messages |-> f.page,
                         oldest |-> Least(f.page), newest |-> Greatest(f.page),
                         hasMore |-> TRUE, lastRead |-> 0, loading |-> FALSE])
      /\ UNCHANGED <<top, events, marker, view, clean>>

FetchFails(c, k) ==
  /\ fetches[c][k].pc = "asked"
  /\ fetches' = [fetches EXCEPT ![c][k] = Idle]
  /\ IF k = "prefetch" THEN UNCHANGED <<windows, puts, scroll>>
     ELSE Change(c, [windows[c] EXCEPT !.loading = FALSE])
  /\ UNCHANGED <<top, events, marker, view, clean>>

-----------------------------------------------------------------------------
ServerStep ==
  \/ \E c \in TextChannels : Create(c) \/ OtherDevice(c)
  \/ \E k \in DOMAIN puts : UpdateLastRead(k) \/ LoseUpdate(k)

ViewStep ==
  \/ \E c \in TextChannels : Open(c) \/ MarkAsRead(c)
  \/ Close
  \/ \E atBottom, nearTop \in BOOLEAN : HandleScroll(atBottom, nearTop)
  \/ \E c \in TextChannels, i \in Seqs : Deliver(c, i) \/ Miss(c, i)

PageStep ==
  \E c \in TextChannels :
    \/ Prefetch(c) \/ GetLastRead(c) \/ ApplyFirst(c) \/ ApplyOlder(c) \/ ApplyPrefetch(c)
    \/ \E k \in Kinds : ReadPage(c, k) \/ FetchFails(c, k)

InFlight(f) == {ck \in TextChannels \X Kinds : f[ck[1]][ck[2]] # Idle}

MarkersNext ==
  \/ ServerStep
  \/ /\ ViewStep \/ PageStep
     /\ Len(puts') <= MaxPuts /\ Cardinality(InFlight(fetches')) <= MaxFetches

MarkersSpec == MarkersInit /\ [][MarkersNext]_markerVars

-----------------------------------------------------------------------------
(* Properties.                                                               *)

(* The stored marker does not move back, although every mark sends whatever  *)
(* is the newest message loaded at the time, except for the causes that      *)
(* `clean` names: two updates that passed each other, events that did, a     *)
(* first page older than what came live, another device.                     *)
MarkerAdvances ==
  [][\A c \in TextChannels : clean'[c] => marker'[c] >= marker[c]]_markerVars

(* "If viewing the active channel and at bottom, mark as read" (ChatView):   *)
(* once its updates are stored, a channel shown at its bottom is read up to  *)
(* the newest message loaded, whichever effect or handler saw that message   *)
(* first: the list may have changed while the user was scrolled away or was  *)
(* in another channel, or without getting longer.  Of a user who has         *)
(* scrolled up the property says nothing: ChatView means to wait for the     *)
(* bottom, useMessages does not.                                             *)
BottomIsRead ==
  \A c \in TextChannels :
    ( /\ view = c /\ scroll.atBottom /\ clean[c] /\ windows[c].newest > 0
      /\ \A k \in DOMAIN puts : puts[k].channel # c )
    => marker[c] = windows[c].newest

(* Scrolling up can always load older messages again: the flag that keeps a  *)
(* second load away is set only while the channel shown is loading, although *)
(* it is shared by all channels and cleared by a change of one.              *)
ScrollNotStuck ==
  (view # NoChannel /\ scroll.older) => windows[view].loading
===============================================================================
