------------------------------ MODULE ChatView ------------------------------
(***************************************************************************)
(* An open chat of the app (ChatCubit): the page it loads, the older pages *)
(* the user asks for, the events of the connection (Delivery), its own     *)
(* optimistic messages, and the synchronization that starts whenever the   *)
(* realtime client dials.  Every answer meets a state that has changed     *)
(* since it was asked for.                                                 *)
(***************************************************************************)
EXTENDS Delivery, FiniteSetsExt

CONSTANTS
  PageSize,  \* messages on a page of the history
  SyncSize,  \* messages on a page of a synchronization
  Syncs      \* bound on the synchronizations that overlap

ASSUME ChatAssumption == PageSize \in Nat \ {0} /\ SyncSize \in Nat \ {0}

VARIABLES
  chat,        \* "closed", "loading" (asked), "read" (answered), "ready", "failed"
  page,        \* the answer to load
  view,        \* the stored messages in the list
  doubled,     \* those that are in it twice
  optimistic,  \* the client_message_ids of the messages not acknowledged
  sent,        \* those used
  hasMore, nextCursor,
  older,       \* the cursor loadOlder has asked with
  syncCursor,
  sync,        \* each synchronization: its step, cursor and answer
  tag,         \* history: the last page was read when the hub knew the connection, nothing lost since
  caught,      \* history: since the last loss one has ended whose last page was read so
  late         \* history: messages whose event came when they were older than the list

lists == <<view, doubled, optimistic, sent>>
cursors == <<hasMore, nextCursor, older, syncCursor>>
history == <<tag, caught, late>>
app == <<chat, page, lists, cursors, sync, history>>
vars == <<delivery, app>>

\* A page is a range of messages and whether there are more beyond it.
Page == [from : 1 .. MaxMessages + 1, to : 0 .. MaxMessages, more : BOOLEAN]
EmptyPage == [from |-> 1, to |-> 0, more |-> FALSE]
On(p) == p.from .. p.to

TypeOK ==
  /\ DeliveryTypeOK
  /\ chat \in {"closed", "loading", "read", "ready", "failed"}
  /\ page \in Page
  /\ view \subseteq 1 .. stored /\ doubled \subseteq view
  /\ optimistic \subseteq sent /\ sent \subseteq OwnIds
  /\ hasMore \in BOOLEAN /\ nextCursor \in Messages \cup {None} /\ (hasMore => nextCursor # None)
  /\ older \in Messages \cup {None} /\ syncCursor \in Messages \cup {None}
  /\ sync \in [Syncs -> [step : {"idle", "asked", "read"}, cursor : Messages \cup {None}, page : Page]]
  /\ tag \in [Syncs -> BOOLEAN]
  /\ caught \in BOOLEAN
  /\ late \subseteq Messages

NoSync == [step |-> "idle", cursor |-> None, page |-> EmptyPage]

Init ==
  /\ DeliveryInit
  /\ chat = "closed" /\ page = EmptyPage
  /\ view = {} /\ doubled = {} /\ optimistic = {} /\ sent = {}
  /\ hasMore = FALSE /\ nextCursor = None /\ older = None /\ syncCursor = None
  /\ sync = [s \in Syncs |-> NoSync]
  /\ tag = [s \in Syncs |-> FALSE] /\ caught = FALSE /\ late = {}

-----------------------------------------------------------------------------
(* The pages of the server *)

Lower(n) == IF n > PageSize THEN n - PageSize + 1 ELSE 1
UpTo(n) == [from |-> Lower(n), to |-> n, more |-> Lower(n) > 1]
Newest == UpTo(stored)
Before(m) == UpTo(m - 1)
After(m) == [from |-> m + 1, to |-> Min({m + SyncSize, stored}), more |-> m + SyncSize < stored]

-----------------------------------------------------------------------------
(* The list *)

OwnOf(S) == {ownId[m] : m \in S} \ {None}

\* Mutant of Merge: by id alone.
MergeById(S) ==
  /\ view' = view \cup S
  /\ doubled' = {}
  /\ UNCHANGED <<optimistic, sent>>

\* _merge: by id, and a stored message takes the place of the optimistic one.
Merge(S) ==
  /\ view' = view \cup S
  /\ doubled' = {}
  /\ optimistic' = optimistic \ OwnOf(S)
  /\ UNCHANGED sent

\* The cubit is made and asks for the newest page.
Open ==
  /\ chat = "closed" /\ chat' = "loading"
  /\ UNCHANGED <<delivery, page, lists, cursors, sync, history>>

Read ==
  /\ chat = "loading" /\ chat' = "read"
  /\ page' = Newest
  /\ UNCHANGED <<delivery, lists, cursors, sync, history>>

\* The page replaces the list, whatever came into it since it was asked for.
Loaded ==
  /\ chat = "read" /\ chat' = "ready"
  /\ view' = On(page) /\ doubled' = {} /\ optimistic' = {}
  /\ hasMore' = page.more
  /\ nextCursor' = IF page.more THEN page.from ELSE None
  /\ syncCursor' = IF On(page) # {} THEN page.to ELSE None
  /\ page' = EmptyPage
  /\ UNCHANGED <<delivery, sent, older, sync, history>>

LoadFails ==
  /\ chat \in {"loading", "read"} /\ chat' = "failed"
  /\ page' = EmptyPage
  /\ UNCHANGED <<delivery, lists, cursors, sync, history>>

AskOlder ==
  /\ hasMore /\ older = None /\ nextCursor # None
  /\ older' = nextCursor
  /\ UNCHANGED <<delivery, chat, page, lists, hasMore, nextCursor, syncCursor, sync, history>>

\* The older page goes in front of the list as it is now, unmerged.
OlderLoaded ==
  /\ older # None
  /\ LET p == Before(older)
     IN /\ view' = view \cup On(p)
        /\ doubled' = doubled \cup (view \cap On(p))
        /\ hasMore' = p.more
        /\ nextCursor' = IF p.more THEN p.from ELSE nextCursor
  /\ older' = None
  /\ UNCHANGED <<delivery, chat, page, optimistic, sent, syncCursor, sync, history>>

OlderFails ==
  /\ older # None /\ older' = None
  /\ UNCHANGED <<delivery, chat, page, lists, hasMore, nextCursor, syncCursor, sync, history>>

\* The message is shown at once and sent once.
Send(id) ==
  /\ chat # "closed" /\ id \notin sent
  /\ sent' = sent \cup {id} /\ optimistic' = optimistic \cup {id}
  /\ Submit(id)
  /\ UNCHANGED <<chat, page, view, doubled, cursors, sync, history>>

\* Below this the list is not filled yet.
Floor == IF hasMore THEN nextCursor ELSE 1

\* Mutant of Created: an event moves the synchronization's cursor.
CreatedAndCounted(m) ==
  /\ Merge({m})
  /\ late' = IF chat = "ready" /\ m < Floor THEN late \cup {m} ELSE late
  /\ syncCursor' = IF syncCursor = None THEN None ELSE Max({syncCursor, m})

\* message.created
Created(m) ==
  /\ Merge({m})
  /\ late' = IF chat = "ready" /\ m < Floor THEN late \cup {m} ELSE late
  /\ UNCHANGED syncCursor

\* message.ack: the optimistic message takes the id of the stored one.
Acked(m) ==
  /\ IF ownId[m] \in optimistic
       THEN optimistic' = optimistic \ {ownId[m]} /\ view' = view \cup {m}
       ELSE UNCHANGED <<optimistic, view>>
  /\ UNCHANGED <<doubled, sent, syncCursor, late>>

Receive ==
  /\ Take
  /\ LET e == Head(queue)
     IN IF chat = "closed" THEN UNCHANGED <<lists, syncCursor, late>>
        ELSE IF e.kind = "created" THEN Created(e.message) ELSE Acked(e.message)
  /\ UNCHANGED <<chat, page, hasMore, nextCursor, older, sync, tag, caught>>

-----------------------------------------------------------------------------
(* Synchronization *)

\* What is lost now no read made earlier can have brought.
Loss == tag' = [s \in Syncs |-> FALSE] /\ caught' = FALSE /\ UNCHANGED late

\* connection.restored comes with the dialling; without a cursor nothing is synchronized.
Connect ==
  /\ Dial
  /\ IF chat = "closed" \/ syncCursor = None THEN UNCHANGED sync
     ELSE \E s \in Syncs :
            /\ sync[s].step = "idle"
            /\ sync' = [sync EXCEPT ![s] = [NoSync EXCEPT !.step = "asked", !.cursor = syncCursor]]
  /\ UNCHANGED <<chat, page, lists, cursors, history>>

ReadSync(s) ==
  /\ sync[s].step = "asked"
  /\ sync' = [sync EXCEPT ![s].step = "read", ![s].page = After(sync[s].cursor)]
  /\ tag' = [tag EXCEPT ![s] = @ \/ conn = "open"]
  /\ UNCHANGED <<delivery, chat, page, lists, cursors, caught, late>>

\* The page is merged, the cursor moves, and the next page is asked for or the end reached.
MergeSync(s) ==
  /\ sync[s].step = "read"
  /\ LET p == sync[s].page
     IN /\ Merge(On(p))
        /\ syncCursor' = IF On(p) # {} THEN p.to ELSE syncCursor
        /\ sync' = [sync EXCEPT ![s] = IF p.more THEN [NoSync EXCEPT !.step = "asked", !.cursor = p.to] ELSE NoSync]
        /\ caught' = (caught \/ (tag[s] /\ ~p.more))
        /\ tag' = [tag EXCEPT ![s] = @ /\ p.more]
  /\ UNCHANGED <<delivery, chat, page, hasMore, nextCursor, older, late>>

SyncFails(s) ==
  /\ sync[s].step # "idle"
  /\ sync' = [sync EXCEPT ![s] = NoSync]
  /\ tag' = [tag EXCEPT ![s] = FALSE]
  /\ UNCHANGED <<delivery, chat, page, lists, cursors, caught, late>>

-----------------------------------------------------------------------------
\* Broadcasts and acknowledgements of a full queue end the connection.
Outgoing ==
  /\ Broadcast \/ Acknowledge
  /\ IF conn' # conn THEN Loss ELSE UNCHANGED history
  /\ UNCHANGED <<chat, page, lists, cursors, sync>>

Incoming ==
  /\ \/ Commit \/ Handle \/ Register \/ Hangup
     \/ \E m \in Messages : Publish(m) \/ Repeat(m)
  /\ UNCHANGED app

Trouble ==
  /\ Break \/ DialFails \/ Lose \/ \E m \in Messages : PublishFails(m)
  /\ Loss
  /\ UNCHANGED <<chat, page, lists, cursors, sync>>

Next ==
  \/ Outgoing \/ Incoming \/ Trouble \/ Connect \/ Receive
  \/ Open \/ Read \/ Loaded \/ LoadFails
  \/ AskOlder \/ OlderLoaded \/ OlderFails
  \/ \E id \in OwnIds : Send(id)
  \/ \E s \in Syncs : ReadSync(s) \/ MergeSync(s) \/ SyncFails(s)

Spec == Init /\ [][Next]_vars

-----------------------------------------------------------------------------
(* Properties *)

\* The list has no gap behind the synchronization's cursor, however pages, events and
\* overlapping synchronizations met: whatever is missing, the next one brings.
NoGap == syncCursor # None => Floor .. syncCursor \subseteq view

\* No message is in the list twice, nor beside its own optimistic copy, but one whose
\* event came when it was already older than the list and whose page was loaded after.
ShownOnce == doubled \subseteq late /\ OwnOf(view) \cap optimistic = {}

Quiet ==
  /\ conn = "open" /\ due = {} /\ bus = <<>> /\ queue = <<>> /\ chat = "ready"
  /\ \A s \in Syncs : sync[s].step = "idle"

\* Once a synchronization has ended that read the end of the conversation when the hub
\* already knew the connection, nothing is missing, as long as nothing is lost.
CaughtUpOnline == Quiet /\ caught => Floor .. stored \subseteq view

-----------------------------------------------------------------------------
(* The inductive invariant behind them *)

\* Only an opened chat has cursors and synchronizes; the first page is one of the server's;
\* and an older page is asked for where the list begins.
Pages ==
  /\ \A i \in DOMAIN queue : queue[i].message <= stored
  /\ chat = "ready" \/ (~hasMore /\ nextCursor = None /\ syncCursor = None /\ ~caught
                         /\ \A s \in Syncs : sync[s].step = "idle" /\ ~tag[s])
  /\ chat = "read" => page.to <= stored /\ page = UpTo(page.to)
  /\ nextCursor # None => nextCursor <= stored
  /\ older # None => hasMore /\ older = nextCursor

\* The cursors: the list is filled up to each, and what a synchronization brings comes next.
Filled(c) == c \in Floor .. stored /\ Floor .. c \subseteq view

Cursors ==
  /\ syncCursor # None => Filled(syncCursor)
  /\ \A s \in Syncs :
       /\ sync[s].step # "idle" => sync[s].cursor # None /\ Filled(sync[s].cursor)
       /\ sync[s].step = "read" =>
            /\ sync[s].page.from = sync[s].cursor + 1 /\ sync[s].page.to <= stored
            /\ sync[s].page.more => sync[s].page.to > sync[s].cursor

\* What the list has from before its beginning came as an event; the app's own messages that
\* are not acknowledged are younger than its beginning, and not in it.
Copies ==
  /\ doubled \subseteq late /\ \A m \in view : m < Floor => m \in late
  /\ \A i \in DOMAIN outbox : outbox[i] \in sent
  /\ \A m \in Messages : ownId[m] # None =>
       /\ m <= stored /\ ownId[m] \in sent
       /\ ownId[m] \in optimistic => m >= Floor /\ m \notin view

\* A message that will still reach the app.
Coming(m) ==
  \/ m \in due \/ \E i \in DOMAIN bus : bus[i] = m
  \/ \E i \in DOMAIN queue : queue[i] = [kind |-> "created", message |-> m]

\* After a synchronization to the end nothing is missed while the connection stays.
Covered ==
  /\ caught => conn = "open" /\ \A m \in Floor .. stored : m \in view \/ Coming(m)
  /\ \A s \in Syncs : tag[s] =>
       /\ conn = "open"
       /\ sync[s].step = "read" /\ ~sync[s].page.more =>
            \A m \in sync[s].page.to + 1 .. stored : m \in view \/ Coming(m)

IInv == TypeOK /\ Pages /\ Cursors /\ Copies /\ Covered
=============================================================================
