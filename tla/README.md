# JetoMax chat: TLA+ models and proofs

TLA+ specifications of the JetoMax realtime chat (`src/backend`, a Go API over
PostgreSQL, Redis and S3; `src/frontend`, a Flutter client), the TLC runs that
check them on small instances, and TLAPS proofs of what holds for every
instance. `PROJECT.json` maps every definition to the source lines it models.

## 1. The system

### Components, their state and their operations

| Part | State | Operations | Hard because |
| --- | --- | --- | --- |
| Group conversations (`usecase/conversation`, `repository/conversation.go`) | rows of `conversations` and `conversation_members` (role per user) | create, add, remove or leave, change role, transfer ownership, list | every operation checks roles and then writes several rows; requests overlap at READ COMMITTED; a client that hangs up rolls the transaction back anywhere |
| Direct conversations (same files) | `conversations.direct_key`, two member rows | create or find | both users ask at once; answers are lost and repeated |
| Sending (`usecase/message.Send`, `repository/message.go Send`, `usecase/media.ResolveImage`) | `messages`, `message_attachments`, `media_uploads` | send, retry | retries by `client_message_id`, uploads claimed once, expiry between resolve and claim, commit without a delivered answer |
| History (`ListForMember`, `ListAfterForMember`, `MarkRead`, `ListForUser`) | read pointers; cursors held by clients | page back, synchronize, mark read, count unread | messages appear at commit and are ordered by the time of their insert |
| Fan-out (`cache/message_bus.go`) | Redis channels, one subscription per process | publish message, publish event | at most once; publish after commit |
| WebSocket hub and clients (`delivery/websocket`) | registered clients, 64-event queues, read and write loops | register, unregister, send to user, close | full queues, events racing acknowledgements, shutdown |
| Presence (`message_bus.go`, `usecase/message`) | one expiring set of connections per user in Redis | connect, touch, disconnect, snapshot | several connections, events published after the change, crashed processes |
| Sessions (`usecase/auth`, `repository/auth.go`, `security/token.go`) | `refresh_tokens`, access tokens | register, login, refresh, logout | concurrent refreshes, lost answers |
| HTTP layer (`delivery/http`, `errorlog`) | the table `errors` and a log file | routing, authentication, error mapping, recording every error answered | each sink of the audit fails by itself; panics; refused handshakes |
| Profiles, media URLs | `users`, S3 objects | look up, search, presign | pure reads and I/O |
| Start and shutdown (`cmd/api`, `bootstrap`) | open resources | start, shut down | a start that fails half-way; closing while WebSocket handlers, which the HTTP server no longer counts, still run |
| Flutter session and API client (`auth_cubit`, `api_client`, `token_store`) | stored tokens, the interceptor's queue | refresh on 401, restore, sign out | a refresh while other requests fail |
| Flutter chat (`chat_cubit`) | message list, cursors, typing, presence | load, page back, send, acknowledge, synchronize | results of requests overlap realtime events |
| Flutter list of conversations (`conversations_cubit`) | the list shown | load, refresh, load again on `conversation.updated` | several requests at once; events lost while offline |
| Flutter realtime client | channel, retry timer | connect, reconnect, disconnect | failed dials, an unawaited disconnect that ends after the next sign-in |

HTTP handlers and WebSocket clients call the use cases; the use cases call the
repositories (one PostgreSQL transaction per write) and, after the commit, the
bus; every process's bus subscription calls its hub, which enqueues events to
its clients. Clients hold cursors and client message ids and compensate for
lost events by synchronizing after a reconnect.

### What makes each part correct

Groups: exactly one owner at every commit, each commit an allowed operation,
no deadlock. Direct conversations: one per pair, answers agree. Sending: one
message per `client_message_id`, one message per upload, retries answered with
the stored message. History: pages neither skip nor repeat, the read pointer
never moves back, synchronization misses nothing. Presence and delivery: events
converge, queues stay bounded. Sessions: one use per refresh token, the client
never waits for itself. Process: nothing is closed under work that was not told
to end, every error answered is recorded, an ended connection leaves nothing
behind, a signal ends the process. Realtime client: one channel while signed in,
none after, a dial after every end. List: as new as what the app was told. The
hazards are listed line by line in `PROJECT.json`.

## 2. Modules

| Module | What it is |
| --- | --- |
| `Names` | users, and the texts requests name them by: the API's own spelling of a uuid and others |
| `GroupTypes` | requests on groups, who may make them (`Allowed`), what they come to (`After`) |
| `GroupRules` | abstract specification: one indivisible step per request |
| `GroupMembership` | the transactions, one action per SQL statement, with row locks, uncommitted writes, abort, and the row locks of `MarkRead`; its properties and inductive invariant |
| `GroupMembershipProofs` | TLAPS proofs about `GroupMembership` |
| `DirectConversation` | `CreateDirect`, one action per statement; the unique index as waiting; its inductive invariant |
| `DirectConversationProofs` | TLAPS proofs about `DirectConversation` and, for what one of the two is shown of the other, `Presence` |
| `LogTypes`, `MessageLog` | abstract specification of a conversation's messages as readers see them |
| `MessageStore` | sending: the service's checks and the transaction's statements; implements `MessageLog`; its inductive invariant |
| `MessageStoreProofs` | TLAPS proofs about `MessageStore`, that it implements `MessageLog` among them |
| `MessageHistory` | paging back and synchronizing over `MessageLog`, two statements per request; its inductive invariant |
| `ReadPointer` | `MarkRead` as a transaction with its snapshot, unread counts, over `MessageLog`; its inductive invariant |
| `MessageHistoryProofs` | TLAPS proofs about `MessageHistory` |
| `Presence` | the sorted set of a user's connections, the announcements, and one observer's chat; its inductive invariant |
| `RefreshTokens` | the auth service: login, refresh and logout, statement by statement |
| `AppSession` | the app over `RefreshTokens`: the interceptor, the token store and its failures, signing in and out, restarts; the inductive invariant of both |
| `AppSessionProofs` | TLAPS proofs about both |
| `ServerLife` | one API process: start, requests and their error records, WebSocket connections, broadcast, shutdown; its inductive invariant |
| `ServerLifeProofs` | TLAPS proofs about `ServerLife` |
| `RealtimeClient` | the app's channels, retry timer and disconnects, and the session that calls them; its inductive invariant |
| `ConversationList` | what the server would list, `conversation.updated` on its way, and the app's overlapping loads, over `RealtimeClient`; its inductive invariant |
| `ConversationListProofs` | TLAPS proofs about both and, for the list's unread counts, `ReadPointer` |
| `Delivery` | commit, publish, Redis, the hub and one connection with its bounded queue |
| `ChatView` | an open chat over `Delivery`: pages, events, optimistic messages, synchronization; its inductive invariant |
| `ChatViewProofs` | TLAPS proofs about `ChatView` over `Delivery` |
| `MC...` | constants for TLC |

`MessageHistory` and `ReadPointer` use `MessageLog` in place of the sending
transactions; the run `store` and the theorem `StoreImplementsLog` show that
`MessageStore` implements it.
`ChatView` numbers messages in the order they commit: what happens when the
order of their times is another is the subject of `MessageHistory`.

### How state and actions correspond to the code

*Transactions.* `pc[t]` is the next statement of transaction `t`. Reads see
committed rows and the transaction's own writes (`View` in `GroupMembership`;
`written`, `joined`, `claimed`, `row` hold the uncommitted part); commit
installs them in one step, abort drops them. `SELECT ... FOR UPDATE`, `UPDATE`,
`DELETE` and `INSERT` wait for a row lock another transaction holds. An `INSERT
... ON CONFLICT DO NOTHING` waits for an open transaction that has inserted the
same key and then does nothing if it committed. `Abort` covers a cancelled
request context, a failed statement and a crash. An `UPDATE` that waited is
judged again on the row it finds, but its subqueries keep the statement's
snapshot: `ReadPointer.snap` is that snapshot. `MarkRead` is there whole; in
`GroupMembership` only its lock on a member's row is (`MarkRead`, `MarkReadEnds`),
held by `Reader`: the one lock on these rows that is taken without the conversation's.

*Images.* `MessageStore.Resolve` is `ResolveImage` with all its refusals. A failure
of `VerifyObject`, whatever its cause, is a conflict to the caller, before the stored
message is looked for; it has a result of its own (`unverified`), so that
`RetryAccepted` can say what is refused and what never is.

*Names.* Go compares ids as texts, PostgreSQL as uuids. `Ref == Ids \X
Spellings` keeps both: `SelfRequest`, deduplication and the direct key compare
refs, rows are indexed by ids.

*History.* `older` and `sync` are the cursors the client keeps (`next_cursor`,
`sync_cursor`); `walked`, `count` and `got` are what it has received; `opened`,
`from` and `seen` remember, for the properties only, the log at the first page
and at the start of the synchronization.

*Presence.* `phase[c]` is how far `Client.Run` has come for a connection,
`entries` the unexpired members of `chat:presence:<user>`, `pending` the
announcements decided by `Connect` and `Disconnect` and published in a step of
their own. `spoiled` names the mishaps since the user last came from nowhere
(`CleanStart`), each of which is needed for the properties to hold:

| Mishap | What happened |
| --- | --- |
| `lost` | a Redis call or a publish failed and only a log says so |
| `crossed` | two announcements were published in the other order than their changes |
| `ghost` | a heartbeat's `TouchPresence` came after the `DisconnectPresence` |
| `lapsed` | a live connection's entry expired between two heartbeats |
| `leftover` | a process died, or the removal failed, and the entry lives on until it expires |
| `overtaken`, `away`, `reloaded` | the observer's snapshot overtook an event, its connection was down, its chat was opened anew |

*Sessions.* A token is the number of its row. Access tokens, refresh tokens and
users made together share that number, so `held` and `disk` are records of
three numbers and a half-written storage is one with different numbers. `queue`
is the interceptor's queue of errors, `busy` the request it holds while it
refreshes and sends it again. A write to the storage is under way for somebody
(`writes`) and may fail (`failed`); `Future.wait` lets its caller go on when all
three have ended, with an error if one failed: a login then shows signed out
with the new tokens in memory (`SignInFails`), a logout throws and shows signed
in without any (`SignOutFails`), the interceptor clears the tokens (`SaveFails`)
and, if it is clearing them already, never calls its handler (`ClearFails`,
stage `stuck`). A refresh has no timeouts and may be never answered (`Silence`,
the same stage). `Settled` is an app at rest; it can be restarted there at any
time, which changes nothing. `mishaps` names what the code does not guard
against, since the tokens were last kept by a login or deleted by a logout that
met nothing else under way:

| Mishap | What happened |
| --- | --- |
| `killed` | the app was killed while something was under way |
| `unstored` | its storage failed a login, a logout or the end of a session |
| `resurrected` | a refresh's answer was saved over another session, or none |
| `expelled` | a refresh's failure cleared another session's tokens |
| `overlaid` | a login was kept over what one of these had left |

*Delivery and chat.* `conn` is "dialing" from `RealtimeClient.connect` until
`Hub.Register`, "open" while the hub knows the connection, "dying" from the
server's or the network's end of it until the app hears of it. `queue` is the
64-event channel and the wire. `view`, `doubled` and `optimistic` are the
list of `ChatState`; cursors are named as there. `tag`, `caught` and `late` are
history: what a synchronization's last read can have missed, whether one has
ended since the last loss, and events that came for messages older than the list.

*A process.* `main` is the next step of `Connect`, of `cmd/api` or of
`Resources.Close`; `Undone` is what each failing step of `Connect` closes.
`phase[x]` is how far a request or a connection has come: "working" is known to
the HTTP server, "accepted" is taken over from it, "table" and "file" are the two
sinks of `Recorder.Record`. A broadcast holds the hub's read lock from
`Broadcast` until `sending` is empty, so registering and unregistering wait for
it; `Enqueue` never waits. An exit ("failed", "broken", "cut", "stopped") stops
everything that runs. `mishaps` says what failed and for whom.

*Realtime client.* A slot of `channels` is one `IOWebSocketChannel`; `current` is
`_channel`, `timer` the delay of `_retry`. `closing` holds the disconnects that
wait for the close of a channel and who called them: `logout`, which awaits it
and signs out afterwards, or an expired session, which awaits nothing. `crossed`
is history: such a disconnect set `_channel` to null after a later sign-in had
put a new channel there. `native` is the build: with `dart:io` making a channel
succeeds and dials later; without it `connectWebSocket` throws, and the catch of
`connect` tries again after 1, 2, 4 up to 30 seconds. `Schedule` is the timer of
both.

*List.* One conversation stands for the list: `Summary` is its row of
`ListForUser`. A `version` counts the changes; `due` and `seen` remember, for the
property only, the version the app was told of and the newest it has shown,
`overlap` that requests were under way at once. Order, senders and the unread
rule itself are `ReadPointer`'s.

*External code.* Dio's queued interceptor hands errors to its callback one at
a time and holds the queue until the callback's handler is called; the
web-socket channel (web_socket_channel 3.0.3) connects lazily, so `connect`
returns before the server knows of it, reports an error and then its end once,
ends for the app as soon as it is closed, and never completes the close of a
channel whose dial under way fails; `http.Server.Shutdown` waits for requests but
not for connections taken over; Redis delivers to a subscriber in order and at most once;
PostgreSQL runs at READ COMMITTED.

## 3. Runs

| Run | Bounds | Shows |
| --- | --- | --- |
| `life` | 2 requests, 1 connection with a queue of 1, 2 errors, 2 failures | `NothingPulledAway`, `FailuresKept`, `LeavesNothing`, `ClosedAtExit`, `WindsUp` |
| `list` | either build, 2 channels, 3 troubles (logouts, expiries, failed dials, ends), 1 change, 2 loads at once | `OneChannel`, `ListTrue`, `Redials` |
| `group` | 2 users, 2 spellings, lists of up to 2, 1 conversation, 2 transactions, 1 of the users marks it read | `TypeOK`, `OneOwner`, `RowsUncontended`, `Linearizable`, `Answered`; no deadlock |
| `direct` | 3 users and an unregistered id, 3 requests | `OnePerPair`, `AnswerUsable`, `Ends` |
| `direct_spelling` | as above with 2 spellings and 2 requests | violation of `OnePerPair` |
| `store` | 2 users, 2 client ids, 2 texts, 1 upload, 3 requests | `ImplementsLog`, `AnswersStored`, `RetryAccepted`, `UploadsSettled`, `Unblocked` |
| `history` | 4 messages, 2 instants, pages of 2, 1 client | `NothingSkipped`, `NothingRepeated`, `SyncedUpTo` |
| `history_sync` | the same | violation of `NothingMissed` |
| `reads` | 3 messages in 2 instants, 3 devices of a reader, who leaves and returns once | `NeverBack`, `MarkCounts`, `UnreadShrinks` |
| `presence` | 3 connections, 2 failures | `ShowsTruth`, `NeverHidden`, `OfflineIsLast` |
| `sessions` | 2 requests, 4 calls and tokens, restarts at rest, 1 fault (a lost answer, a failed write, a kill or a refresh without answer) | `OneActive`, `LogoutFinal`, `HeldIsUsable`, `SignedOutForgets`, `OneLogin`, `RequestsEnd` |
| `chat` | 3 messages, pages of 1, a queue of 1, 2 synchronizations, 1 own message, 1 failure | `NoGap`, `ShownOnce`, `CaughtUpOnline` |

Why these bounds are enough to be interesting: two group transactions let every
pair of statements interleave, and two users with lists of two let every operation
be refused and succeed, also under a second spelling; a bystander, an unknown id
and more transactions are left to the proofs, which have no bound (what they do
not cover is `Answered`). Two HTTP requests and a connection let one be in
progress, one fail and one be handed over while `main` closes; two failures break
both sinks or a sink and Redis, and a queue of one is full after one event.
`ServerLifeProofs` removes these bounds. Two channels are one that a disconnect
still waits for and its successor; three troubles let a logout, an expiry and a
failed dial overlap, which is what `crossed` takes; two loads at once are the
fewest whose answers can change places. `ConversationListProofs` removes them;
the bounds of `direct`, `store`, `history`, `reads`, `presence`, `sessions` and `chat`
are removed by the proofs too.
Three requests give two that overlap
and one that retries later. Four messages with pages of two give a page that is
cut, one that follows it, and late arrivals inside both. Three devices are the
fewest for a mark to be judged by a snapshot older than the pointer it finds, and three
messages the fewest for the pointer to move on from there before the mark is answered.
Three connections give one that leaves, one that comes and one that overlaps
both. Four calls let an app log in, refresh, log out and log in again, and one fault
meets each of these at every step; with a second one (two kills, each amid the writes
of another login) a storage can hold two logins' tokens, which is what `overlaid` is
for: the invariants of `sessions` hold with two faults as well (1.3 million states), which
is too long for a run that checks `RequestsEnd` too. In
`chat` three messages and pages of one make every walk and synchronization
cross pages, and a queue of one overflows by itself, so that two more
disconnections than `MaxFaults` counts can happen. One conversation is enough
because nothing a transaction does reads another's.

Bounds in guards: `MaxTime`, `MaxId`, `MaxJoins`, `MaxTokens`, `MaxCalls`,
`MaxFaults`, `MaxErrors`, `MaxTroubles`, `MaxChanges`, `MaxLoads`, `MaxMessages`,
and `Spare` in `AppSession`, which keeps calls for
the refreshes of the requests to come. Symmetry is used on transactions, client
ids, connections and synchronizations, and only in runs without liveness.

`CHECK_DEADLOCK FALSE` stands where requests are sent once, or messages,
connections, troubles and calls are bounded or a process exits, and the system
stops when all have ended.

Every module with variables defines a type invariant. `group` checks it as an invariant;
it is part of each inductive invariant of section 4 and so proved for every
instance.

### What the properties leave out on purpose

`MarkCounts`, `ShowsTruth`, `NeverHidden`, `HeldIsUsable`, `SignedOutForgets`,
`OneLogin`, `RequestsEnd` and `ShownOnce` name the cases in which the code does not hold the
promise, and hold in all others; no document of the repository speaks of those
cases. They say: an acknowledged mark can be lost when the pointer has been at a message
that its UPDATE's snapshot did not have; a presence shown can be wrong after a named mishap; a refresh
that is under way while the user signs out brings the session back, and one
that fails after the user signed in anew ends the new session; a storage that fails a
login leaves a signed out app with tokens, one that fails a logout a signed in app
without; an app killed amid a refresh or a save may come back with a token that is used
up; a request that
fails again after its refresh waits for the interceptor that waits for it, and
every later error with it, as with a refresh that is never answered; a disconnect that was not awaited and ends after the
next sign-in forgets the new channel, which then outlives the session
(`OneChannel` excludes it by `crossed`); a connection
that shutdown cuts off after Redis is closed keeps its presence entry until that
expires, and its late error is in no sink; a handshake that is refused is in none
either; a connection whose handler panics stays in the hub; a list changes
without the app being told (group operations publish nothing, a publish or its way
can fail), and after overlapping loads an older answer can be the last shown; a
message whose event is repeated while it is older
than the list is shown twice when its page comes.

### Fairness

Direct conversations: a transaction that can execute its next statement does so
(`WF`): nothing in the code or in PostgreSQL suspends it for ever. Groups: the
same, and strongly (`SF`), because a statement may wait for the conversation's row
or for a member's row that others keep marking as read: PostgreSQL queues the
waiters of a row lock, so a waiter is not overtaken for ever; a mark that holds its
row ends (`WF`). Nothing makes anybody mark. Sessions: some step of the
app's callbacks, of its storage, of the server's statements or of the network is
taken as long as one can be (`WF` of their disjunction, the weakest form): requests,
logins and logouts have timeouts (`connectTimeout`, `receiveTimeout`), so each is
answered or fails. A refresh goes through a client without timeouts: it is answered,
unless `Silence` has taken it, which nothing forbids at any time while it is under
way and which then holds the queue for ever. `life`: `main`
and a handler that is not waiting for its peer go on (`WF`; goroutines are
scheduled, Redis and database calls have timeouts), a loop whose context is done
ends (`WF`), and the hub's lock starves no writer (`SF` of `Register` and
`Unregister`: Go's `RWMutex` lets no new reader in before a writer that waits).
Nothing is assumed of requests: `Shutdown` has its own timeout. `list`: the retry
timer fires, a dial succeeds or fails, and whoever waits for a close that
completes goes on (`WF` each); the model bounds failures, so that a dial succeeds
in the end unless the token is stale or the client is closed, which `Redials`
excludes. The other modules state no liveness and assume no fairness.

### Findings

* `direct_spelling`: the direct key is built from the texts of the ids, so a
  pair can have two direct conversations.
* `history_sync`: a message that commits after one of a later time is older
  than the cursor a client holds, and no synchronization brings it.
* `chat` (`CaughtUpOnline`): the synchronization after a reconnect starts when
  dialing begins and can end before the server knows the connection; what is
  broadcast in between is missed. The property promises only what remains.
* `store` (`RetryAccepted`): `usecase/message/service.go:87` says a retry must be
  able to deliver a stored message; when the storage cannot confirm the image at
  that moment the retry is refused as a conflict. The property promises what remains.
* `life` (`FailuresKept`): `backend/README.md` says every HTTP error is recorded;
  a handshake that `websocket.Accept` refuses is not.

Without a run, since it takes no more than a look at three lines: `README.md:63` and
`frontend/README.md:36` promise an exponential reconnect, but `connect` resets the count
of attempts before the dial has succeeded, so that a native build dials every second.
The delay grows only where making the channel throws, in a build that cannot connect at
all (`Connect` and `Schedule` in `RealtimeClient`).

## 4. Proofs

`GroupMembershipProofs` proves, for any sets of users, conversations,
transactions and requests, that `IInv` is inductive (`Invariance`) and from it
`TypeOK`, `OneOwner`, `Linearizable`, `DirectFixed`, that every step is a step of
`GroupRules` or none (`Refinement`) and, with `LockInv`,
`RowsUncontended`. The
assumptions are the modules' `ASSUME`s: users are ids, requests are well typed
and close under the choice of a conversation's id, `None` is no transaction.

`OneOwner` alone is not inductive: the step that commits writes what the
transaction decided statements earlier. `IInv` adds, per transaction (`TxInv`),
that it has locked its group (`Holds`), that the checks made so far still hold
of the committed rows (`Checked`), and that its uncommitted rows are the part
of `After` written so far (`Progress`); and that two transactions never create
the same conversation. `Frame` and `Others` show that a step leaves the other
transactions' parts alone, because a commit only touches a conversation they
neither hold nor create; `LockInv` says that whoever has locked rows of a
conversation has locked the conversation or is marking one row as read. So no
transaction on groups waits at a member's row for another, in whatever order it takes
its rows, and the marks it may wait for wait for nobody (`RowsDoNotDeadlock`); `OwnStep` goes through the statements one by one;
`CommitPerforms` turns the invariant at "commit" into one step of `GroupRules`.

`MessageHistoryProofs` proves, for any users, clients, page size and order of
arrival, that the module's `IInv` is inductive (`HistoryInvariance`) and from it
`TypeOK`, `NothingSkipped`, `NothingRepeated` and `SyncedUpTo`. The properties
are stated about the cursors of the moment, which makes them nearly inductive;
`IInv` adds what a page's own step needs: that the log is finite and ids are
unique in it, that whatever was received or remembered and every cursor comes
from it (`Grounded`), and that the walk has brought nothing beyond its cursor
(`WalkedToCursor`), without which a page could repeat a message. The lemmas before it are the
order's laws (`PrecedesTransitive`, `PrecedesTotal`) and what a page cut at its limit
is (`CutOffIsOlder`, `CutPageNotEmpty`); then there is one lemma per statement.

`ServerLifeProofs` proves, for any requests, connections and queue, that `LifeInv`
is inductive (`LifeInvariance`) and from it `TypeOK`, `NothingPulledAway`,
`FailuresKept`, `LeavesNothing` and `ClosedAtExit`. The properties speak of what is
open while something is in progress; the invariant adds what is open at each point
of `main` (`OpenNow`), that nothing is in progress at the HTTP server once `main`
closes and connections were told before (`Ordered`), that an error is answered once
(`FailsOnce`), and what a connection holds in each phase (`HeldWhile`). The proof
uses that `main` leaves tasks alone and tasks leave `main` alone.

`ConversationListProofs` proves, for any number of channels, troubles, changes and
loads, that `LinkInv` and `ListInv` are inductive and from them `OneChannel` and
`ListTrue`. `OneDial`, the heart of `LinkInv`, says that
the only live channel is the current one, that no retry is pending beside it, and
that a closed client has neither; it holds as long as no disconnect has `crossed`
a sign-in, and a disconnect that waits for the current channel keeps the client
closed. `ListInv` says that the newest version the app was told of is shown or on
its way, and that a load that is alone brings what is as new as anything shown.

`DirectConversationProofs` proves, for any users, ids, spellings and requests,
that `IInv` is inductive (`DirectInvariance`) and from it `OnePerPair` and
`AnswerUsable`. `Unique` says that a committed conversation has the members its key
names and its key for itself, `TxInv` that what a transaction has inserted is
committed by nobody else and what it found is, `Apart` that no two open
transactions hold one key: the second waits at the unique index. `AnswersUsable`
holds in any spelling; `NoDuplicates` assumes `Spellings = {Canon}`, without which
`direct_spelling` refutes it.

`AppSessionProofs` proves, for any number of calls, tokens, requests and failures,
that `AppInv` is inductive (`SessionInvariance`) and from it `OneActive`,
`LogoutFinal`, `HeldIsUsable` and `SignedOutForgets`. The server's half is
`ServerInv`: tokens are issued in order, of one login one is active (`Lineage`), and
a refresh that has passed its conditional UPDATE holds the only right to its token
(`CallInv`). It is proved apart (`ServerKeeps`), so that the app's steps need only
leave the server alone. The app's half says that the storage becomes what the memory
is once the writes under way are done, unless one has failed and nothing was kept
since (`StoreInv`, `WillBe`), who waits for which call and which write
(`Waiting`), that a token on its way to the app is usable and used by nobody
(`OnItsWay`), and that the token the app holds is usable unless a call that will
replace it is under way (`Holds`). `HeldIsUsable` is the last once all is at rest. A save
or clear makes all of it true again, whatever was wrong before (`KeepKeeps`), which is why
mishaps end with the next login or logout; a restart at rest reads what is in memory
anyway (`RestartKeeps`).

`MessageStoreProofs` proves, for any senders, uploads, texts, requests and times,
that `IInv` is inductive (`StoreInvariance`) and from it `AnswersStored`,
`RetryAccepted`, `UploadsSettled` and `ImplementsLog`. A request's statements rely on
one another over the steps of others: what it has inserted is still free of
conflicts (`NewInv`), what it found still repeats its own question (`FoundInv`), and
the upload it has claimed is still nobody else's (`ClaimInv`); `Apart` keeps two
open requests off one key, one id and one upload. `OthersKeep` and `LocalStep` carry
the requests that do not move; `CommitKeeps` is where the rows change for all.
`CommitAppears` maps the commit of a new message to one step of `MessageLog` and
`OthersUnseen` everything else to none. `RetriesAreAccepted` assumes that clients
spell the conversation's id as PostgreSQL does, since `Reload` compares it as text.

`ChatViewProofs` proves, for any page sizes, queue, number of messages, failures and
overlapping synchronizations, that `IInv` is inductive (`ViewInvariance`) and from it
`NoGap`, `ShownOnce` and `CaughtUpOnline`. `NoGap` needs the same of every cursor a
synchronization under way carries (`Cursors`), and `Pages`, that an older page is
asked for where the list begins, so that it fills what it uncovers. `Copies` says
that what the list has from before its beginning came as an event, and that an
unacknowledged message is not in it. `Covered` says of each message since the end
of a synchronization that it is shown or still `Coming`: its publish is due, it is on
the bus or in the queue. `Sound`, `Grows` and `Keeps` state what the view needs of
`Delivery`, with a lemma per step of it; `Delivered` takes them to the view at once.

`SomeSendGoesOn` proves `NoCircle`, that among the sends under way one waits for nobody:
`KeyFree`, `UploadFree` and `ConversationFree` are the guards the statements wait at, and
a send takes its key, then its upload, then the conversation's row. The invariant gives
the order (`ClaimInv`: who has claimed an upload is past the claim), and
`FurthestGoesOn` takes the send that is furthest. `StillThere` adds that a send which
found its key taken finds the message under it. The run checks the same as
`Unblocked`, with `ENABLED`.

`ConversationListProofs` proves of `ReadPointer`, for any readers, devices, messages and
order of arrival, that `ReadInv` is inductive (`ReadInvariance`) and from it `ReadTypeOK`,
`NeverBack`, `MarkCounts` and `UnreadShrinks`. What an UPDATE decided must still be right
when it commits: `WriterInv` says that the writer of a row is alone, since it holds the
row's lock, and that the pointer it found has not moved; `OutdoneInv` says of a mark that
changed nothing that its row is gone or that the pointer is, and stays, at or behind a
message that outdoes it. The attempt to prove `MarkCounts` corrected it: it
used to say that the pointer of such a mark is *at* a message which appeared after the
snapshot. With a third device it can have moved on from that message before the mark is
answered, and still be short of the mark; the run, which had two messages then, has
three now and shows it. `UnreadShrinks` also needs that the log is finite
(`FiniteLog`), to compare the two counts.

`DirectConversationProofs` proves of `Presence`, for any connections and number of failures, that
`PresenceInv` is inductive (`PresenceInvariance`) and from it `PresenceTypeOK`, `ShowsTruth`,
`NeverHidden` and `OfflineIsLast`. The properties speak of a quiet state; the invariant
follows the news there. `Recorded` and `NothingLeft` say which entries the set has for
which connections; `NewsOfComing` and `NewsOfGoing` that the last announcement or event
under way tells whether the set is empty, and, when none is, that the observer shows it
or has it in a snapshot still to be queued. Each is relative to the mishaps that break
it. `OneEach` keeps the queue of announcements and the phases of connections in step.
The lemmas go from the queue (`QueueOneMore`, `QueueOneLess`) to the news: a step
either leaves them (`NewsStill`), adds the last (`NewsAnnounced`), hands the last on
(`NewsMoved`) or is a mishap (`NewsLost`).

Two components share each of these two proof modules without sharing a variable: every
theorem names the specification it is about (`Spec`, `ReadSpec` or `PresenceSpec`), and
uses only that component's assumptions.

What is only model-checked: liveness (`Answered`, `Ends`, `RequestsEnd`, `WindsUp`,
`Redials`), for which the prover has no rule, `Unblocked`, which speaks of `ENABLED`
(its content without that is `NoCircle`, above), and `OneLogin`, whose invariant would
have to follow every storage write of every login a crash leaves behind. Every other
property of a passing run is proved for all values of the constants. Of the two violations there is nothing to prove.

## 5. Plan

Done, as what the product cannot do without: who belongs to a group, one stored
message per send, what readers get, who is signed in, what a chat and the list of
conversations show, the life of a process and of the app's connection.

Next to model, in this order:

1. Members leaving while messages are sent, listed and delivered
   (`GroupMembership` with `MessageStore` and `Delivery`).
2. `ServerLife` with `Presence`: who is left online after a restart, across
   processes.
3. The typing indicator and the read marks of an open chat.

Next to prove: `OneLogin`, and what these compositions promise. Every other safety
property checked today is proved.

## 6. Not modelled, and why

* Profiles, search, media URLs: single reads and signatures, without state of
  their own. An upload's row is in `MessageStore`.
* Routing, status codes and the texts of errors: stateless. What is recorded of
  an error is in `ServerLife`.
* Reading the configuration: a start that fails stands for it.
* The user interface: its decisions are those of the cubits.
* Typing events and the read marks a chat sends: they carry no state that a later
  event does not replace. `conversation.updated` is in `ConversationList`.
* `backend/docs/docs.go`: generated from comments.
* `cmd/mcp`, `usecase/ai`, `infrastructure/ai`: placeholders without code.
* Passwords, signatures and the days until a refresh token expires.
