# A verification project for the secure social messaging app

The repository holds a Rust backend (`src/backend`: axum, sqlx over PostgreSQL, tokio) and a
Flutter client (`src/lib`). This directory models the parts whose correctness depends on the order
in which several actors act, model-checks them with TLC on small instances, and proves the main
results with TLAPS for every value of the constants.

## 1. Inventory

| part | state | operations | interacts with |
|---|---|---|---|
| Message store (`postgres_message_repository.rs`, `message.rs`, `20240101_init.sql`) | tables `messages`, `message_reactions`, `message_read_receipts` | `create`, `update`, `delete` (soft), `mark_as_read`, `add_reaction`, `delete_expired` | users (foreign keys), hub, cleanup job |
| Self-destruct job (`message_cleanup.rs`) | none but its interval | one DELETE a minute, errors logged | message store |
| WebSocket hub (`chat_ws.rs`, `main.rs`) | one tokio broadcast channel; per connection a receiver, `send_task`, `recv_task` | connect, read a frame, send a message, relay a frame, lag, abort | pool, message store, clients |
| KYC (`submit_kyc.rs`, `review_kyc.rs`, `postgres_kyc_repository.rs`) | table `kyc_requests`, `users.is_verified` | submit, review | user repository, S3 (presigned URL) |
| Users, registration, login, OTP, JWT (`auth/*`, `postgres_user_repository.rs`) | table `users`, tokens | register, login, verify OTP, upload a public key, update, delete | all handlers |
| Router and middleware (`app_router.rs`, `auth_middleware.rs`) | none | accept or refuse a call | all handlers |
| Location, subscriptions, device tokens, S3, Redis, chain, FCM | columns of `users`; none of their own | one statement or one outside call each | users |
| Client WebSocket (`websocket_service.dart`) | channel, `_isConnected`, timers | connect, listen, reconnect, disconnect | hub, token storage |
| Client session (`api_client.dart`, `auth_repository_impl.dart`) | stored token | register, login, logout, requests, 401 interceptor | backend, secure storage |
| Client E2EE (`sodium_crypto_service.dart`) | key pair | generate, upload, encrypt, decrypt | backend, secure storage |
| Client wallet (`wallet_repository_impl.dart`, `wallet_providers.dart`, `wallet_screen.dart`) | mnemonic, key, address, PIN | load, create, set the PIN, send | secure storage, chain |
| Screens, themes, navigation | widget state | layout | providers |

What is hard: the tasks of one connection end each other by abort; each `await` of a frame's handling
lets every other connection, the cleanup job and PostgreSQL run; a receiver may lag behind the
channel; a statement may commit and its answer be lost; the use cases read, decide and write in
separate statements without a transaction; handlers are dropped when a client hangs up; the client's
timers and late responses meet newer state.

What makes each part correct:

* **Message store** - nothing dangles, threads have a beginning, the purge takes what has expired and
  nothing else, and in the end everything that has expired goes.
* **Hub** - a chat message is stored before anybody sees it; each client sees a gapless run of one
  common order; a client's own messages keep their order; nothing is repeated; no task, socket or
  frame is forgotten.
* **KYC** - who is verified has been approved; a decision is final; one open request per user; a
  review does not touch the rest of the user's row.
* **Users and router** - a phone number has one user, a token names the user whose password was given,
  exactly the intended routes are public.
* **Client session and keys** - a session that works is not ended by somebody else's 401, the stored
  halves belong to one pair, the server files a key under its owner and knows the key that is stored.
* **Client WebSocket** - nothing is sent to a dead channel, channels and timers do not multiply, the
  client comes back online.
* **Client wallet** - a wallet the user has seen is never overwritten, and has its PIN.

`PROJECT.json` lists every component and every hazard with its line.

### How the source is read

The backend at this commit does not compile; the intent is clear each time and is what is modelled:
`avatar_url` is declared twice (`user.rs:12-13`), `update_location` is declared twice in the repository
trait (`user_repository.rs:15-16`), `ReviewKyc::new` is called with one argument (`main.rs:96`) where
the struct takes the two repositories its `execute` uses, `Message` lacks `Serialize`,
`WebRtcSignal` is not imported in `chat_ws.rs`, `DomainError::EntityNotFound` is not defined, and
`update_subscription` is called and not defined, so that what a subscription changes cannot be read from
the source and is not modelled.

The client has gaps as well. `auth_providers.dart` imports files that do not exist, so nothing on the
screens reaches `AuthRepositoryImpl` yet, and nobody in `lib` calls `WebSocketService`: the models take
the two at their interface and let every order of calls happen. The client reads other fields than
the backend answers (finding 5). `ClientSession` therefore takes the fields of the answer as a constant:
run `client_session` gives it the fields the client reads, so that what comes after the answer is
reached, and run `client_login` those the backend sends. The routes that the middleware guards are the
constant `Guarded`, which both runs set to what the source does (finding 4), and since nobody then gets
a first token from the server, the runs give the client one from outside (`Bootstrap`).

## 2. Modules

| module | models | kind |
|---|---|---|
| `MessageStore` | the three message tables, user deletion, the self-destruct job, the clock | component |
| `MessageStoreProofs` | theorems about it | proofs |
| `OrderedBroadcast` | what the hub promises to a client | abstract specification |
| `ChatHub` | connections, both tasks, `select!`, channel, pool, INSERTs | component |
| `ChatHubProofs`, `ChatHubOrderProofs` | types, delivery and a frame's way; order, aborts, refinement | proofs |
| `ChatBackend` | the hub, the store and the cleanup job on one database, as `main.rs` wires them | composition |
| `ChatBackendProofs` | theorems about it, and those of its two parts carried over | proofs |
| `KycReview` | submissions, reviews and the user row they share with key uploads | component |
| `KycReviewProofs` | theorems about it | proofs |
| `PhoneRegistry` | what registration and login promise | abstract specification |
| `Accounts` | registration, login, tokens, the auth middleware as the router applies it | component |
| `AccountsProofs` | theorems about it | proofs |
| `ClientSession` | the client's token and key pair, its calls, both interceptors, and the server's side of a key upload | component |
| `ClientSessionProofs` | theorems about it | proofs |
| `ClientSocket` | `WebSocketService`: attempts, channels, callbacks, timers | component |
| `Wallet` | the four entries, `WalletController`, the wallet screen | component |
| `WholeWallet` | what the user may rely on about the wallet of a device | abstract specification |
| `ClientApp` | `ClientSocket` and `Wallet` in one process that is killed as a whole | composition |
| `ClientAppProofs` | theorems about `ClientApp` | proofs |
| `MCMessageStore`, `MCChatHub`, `MCChatBackend`, `MCKycReview`, `MCAccounts`, `MCClientSession`, `MCClientApp` | model values, symmetry | instances for TLC |

Definitions under the comment "Faulty:" are variants of the definition that follows, with a plausible
mistake in them. The specifications never use them. They stand for bugs that the properties must
notice: with the variant in place of the original, TLC finds the named property violated.

### MessageStore

A table is a set of records; one SQL statement is one step, as PostgreSQL makes it atomic and undoes
it when a constraint fails. `BuildMessage` (the use case up to `create`) and `InsertMessage` are
two steps, since `create` waits for a pooled connection in between: the clock moves, the reply's target
may be purged, its sender deleted. `delete_expired` is the one DELETE with its cascades and with the
check of `reply_to_id`, whose foreign key has no `ON DELETE` action; `CleanupRuns` and `CleanupFails`
are the two outcomes of a tick of the job. Message contents are model values, and columns nobody
reads are left out. `NOW()` and `Utc::now()` are one clock: the session's time zone is taken to be UTC,
because the columns are `TIMESTAMP` without zone.

### ChatHub

A step is the code between two awaits of one task. `recvTask` and `sendTask` are the tasks' program
counters; `log` is every value ever sent through `AppState.tx`, of which the channel keeps the last
`Slots` (`channel(100)` keeps 128); `pos` is the receiver's position; `insert` is the life of one INSERT:
waiting for the pool, with PostgreSQL, committed, committed but unreported, failed, abandoned.

* `tx.send` cannot fail, since `main.rs` keeps the first receiver for as long as it runs.
* An abort takes effect at the aborted task's next await, and `handle_socket` does not wait for it: it may
  return while the sibling still finishes its current poll. `Select` stands for the moment when both tasks
  have ended; until then the sibling may go on with its steps. Nothing is said of what a task does
  after `handle_socket` has returned.
* An INSERT that is with PostgreSQL runs on after the task is aborted; one that waits for the pool is
  given up.
* A frame is a token that is sent once; whether a frame parses and whether its delay overflows
  (`with_self_destruct` panics) is chosen when it is read.

### ChatBackend

The variables of `ChatHub` and of `MessageStore` (an instance whose message ids are the hub's texts) stand
side by side, and a step that concerns both is a step of both: `SendMessage` is the hub's `ReadText` and the
store's `BuildMessage`; `Inserts` commits the hub's INSERT and writes the row; `InsertRefused` and
`Disconnects` end an INSERT and leave none. `HubStep` and `StoreStep` are the rest. `message` and
`conversation_id` keep, as history, what each frame became.

* The id of a message is made by the server and told by its broadcast alone, so a client names in
  `reply_to_id` only messages some client has heard (`Known`). This is what honest clients can do; nothing
  is said of a client that guesses ids.
* The socket asks for a signed token and for nothing else, and a subject that is no UUID becomes the nil
  UUID (`chat_ws.rs:76`). `UserOf` is therefore any id, and the table `users` may hold any of the ids when
  the system starts, or none: a deleted user, or a token signed outside the server, sends messages that
  the foreign key of `sender_id` refuses. Theorem `StrangersUnheard` says that nobody ever hears them.
* `main.rs` wires `create` and `delete_expired` and no other writing operation of the two repositories, so
  the edits, soft deletions, receipts, reactions and user deletions of `MessageStore` are not steps here.
* Nothing in the program inserts into `conversations`, to which every message refers. Its rows are the
  constant `Conversations`; the run takes a table somebody else has filled, and theorem
  `NothingWithoutConversation` says what happens otherwise.

### KycReview

Each repository call of `SubmitKyc::execute` and `ReviewKyc::execute` is one statement and one step;
calls end at any of them (`SubmitEnds`, `ReviewEnds`): the statement fails, the client hangs up, the
server stops. A statement that commits after its handler was dropped is the same as one that commits
just before. History variables (`raced`, `contested`, `partial`, `exposed`, `lastKey`) record which
overlaps happened, so that the properties can say that nothing but these overlaps does harm.

### Accounts

`pc` is where a call of `RegisterUser` or `LoginUser` awaits; `find_by_phone` and the INSERT are steps of
their own, and between an INSERT and the answer (`Insert`, `RegisterAnswers`) the call may fail, which
leaves a user whose client was told of an error. `Fails` may end a call anywhere. `Begin` is
`auth_middleware`: the layer at `app_router.rs:24` covers all routes added before it, so register and
login are behind it too. `Bootstrap` is the set of tokens somebody who knows `JWT_SECRET` has signed by
other means; the middleware does not look whether a token's subject exists, and with no such token
nothing can happen at all (theorem `NoFirstUser`). A token records the arguments of the call that got it,
as history. `contested`, `duplicate` and `refused` are histories as well.

### ClientSession

A step is the code between two awaits of Dart: a read or write of the secure storage, or an HTTP
exchange. `call[c].pc` is where a call awaits, and `StoreToken`, `CheckKeys`, `WritePrivate`, `WritePublic`,
`SendUpload` are the statements of `register` and `login` in their order; every other request of the client
(`verifyOtp`, `getCurrentUser`, `getUserPublicKey`) is `StartRequest` and its answer. Nothing in the repository
stops a second call from starting while one runs, so calls interleave.

* The token in the header is the one stored when the request is sent (`onRequest`), not the one the call
  was given, and a 401 deletes whatever is stored when it arrives (`onError`).
* Only the middleware of the backend answers 401, to a register or login of `Guarded` as well
  (`ServerRefuses`), and the client deletes its token for any of them (`Refused`). Every error of a use case
  becomes a 500, which the interceptor ignores (`CallFails`).
* An upload may be served, refused or lost, before or after its call has given up.
* `Crash` ends all calls and keeps the storage. `OtherDevice` is the same account on another phone.
* Histories: `maker` (whose key), `raced` (keys of overlapping calls), `torn` (pairs broken by a register
  that stopped between its writes), `crossed` (the stored token was stored while a request was unanswered),
  `confirmed`. The properties say that nothing but the overlaps they record does harm.

### ClientSocket

`connect` looks at `_isConnected` and then awaits the token: `asked` and `found` count the calls that are
past the check, which may be several. Each channel has a listener of its own, but all share `_isConnected`
and `_channel`. `latest` is the state of the channel in `_channel`; of the others, which no code tells apart,
`older` counts how many are in which state. A channel that ends sets a timer; one that ends with an error sets
two, since `onDone` follows `onError`; between the two callbacks, and between `disconnect` and the `onDone` it
causes, the channel is "ending". `OpenFails` is the `catch` around the opening. `disconnect` closes the latest
channel and cancels nothing, so its `onDone` reconnects like any other. Whether that is what the author
wants cannot be told from the repository, where nobody calls it; `wanted` records, as history, that the
app has called `connect` and not `disconnect` since, and what is promised about coming back online is
promised only then. The token is a Boolean here; `ClientSession`
says when it changes.

### Wallet and ClientApp

A wallet is the number of the dialog that made it; an entry holds the number of the wallet it belongs
to. `ConfirmPin`, `WriteMnemonic`, `WritePrivateKey`, `WriteAddress` and `SetPin` are the awaits of the button's
callback in their order; the tap and the dialog's confirmation are one step, because the dialog is modal
and nothing else can be tapped in between. A failed write leaves the controller in an error and the callback goes on to the PIN
(`WriteFails`); a screen that was left meanwhile makes `ref.read` throw and the PIN is not set
(`SetPinFails`). `ClientApp` interleaves the two services and gives them one `Crash`.

## 3. Runs

| run | instance | what it shows |
|---|---|---|
| `store` | 2 messages, 1 user, 1 reaction, delays -1 and 0, clock 0..1, fair job and clock | references, acyclic threads, exact purge; an untimed reply stops the purge for good; an expired message goes unless a live reply blocks; a table of timed messages empties |
| `store_purge_claim` | as `store`, no reactions | **violated**: an untimed reply keeps its expired parent for ever |
| `hub` | 2 connections, 1 text, 1 relayed frame, 1 slot, 1 pooled connection, fair tasks | the hub is an ordered broadcast; values arrive or the connection ends, tasks end together, frames are handled |
| `chat_backend` | 2 connections of one account that is a user or not, 2 texts that may reply to one another, delay 0, clock 0..1, 1 slot, 1 pooled connection | stored before broadcast, order kept, one message at most unannounced; what was shown stays until it expires, threads are heard in order, a refused message has a sender who is no user or an expired target |
| `kyc` | 1 user, 2 keys, 2 submissions and 2 reviews at a time, 3 requests | harm comes only from the named overlaps |
| `kyc_decision` | as `kyc` | **violated**: the later of two overlapping reviews replaces the decision |
| `kyc_one_open` | as `kyc` | **violated**: two overlapping submissions both insert |
| `accounts` | 3 ids, 1 number, 2 passwords, 2 calls, one first token, clock 0..2 | right tokens, duplicates only by a race, lockout, refinement of `PhoneRegistry` |
| `accounts_public` | as `accounts` | **violated**: register and login are refused without a token |
| `client_session` | 2 accounts, 2 overlapping calls, guarded routes, 3 tokens of which one from outside, 2 key pairs | a working token is dropped, a pair torn, a key misfiled or out of date only by the named overlaps; a failed upload is never made good |
| `client_login` | as `client_session` with 1 call and the backend's fields | **violated**: an accepted login stores no token |
| `client_app` | 2 calls of connect and 1 error per run of the app, 2 wallets, kills | one channel per cause, back online while that is wanted, the wallet made whole and once (refinement of `WholeWallet`), a PIN is missing only after an interruption |

**What the runs leave to the proofs.** A run checks the strongest form it has and not what follows from it:
`NothingSkipped` from the refinement of `OrderedBroadcast`, `OneUserPerPhone` from that of `PhoneRegistry`,
`ShownWalletKept` from that of `WholeWallet`, the types of hub and store from `BackendTypeOK`. Each of
these is still a theorem of its own. The safety properties of the hub are checked in `chat_backend`, where
INSERTs are refused for the store's reasons as well.

**Bounds.** The safety properties of all passing runs are also proved without bounds (section 5); the
bounds matter for the liveness properties and for the violations. `MaxTime` ends the clock, and
`BuildMessage` lets no timer run out at or after it, so that the end of the clock keeps no message alive.
A dangling link, a cycle and a blocked purge need two messages. One slot makes a receiver lag with
two values (in `hub` a text and a relayed frame, in `chat_backend` two texts); one pooled connection
makes the second INSERT wait. Two texts make a reply and its target, and delay 0 lets a target run out
before, while or after its reply is written, or never. Two connections suffice for every
interaction, which is always between a sender and one other. Each frame is sent once, so the logs are
bounded by the frames. `MaxRequests` = 3 gives a rejected request followed by two racing ones. In
`accounts` three ids let a number be registered, deleted and registered again beside a call that lost the
race; a second number shares nothing with the first but ids. `Lifetime` = 1 lets a token be renewed
once before `MaxTime` = 2 and then run out. In `client_session` the token from outside and two more let
one be stored while an older one is refused, also where the refused call is a login, and two key pairs
let one replace another; every property relates at most two of each. In `chat_backend` both connections
use the same account, which is a user or is not; a user and a stranger side by side are left to theorem
`StrangersUnheard`. In `client_app` one error already gives two timers and two channels at once, and a
second call lets a `connect` follow a `disconnect` whose callbacks are still to come; `MaxConnects` and
`MaxErrors` count anew after a kill, so a run has any number of connects and errors. A second wallet is
what could overwrite the first.

**Deadlock** is not checked: the clock stops, clients need not send, connections close for good, and
the request numbers run out. It is checked in the three client runs, whose systems never stop: the
token changes, another device logs in, the app is killed. That nothing waits for ever is what the
liveness properties say.

**Fairness.** The job's loop never ends and its interval fires each minute (`message_cleanup.rs`), so
its two outcomes and the clock are weakly fair. Tokio polls every task that can go on, so each
connection's tasks and its `select!` are; PostgreSQL, or the pool's acquire timeout, answers each
INSERT. A client is assumed to read its socket while its link is up: the code has no write timeout, and
a client that stops reading holds its connection open (see the hazards). Users, clients and broken
links are never fair. In the client, Dart's event loop runs each timer and callback that is due:
while a timer, an answer of the storage, an attempt or an `onDone` is due (`Due`), one of them, whichever it is,
comes at last, with the server's `Accept` among them. So the service does not stop, and no more than that
is assumed. That a channel is accepted or ends holds because errors are finitely many while the app lives
(`MaxErrors`) and the premise of `OnlineAgain` leaves no more calls of `disconnect`. Nothing
is fair about a close by the server, about errors, or about what the app and its user do.
After infinitely many kills the premise, that the app wants the connection, does not stay. Nothing is
promised about the wallet finishing: `getBalance` has no timeout.

## 4. Findings

1. `reply_to_id` has no `ON DELETE` action, so one live reply to an expired message makes PostgreSQL
   refuse the whole purge, in every conversation, each minute (`store_purge_claim`). What does hold is
   `ExpiredPurgedOrBlocked`, and `TimedMessagesPurged` when every message has a timer. One reply without a
   timer is enough, and for good: `PurgeStopsForGood`, and theorem `BlockedForGood`, which says that from
   then on the statement can never succeed again.
2. `ReviewKyc` checks the status it read first and writes without a condition last, so a decision is
   not final when two reviews overlap (`kyc_decision`). `DecisionChangesOnlyByRace` says that this is the
   only way, and theorem `ReviewsInTurnAreFinal` that reviews one at a time would mend it.
3. `SubmitKyc` checks and inserts in two statements and no unique index backs the check
   (`kyc_one_open`). `SecondRequestOnlyByRace` says which overlaps it takes, and theorem
   `CallsInTurnLeaveOneOpen` that calls one at a time would mend it.
4. `route_layer` in `app_router.rs:24` puts the auth middleware before register, login and verify-otp, which
   the comment in line 14 leaves out of the protected routes (`accounts_public`). The consequences are
   theorems: `NoFirstUser` and `LockoutForGood`.
5. `AuthRepositoryImpl` reads `token` and `user` from an answer that has `access_token` and `user_id`
   (`auth_dto.rs:24`): an accepted login stores nothing and is reported as a failure (`client_login`), against
   the "complete flow" of `README.md:27`. The theorems `NoTokenNoSession` and `NoUserNoKeys` say what that
   comes to: such a client never has a session or a key pair, whatever it calls.

Three results that hold are worth knowing beside these. `FailedUploadIsFinal`: a key pair whose upload failed
is found by every later login and never uploaded again. `OneLinePerCause` is tight: each channel that ends
with an error can leave one more reconnection, until one of the timers finds `_isConnected` set and ends
there. `OnlineAgain` holds with a `disconnect` before the last `connect`, whose timers and callbacks are
still to come: no race among them leaves the client offline.

## 5. Proofs

All theorems assume only the named `ASSUME`s of the modules: disjoint kinds of frames, NULL outside
the ids and the integers, "no user" and "no key" outside the users and keys. The other named
assumptions give the bounds their types. Every safety property of every passing run is a theorem.

**ChatHub.** Every safety property of the hub is proved for any number of connections, frames,
slots and pooled connections. The argument is a chain of inductive invariants:

* `TypeInv` adds to `TypeOK` what a task has in hand while it awaits (`InHand`); without it the value
  that is written next might not exist.
* `RunInv` relates `start`, `pos` and `delivered` (`RunOf`). `NothingSkipped` does not mention the
  receive position and is not inductive by itself. Steps that only end things keep it (`QuietKeepsRun`).
* `FrameInv` follows a frame: it sits in one place of one connection (`SentOnce`), is inserted or
  broadcast only after it was taken (`TakenFirst`), is stored once (`StoredOnce`) and broadcast once
  after it is stored (`LoggedOnce`). It yields `PersistedBeforeBroadcast` and `NoDuplicates`.
* `LifeInv` and `LastOnly`: what is unfinished belongs to the last frame taken, and its `recv_task` is not
  reading. It yields `OnlyLastUnbroadcast`, and with `FrameInv` that `OrderKept` is inductive.
* `HubImplementsBroadcast`: under `Membership` every step is a `Join`, `Publish`, `Hear` or `Leave` of
  `OrderedBroadcast` or a stutter. `Publish` needs that a value is not in the log yet (`FrameInv`), `Hear`
  that the value written is the next one (`RunInv`).

**MessageStore.** `TypeOK`, `KeysUnique`, `ReferentialIntegrity` and `RepliesAcyclic` are inductive
together (`StoreInv`): a new row closes no cycle because, keys being unique and references sound,
nothing in the table replies to it yet. The UPDATEs share one lemma about rows changed in place
(`InPlace`). `PurgeIsExact`, `TimerAndThreadFixed` and `FirstReadKept` follow from the same invariant. For
`PurgeStopsForGood` it is enough that timers and threads are fixed and that expired rows stay expired:
whatever the step, the reply without a timer and its target are still there, so the DELETE fails.

**ChatBackend.** Every step of it is a step of the hub or a stutter, and likewise of the store
(`BackendImplementsHub`, `BackendImplementsStore`). What is proved of either alone therefore holds of the two
together (`BackendKeepsHub`, `BackendKeepsStore`); the store's theorems are those of `MessageStoreProofs`,
instantiated with the hub's texts as ids. What neither can say is a matter of how their states go
together, and needs an invariant that couples them:

* `Linked`: the rows on their way to the table are the messages whose INSERT has not ended, every row of
  the table is the message of a text whose INSERT has committed, and the message of such a text is in the
  table or has expired. This holds at the moment of the commit because both parts move in one step, and
  stays because the only thing that removes rows is `delete_expired`, which takes expired ones only. With
  `PersistedBeforeBroadcast` it yields `ShownUntilExpired`.
* `Threaded`: the target of a reply was broadcast before the reply was read, hence comes before it in the
  log. With `RunInv` of the hub it yields `ThreadsInOrder`, and with `Linked` `RefusedOnlyForCause`: a target
  that was broadcast was stored, so if it is not in the table it has expired.
* `Filed`: a stored text names a row of `conversations` and its sender is a row of `users`. Without
  conversations nothing is stored, and then nothing is broadcast (`NothingWithoutConversation`); of a
  sender who is no user nothing is stored or broadcast either (`StrangersUnheard`).

**Accounts.** `IdInv` says whose an id is: a call's from `User::new` until the INSERT, the row's for good
afterwards. `TokenNamesItsUser` alone is not inductive, because it does not exclude that a call awaiting its
INSERT has the id of an existing token. `RaceInv` says that a call whose check is out of date shares its
number with another call past the check, which yields `DuplicateOnlyByRace`. `AccountsImplementRegistry`
maps the table to `holder`; that this is a function needs `OneUserPerPhone`.

**KycReview.** `BuiltInv` says that a request a call has built is its own until the INSERT. On it rest four
arguments. `WrittenInv` (a review about to write "Approved" has verified the user) makes `ApprovedIsVerified`
inductive. `ContestInv` (a review whose status check is out of date, or which shares its request, has
been recorded in `contested`) gives `DecisionChangesOnlyByRace`, and with it `VerifiedHasCause`. `CopyInv` (a copy
of the user that is out of date has met an upload) gives `KeyKeptUnlessExposed`. `SecondRequestOnlyByRace` needs an
order: `find_by_user` looks at the latest request alone, so `OlderSettled` says that without a race all
requests but the latest are settled, and `CheckedInv` that all are while a submission is past its check.
The two claims that the runs refute are proved under the hypothesis that calls come one at a time
(`ReviewsInTurnAreFinal`, `CallsInTurnLeaveOneOpen`): `contested` and `raced` then stay empty. A review may
still run beside a submission and beside key uploads, and every call may stop at any statement.

**ClientSession.** `TypeInv` adds to `TypeOK` what each call has in hand (`InHand`) and that everything in use
was issued or made (`InUse`); `FailedUploadIsFinal` follows from it alone. Then, as inductive invariants:
`OverlapInv` (calls in progress together are marked), `UniqueInv` (a key is in one call's hands, and not
uploaded before its turn), `LateInv` (the stored token is the one an unanswered request carries, a register or login
included, or was stored beside it) for `TokenDroppedOnlyByLateAnswer`, `PairInv` for `PairTornOnlyByRegister`, `SoloInv` (a call that ran beside no
other uploads under its own token) for `KeyMisfiledOnlyByOverlap`, and `FreshInv` with `KnownInv` (the server has,
or is being sent, no key of the account but the stored one) for `ServerKeyStaleOnlyByKnownCause`.
`CallsInTurn` takes a client that makes one call at a time: no overlap is ever recorded (`InTurn`), and the
properties hold without their exceptions, late uploads of calls that gave up included.
`KeysFiledRightly`, `ServerKeyIsKnown` and `CallsInTurn` assume `OwnTokens`: the answer has a token, or there is
none from outside. Otherwise a call would upload its key under a token that is not its own.
`NoTokenNoSession` (`OldTokensOnly`), `NoUserNoKeys` (`Keyless`) and `GuardedOut` are about the fields of the answer and
the guarded routes and need no more than `TypeInv` beside an invariant of their own.

**ClientApp.** The two services share no variable, so each theorem is about one of them under kills of
both. `WholeInv` says that the three entries are those of one wallet whenever there is an address,
`CreateInv` that a creation only runs while there is none; together they give `ShownWalletKept` and
`WalletMadeWhole`, the refinement of `WholeWallet`: the address is the last write, so mapping the entries to
"no wallet" until it is there makes `WriteAddress` the one step that makes the wallet and every other
write a stutter. `PinInv` gives `PinMissingOnlyByInterruption`. For the socket,
`OneLinePerCause` counts everything that is or will become a channel, an ending channel for the timer it will
set, and is inductive beside the types; `BecomesStep` says what each event does to the number of channels.
`OfflineHasACause`: after `connect` something is left that reconnects, until an attempt finds no token or `disconnect` is called.

**Only model-checked.** The liveness properties (`ExpiredPurgedOrBlocked`, `TimedMessagesPurged`,
`EveryoneHears`, `TasksEndTogether`, `FramesHandled`, `OnlineAgain`), because fairness and ENABLED are out of the
prover's reach. No RECURSIVE operator is used, and nothing was left because a step could not be found.
Conversely these are theorems that no run repeats: `KeysUnique`, `TimerAndThreadFixed`, `FirstReadKept` and
`BlockedForGood` of the store, `NothingSkipped` and `NoDuplicates` of the hub,
`NothingWithoutConversation` and `StrangersUnheard` of the backend, `OneUserPerPhone` and `NoFirstUser` of the accounts,
`ShownWalletKept` and `OfflineOnlyForCause` of the client, `GuardedOut`, and the theorems about calls one at a time and
about answers that lack a field, whose hypotheses are about the constants.

## 6. Not modelled

* OTP verification: Twilio's answer, no state here.
* Location and online status: one UPDATE each of columns nothing else writes. The rate limit.
* Subscriptions: the statement they would run, `update_subscription`, is not defined.
* S3, Redis, chain and FCM adapters: thin wrappers without state; Redis and FCM have no caller. The
  device-token use case only logs.
* `encryptForUser`, `decryptFromUser` and `sendTransaction` of the client: pure functions and one outside call,
  which keep nothing.
* Peers' keys and chats in the client: the routes it asks for (`/chats`, `/messages`, `/auth/me`) do not exist in
  the backend, so there is no answer to model.
* Screens, themes, navigation and sample data, deployment files, the cryptographic algorithms.
* Reads that change nothing (`find_by_conversation`, `find_pending`, nearby users) are not actions.

## 7. Plan

The order followed so far: message store, hub, KYC, accounts, then the client's session, socket and
wallet, each with its proofs; then the composition of hub and store. What is left:

1. `ClientSocket` composed with the hub's connections, when the client has code that calls it: what a client
   misses between two of its channels.
2. Subscriptions with the whole-row `update` of the user, once `update_subscription` exists.
3. Peers' keys in the client, once the client's routes exist.
4. For `KycReview` and `Accounts`, a lock per user in place of calls one at a time: what a transaction would
   give.
