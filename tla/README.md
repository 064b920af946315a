# Verification of django-http-inspector

TLA+ modules, TLC runs and TLAPS proofs for django-http-inspector: a WSGI wrapper
that records every request and response of a Django project in a private SQLite
file, and serves a page that lists the records and sends them again ("replay").
Source lines are given as in `PROJECT.json`, where `map` ties every definition to
the code it models. Paths below are relative to `src/src/django_http_inspector/`.

## 1. Inventory

### Components

| Component | State | Operations |
|---|---|---|
| Storage (`storage/`) | tables `exchange_record`, `replay_attempt`, the foreign keys between them, `UNIQUE` on the nonce and on the observed attempt | `create_exchange` (insert, claim nonce, link: one transaction), `update_exchange`, `prune`, `clear`, `create_attempt`, `update_attempt`, reads; `_initialize` at start |
| Capture (`capture/exchange.py`) | one `ExchangeCapture` per request: the record in memory, `finalized`, the response so far | `__init__` (creates the row), `start`, `observe_response`, `finalize` (update, then prune) |
| Wrapper (`wrapper/wsgi.py`, `response.py`) | configuration, token, repository of the process; per response `finished`, `closed` | `__call__` (disabled / Inspector / excluded / captured), `start_response`, `write`, `next`, `close` |
| Body tee (`wrapper/input.py`) | `captured`, `observed_size`, `read_error`, `exhausted` | `read`, `readline`, `readlines`, iteration |
| Replay service (`replay/service.py`) | one `ReplayAttemptRecord` in memory per replay | create the attempt, check, resolve, send, evaluate, update the attempt |
| Transport and target (`replay/transport.py`, `target.py`) | one socket | resolve once, connect to the pinned address, send, read |
| Worker start (`wrapper/wsgi.py`, `_initialize`) | `_initialization_lock` of the process, SQLite's write lock, version and tables of the file | switch to WAL, read the version, create the schema, commit; become an `UnavailableRepository` |
| Edit & Replay (`replay/edit.py`) | none | parse headers, decode and encode the body |
| URL and headers (`capture/url.py`, `capture/headers.py`) | none | `build_url` from environ and proxies, captured headers, replayed headers |
| Inspector app (`inspector/app.py`, `security.py`) | token and repository | page, detail, polling API, clear, replay, edit-replay |
| Live list (`static/.../inspect.js`) | `cursor`, `polling`, `retryDelay`, timer, list, removed warning | poll, render, back off, pause when hidden |
| Edit form (`static/.../inspect.js`) | texts, `editMode`, submit button | edit, reset, cancel, submit, answer |
| Presentation, templates, `config.py` | none | pure functions |

### How they interact

A business request runs in one worker thread. The wrapper builds the tee and an
`ExchangeCapture`, whose constructor inserts a *pending* row; if the request
carries the header `X-Django-HTTP-Inspector-Replay`, the same transaction claims
that nonce and links the row to the attempt. The application then reads through
the tee, and the server iterates and closes a wrapped iterable. Whichever of
exhaustion, exception or close comes first calls `finalize`, which writes the
record held in memory *as a whole* and prunes the table in a second transaction.

A replay runs in the thread of an Inspector POST: it reads the exchange, commits a
pending attempt with a fresh nonce, sends the request (to this server or any
other, so it may come back as a business request), and writes the attempt held in
memory *as a whole*. Clear deletes both tables at any moment. The page polls a
snapshot made of two reads, rows and total.

An edited replay starts from a page that was rendered some time ago: the texts went
through a textarea, the token is that of the worker which rendered it, and the row may be
complete, pruned or cleared by the time the browser submits. `edit_replay` reads the row again,
parses the texts and runs the replay with them.

Before any of this, `InspectorWSGI.__init__` opens the file: wrappers of one process take turns
under `_initialization_lock`, processes under SQLite's write lock.

All threads of all worker processes share the SQLite file and nothing else.
Every operation opens its own connection with a busy time-out of one second; a
failed write is logged (capture) or reported (replay) and never retried.

### What is hard

* Threads interleave between transactions and write back stale records:
  prune or clear between create and update, the claim against the final update.
* The nonce may arrive early, late, twice, after a clear, or never.
* A transaction fails, or a worker dies, between any two steps.
* Processes start together on one file, die while they create its schema, or find one that
  another program or version made.
* A form outlives the row, the worker and the button state it was rendered with.
* A request is rebuilt from what the server decoded: quoting, header case, line ends, charsets.
* The order of start_response, write, next, close and exceptions is the
  application's and the server's choice.
* Rows, totals and cursors are read at different moments; answers come back to a
  page that has been hidden or shown meanwhile.

### What makes each part correct

* Storage, capture, replay: one exchange per nonce; an open nonce is noticed by
  whoever carries it; link and claim agree; nothing that was removed comes back; the
  table is bounded, and prune takes the older rows; what the page says of a replay is
  what the store says.
* Wrapper: one record per request, stored once, whatever ends it; a record that
  claims to be complete is what was sent; the application's close is called once.
* Tee: the copy is the beginning of what the application read, a body that is
  called whole is whole, and nothing is read that the application did not ask for.
* Live list: it never stops polling while visible and never polls while hidden, its
  list belongs to its cursor, and it converges to the table.

* Worker start: the file has the whole schema or none of it; a wrapper serves only a file that it has made or whose
  version it supports, and refuses one for a reason that is so; every start ends.
* Edit & Replay: the answer never denies what was sent; the request on the wire has one host, one
  nonce and its own length; unedited, it has the captured headers and text and goes to the same resource.

`PROJECT.json` lists the hazards behind these, each at its line.

## 2. Modules

| Module | What it is |
|---|---|
| `Correlation` | abstract: nonces are issued, claimed and closed; one claim each. Holds its own theorem. |
| `InspectorStore` | the two tables, SQL statements and transactions as operators |
| `InspectorCore` | capture and replay threads, clear, failures and deaths, over `InspectorStore`; `INSTANCE` of `Correlation` and `ReplayPhases` with refinement mappings |
| `InspectorCore_proofs` | theorems about `InspectorCore` |
| `ReplayPhases` | abstract: the phases of one replay, and when its request may be on the network |
| `ReplayTransport` | `resolve_target` and `send_request`, one step per socket operation; `INSTANCE ReplayPhases` |
| `ReplayTransport_proofs` | theorems about `ReplayTransport` |
| `CapturingInput` | the tee, over a body of numbered bytes |
| `WsgiExchange` | one captured request: application, server, `CapturingIterable`, `finalize`; extends `CapturingInput` |
| `CapturingInput_proofs` | lemmas about the tee: what one read does to the copy |
| `WsgiExchange_proofs` | theorems about `WsgiExchange` and, with those lemmas, about the tee |
| `InspectPoll` | rendering, polling API and `inspect.js` over the table |
| `InspectPoll_proofs` | theorems about `InspectPoll` |
| `WorkerStartup` | wrappers of several processes that start on one file, statement by statement |
| `WorkerStartup_proofs` | theorems about `WorkerStartup` |
| `EditText` | `replay/edit.py`, the replayed headers and the textarea, as operators |
| `CapturedRequest` | routing, `build_url`, captured headers and replay target, as operators; extends `EditText` |
| `EditReplay` | one exchange's edit form, `edit_replay` and the worker behind it; extends `CapturedRequest` |
| `EditReplay_proofs` | theorems about `EditReplay` |
| `MCInspectorCore`, `MCWsgiExchange`, `MCWorkerStartup`, `MCEditReplay` | definitions for TLC: symmetry, sizes, requests and texts |

Definitions marked "Mutated form" are plausible bugs; each is what the definition
after it would be with that bug, and no specification uses them. For every
property of a passing run, `PROJECT.json` names one that makes TLC report the
property as violated.

### InspectorStore and InspectorCore

A transaction is one step. `AUTOINCREMENT` never reuses an id and a request inserts
one row at most, so rows are keyed by the request or the replay that inserts them;
the nonce, a fresh uuid4 per attempt, is the replay itself. Columns that no step
reads are left out. A body is `"unread"` (as inserted: empty, not marked incomplete),
`"whole"` or `"partial"`. `"finished"` stands for the two final states of an
exchange. `created_at` is an instant of a clock with `Ticks` ticks per second, and
rows are ordered by the *text* it is stored as (`TextOrder`): a timestamp without a
fraction sorts after all others of its second. Two captures never share an instant
in the model; in the code the id decides then.

Thread state: `capture[r]` and `replay[p]` say which step comes next; `exchange[r]`,
`attempt[p]` and `snapshot[p]` are the records in memory. `Arrive` to `Prune` are
`ExchangeCapture`; `Submit` is the handlers' `get_exchange` and, for an edited replay,
the 409 of a partial body; `RecordAttempt` to `StoreOutcome` are `replay_exchange`.
`Escape` is an exception that `replay_exchange` does not catch. `…Fails` are the
failing transactions (any of them when `StorageFails`, otherwise those a constraint
refuses), `Kill…` the death of the worker (`WorkersDie`). A request may carry the nonce
of any replay that has been sent (`wire`), any number of times.

### ReplayPhases and ReplayTransport

`InspectorCore` shows what a replay does to the tables and knows of the network only that the
request is on the wire; `ReplayTransport` shows what happens on the network and knows nothing of the
tables. Both implement `ReplayPhases`, which joins them: `phase` is the core's `replay[p]`, and
the transport maps its steps from `"resolve"` to `"over"` onto the phases from `"evaluate"` to
`"store"`.

Resolver, socket and peer are external. An answer of the resolver is any sequence of addresses
without repetition; the peer of a connection is any address. Each socket operation
works in less than `Timeout` ticks, takes exactly `Timeout` and raises, or raises something else
(`Breaks`, with the stage the except clauses give it). `sent` is `"part"` as soon as bytes may
have left. `Escape` is an exception that neither try catches: a `UnicodeError` of IDNA in the
lookup, or a `ValueError` of `putheader`, when nothing has left. `MaxResponse` bounds the
response. The stage `"dns"` does not occur: `send_request` connects to a literal address.

### CapturingInput and WsgiExchange

The stream is the bytes `1..body`; `read` may return fewer bytes than asked for.
`readlines` is the loop of the code, one `readline` per step, so that an exception can
come between. What the stream's own `readlines` does is external and not one thing
(`StreamEnds`): `io.BytesIO` stops when the lines have `hint` bytes, `io.BufferedReader` when they have more, and a
server may ignore the hint; below 1 it is none for all.
The application and the server are external and follow PEP 3333: no data
before `start_response`, an iterable that was returned is
closed, perhaps more than once. It is an assumption that the application passes on the exceptions of
`start_response` and of `write`: `wsgi.py:67` counts the bytes first, so an application that catches the exception of a
broken `write` and ends as usual gets a complete record with bytes the server never took. `Aborts` is a `BaseException`, which the wrapper does not
catch, or the `TypeError` of `iter()`. A missing `CONTENT_LENGTH` is a declared size of 0, and `int()` also takes a negative one; either goes
with any body, and `incomplete` then says that the record is whole (`KnownBody` keeps
`WholeRecordIsWhole` from speaking of such a body, unless there is none).

### InspectPoll

The cursor is a SHA-256 over rows and total; here it is that pair. Rendering a page is
three reads (`RenderRows`, `RenderSnapshot`, `RenderTotal`), answering a poll is two. The
removed warning, once shown, stays. `table` is kept newest first, by id; the order of
timestamps within a second is InspectorCore's subject.

### WorkerStartup

One step is one SQL statement or one lock. `pc[w]` is the line of `_initialize` that wrapper `w` is at;
`file` is what is committed, `draft` what the open transaction sees, and only `Commit` makes the one
the other. A wrapper waits for the lock of its process without limit, for SQLite's
at most a second (`TimeOut`). `PRAGMA journal_mode=WAL` takes the write lock when there is something to switch. Any
exception rolls back, closes, leaves the `with` block and ends in an `UnavailableRepository` (`Fail`), and
`verdict` says why. `Write` is a transaction of a wrapper in service, `Kill` the death of a
process with all its wrappers, `Delete` the user who removes the file while no connection is open, as
the documentation allows. What is found (`Found`) may be any program's file: `user_version` is any integer, with
any tables. `_initialize` looks for tables in a file of version 0 only, so one of another program with version 1, or a negative one, is
served. `given` is the file as found and `stale` are the wrappers
whose verdict is about a file that is gone.

### EditText, CapturedRequest and EditReplay

A text is a sequence of characters, of which only those are told apart that some line of code
treats differently: line ends, NUL, the space after a colon, control characters, a character outside ISO-8859-1. Its
bytes are a sequence of symbols too, one for the bytes of each character, so that in UTF-8 and ISO-8859-1
`Decode` and `Encode` leave it as it is. They do not elsewhere: `"marked"` stands for UTF-16 and
utf-8-sig, where decoding drops a byte-order mark, of either order, and encoding puts one in front, even of nothing; `"loose"` for
UTF-7, in which a character may be written in ways that are not produced. `"bad"` is what does not
decode. A Content-Type is what becomes of it (`ContentType`). The textarea knows one line end, drops one in front and
shows U+FFFD for a NUL. A target is a sequence in which `%` is followed
by its two digits as one character, so that `Unquote` and `quote` are what the server and `build_url` do.

`EditReplay` has one exchange, one page and one submission at a time. Its constant is the request and the environ
the server makes of it (`Exchanges`); the row is what `ExchangeCapture` makes of those (`Captures`). `shown` is the row
that the page was rendered from, `draft` what is in the form, `post` what was submitted; `handler` is the line of
`edit_replay`. `Load` is everything from `get_exchange` to the parsed texts, `Create` to `Store` are `replay_exchange`.
`Complete`, `Disappear` and `Restart` come at any moment. A fetch that is lost while its handler
still runs is not modelled, so two handlers never overlap; that replays do not disturb each other
in the storage is `InspectorCore`'s subject. What the answer shows on the page (notices, error texts) is
left out, what it says is not.

## 3. Runs

| Run | Instance | Result |
|---|---|---|
| `core_safety` | 3 requests, 1 replay, `MAX_RECORDS` 1, failures and deaths; 812 133 states | all hold |
| `core_progress` | 2 requests, 1 replay, no failures; 14 005 states | all hold |
| `core_duplicate` | as `core_safety`, no failures | `DuplicateIsDiagnosed` violated |
| `core_pruned_source` | same | `OutcomeSurvivesSource` violated |
| `core_pending_source` | same | `OnlyWholeBodiesAreSent` violated |
| `wsgi_exchange` | bodies to 3 bytes, limit 1, one newline, two statuses, two closes; a length of -1 to 3 or none; 262 480 states | all hold |
| `wsgi_chunked` | same, declared length 0 | `ReplayableIsComplete` violated |
| `transport` | 2 addresses, one risky; limit 2, responses to 4 bytes; 488 states | all hold |
| `transport_time` | same, time-out 2 ticks | `EndsInTime` violated |
| `poll` | 3 exchanges, 2 kept, 1 in the snapshot; 562 358 states | all hold |
| `startup` | 3 wrappers in 2 processes, 4 statements, one death, one deletion; 80 768 states | all hold |
| `edit` | 13 requests, 11 header texts, 3 bodies, 2 submissions, one restart; 897 896 states | all hold |

`core_safety` asks whether links, claims, retention and reports survive every
interleaving. Three requests are the source of the replay, the request that carries the
nonce and one more, which may be a duplicate or cause the prune; with `MAX_RECORDS` 1 every
second finalize prunes. One replay suffices for the hazards of one nonce, and nonces do not
interact except through `UNIQUE` on the link, which the proofs cover for any number.
`Ticks` is 2, so that instants with and without a fraction share a second. Requests and
replays are symmetric.

`core_progress` asks what holds when nothing fails, and for liveness. Weak fairness of each
thread's next step: the application answers, a socket time-out ends each wait, and SQLite
grants or refuses a lock within a second. Arrivals, submits and clears are not fair. That the read
loop of the transport ends is an assumption: `REPLAY_TIMEOUT` bounds single reads.

`wsgi_exchange` has bodies longer than the limit by two, a line that ends inside and one that
ends with the body, `read()`, `read(0)` and `read(1)`, `readlines` with hints of either sign and 0. `ServedIsStored` assumes that the
server, given an iterable, calls close (PEP 3333), strongly fair because it can do so only when
the application has returned control, and that `readlines` goes on. Deadlock is not an error here: a request ends.

`transport` asks whether the outcome of a replay agrees with what was sent, to whom, and what
came back. Two addresses give answers with and without a risky one, in either order, and peers that match
or do not; responses end below, at and above the limit. Fairness: the thread goes on,
the resolver answers (it has a time-out of its own), and an operation that nothing else ends is
ended by its time-out, which `connect` gives to the socket. Nothing is assumed of the peer except
that its response is finite. Deadlock is not an error: the replay ends.

`poll` has a snapshot of 1 of 2 kept rows, so that an exchange can be stored and out of sight, and a
third capture to prune. Fairness: timers fire (weak); of the polls made again and again
not all are lost (strong), since the Inspector is served by the same machine. `Converges`
speaks only of pages that stay visible and of lists that a poll has replaced: the list
rendered with the page may be older than its cursor.

`startup` has two wrappers that share `_initialization_lock` and one that does not, the four statements
of the schema, and a new file, one of the Inspector and foreign ones of versions -1 to 2. With one death and one deletion each of them can fall between any two
steps of the others. Fairness: each wrapper's thread runs on; that is enough, because no wait of `_initialize`
but the one for the process's lock exceeds a second, and whoever holds that lock proceeds. Starts, failures, deaths,
and writers' beginnings are not fair. Deadlock is not an error: all wrappers may be up and all bounds used.

`edit` has a request for each thing that the way from request line to request line treats differently:
escapes that the server decodes, literal `%`, bytes outside ASCII, a raw URI in origin and in absolute
form, proxies that are trusted or not and a host that is refused; bodies with CR LF, a leading LF, a NUL, bytes that do not
decode, the byte-order mark of the other order, UTF-7; binary and odd content types; a truncated body. The header texts have each name `replay_headers` drops, in either
case, and each error. Two submissions, so that the second meets what the first left. Only
safety is asked: nothing but the user makes anything happen. `SameResource` names the cases
it excludes; see below.

### Where the code departs from its documentation

* `core_duplicate`: the final update of an attempt writes `correlation_claimed = 0` back, so a
  nonce that arrives again later is not marked as a duplicate. (It is not claimed twice
  either, because the attempt is no longer pending: `NonceCorrelatesOnce`.)
* The instant 12:00:00.000000 is stored as `12:00:00Z`, which sorts after
  `12:00:00.5Z`; prune then removes the younger row, while the storage design (:227) wants the
  oldest pruned. `PrunesByAge` shows that the error never exceeds a second.
* `core_pruned_source`: if the source is pruned while its replay runs, the final update writes the stale
  `source_exchange_id`, the foreign key refuses it, and the attempt stays pending. The
  page says so (`ReportMatchesStore`).
* `core_pending_source`: a pending exchange may be replayed; its row has an empty body and
  no mark.
* `transport_time`: the time-out bounds each socket operation and not the replay, which the design
  wants to end after a total time. `Settles` shows what remains: a silent peer does not hold the worker for ever.
* `readlines(0)` of the tee gives nothing and that of a stream everything, while the plan of the MVP
  (:161) wants it passed through. `ReadlinesNeverAhead` shows that the tee at least never takes more, and
  with another hint stops where some stream does.
* The `finally` (`inspect.js:130`) of a submission enables the submit button although a poll has meanwhile found the exchange
  removed (`PollNotices`, then `Answered`), and no run says otherwise; the design of Edit & Replay (:74, :245) wants it disabled. (Reset, which the same line names, is never disabled: it is not among
  the capture actions of the page.)
* An empty text passes with any Content-Type, but in UTF-16 it is encoded to a byte-order mark; the design (:190)
  makes zero bytes a condition. So `SentIsClean` speaks of the text of a body that is sent, not of its bytes. An empty body of such a charset is also replayed with two bytes when its form is
  submitted as it came; its text is still empty (`UneditedIsSent`).
* A text in UTF-16, utf-8-sig or UTF-7 need not be replayed with the bytes that were captured, and a NUL comes back as
  U+FFFD (or is refused, in ISO-8859-1); `UneditedIsSent` says that there are no other changes.
* `wsgi_chunked`: a body without `CONTENT_LENGTH` that nobody read is stored as
  complete. `WholeRecordIsWhole` holds when the length is known.
* The page says "removed from Inspector storage" (`index.html:49`) of an exchange that is stored but not
  among the latest 200; `RemovedIsOutOfSight` is what it may say.
* A file of another program is refused only if its version is 0 or newer than the code's. With version 1, or a negative one, it is
  served; nothing is changed in it but the journal mode (`SchemaIsWhole`), and captures fail with a logged error. The
  storage design (:184) speaks of version 0.
* WAL is switched on before the version is looked at, so a newer or foreign file is changed in its journal mode,
  if in nothing else (`SchemaIsWhole` is about version and tables). A wrapper that is up when the file is deleted goes on with a file
  that has no tables, and its captures fail, until its process is replaced.
* A path with a literal `%` before two digits, or with bytes outside ASCII, is replayed to another path unless
  the server gives a raw URI; a raw URI in absolute form gets a `/` in front. The MVP design (:155)
  wants replay disabled where the URL cannot be rebuilt without ambiguity. `SameResource` says that there are no
  other cases.
* A charset whose codec raises something else than `LookupError` ("undefined") makes the page of that exchange answer
  404 and its edit-replay 500; the design of Edit & Replay counts it among the
  unknown charsets.
* A page rendered while its exchange is pending offers an empty body for editing, and submitting it replays
  that (`UneditedIsSent` compares with the row the page was rendered from).
* "Replay completed." is answered also when the attempt was cleared meanwhile (`AnswerIsTrue` allows it).

## 4. Proofs

All for any sets of requests and replays, any `MAX_RECORDS`, with and without failures and deaths,
from `ActorsAssumption` (NULL is neither a request nor a replay, requests are finite) and
`ConfigAssumption`.

* `AbstractlyClaimedOnce` (`Correlation`): no two requests are taken for the same replay. The
  invariant added is `ClaimedIsClosed`: a nonce some request was taken for has been issued and
  is no longer open, so it can be neither issued nor claimed again.
* `TypeCorrect`: `[]TypeOK`, one lemma for each statement of the store.
* `CoreImplementsCorrelation`: `Spec => ImplementsCorrelation`. `issued` are the replays whose
  attempt was created, `open` those whose row `create_exchange` would still claim, `observed`
  the link each capture holds. The hard case is `update_attempt`, which writes
  `correlation_claimed = 0` back: it would reopen a nonce, were the state it writes not final.
  Hence the inductive invariant
  `ThreadInv == TypeOK /\ FreshIsUnlinked /\ RecordedHasSource /\ OutcomeIsFinal`: a capture that
  has not been stored has no link (a claim is never overwritten), a recorded attempt has its source
  (so it counts as issued), and an outcome about to be stored is not pending.
* `CoreCorrelatesOnce`: `[]NonceCorrelatesOnce`, from the two before.
* `CoreImplementsPhases`: every replay of the core goes through `ReplayPhases`. Each step moves one
  replay and leaves the others alone; `TypeOK` is all the invariant it needs.
* `InboundsAreCorrelated`, `ClaimsMatchLinks`, `FinalizesAreAccepted`: one inductive invariant,
  `LinkInv`, with `ThreadInv`. Neither of the first two properties is inductive, because they relate stored rows only,
  while what is written comes from records in memory. `LinkInv` adds that a nonce in a request or a link has been
  sent, that an attempt is recorded before its request is sent, that a row exists only from its `create_exchange` on, and
  that a link held in memory has its attempt while its row is there (so the foreign key of `update_exchange` is
  satisfied). Most of the actions touch none of this: `QuietStep` says what they have in common
  (rows and pending attempts may go; links, nonces and claims stay), and `QuietKeepsLinks` deals with all of them at once.
  What remains are `create_exchange` with its claim and `create_attempt`.
* `NothingRemovedReturns`: `RemovedStaysRemoved`. Only a thread that is about to insert adds a row, since
  an update finds its row or changes nothing; `TypeOK` is all the invariant it needs.
* `ReportsAreTrue`: `ReportInv` adds that a stored attempt is pending until its thread stores the outcome.
* `PendingsAreServed`: under the hypotheses `~StorageFails` and `~WorkersDie`, since a finalize that
  fails leaves its row pending in the code too; both values are in the runs. It needs
  `FinalizeIsNeverRefused`: no constraint refuses the last write either.
* `RetentionBounded`: what prune keeps has at most `MAX_RECORDS` rows. `KeptAreFew` shows it without
  counting positions: of more than that many kept rows, the one that is last by `TextOrder` would have `MAX_RECORDS`
  rows before it, and would not be kept. This takes a strict order of the texts, hence
  `TimesDiffer`: two captures never share an instant, in memory or in the table, because the model's clock goes on with each.
* `PrunedByAge`: `PrunesByAge`. The order of the texts is not that of the instants, but agrees with
  it on whole seconds (`TextsAgree`), so no row that `prune` takes is younger, to the second, than one it keeps.

For any addresses, limits and time-outs, from `TransportAssumption`:

* `SentIsAlwaysAnnounced`, `ValidationIsBeforeSending`, `OnlyVettedIsSentTo`: the inductive invariant
  `TransportInv` says at which steps the target is known to be accepted (`Accepted`), the peer to be the first
  address (`Compared`) and bytes to be on the way (`Sending`), and keeps this for what has been sent
  when the replay is over. `ValidationMeansUnsent` needs all three: the late check of the peer
  in `replay_exchange` cannot fire, because the peer is the address that was checked.
* `TransportImplementsPhases`: `Spec => ImplementsPhases`, from `TransportInv`, which says that where
  an exception may escape nothing has left.

* `ResponsesArePrefixes`: `[]ResponseIsPrefix`, for every `CAPTURE_MAX_BYTES` and every sequence of
  chunks. `PrefixInv` carries it through the read loop: the copy is the first `Kept(total)` bytes at every turn. `ChunkExtends` is the
  lemma that one chunk, cut to the room that is left, extends it to `Kept(total + size)`.
* `ReplayTransport_proofs!TypeCorrect`: `[]TypeOK`. `ChunkFits`: no chunk makes the copy longer than the limit. That an outcome has a stage
  exactly when it is an error takes `TransportInv`: until the thread is over no stage is set.

For any wrappers, processes and number of statements, from `StartupAssumption`:

* `WorkerStartup_proofs!TypeCorrect`: `[]TypeOK`.
* `SchemaStaysWhole`, `VerdictsAreRight`: neither is inductive alone. `SafeInv` adds who is inside a transaction or
  a journal switch (`LockHolder`: the holder of the write lock), and what that transaction's draft has at each statement
  (`DraftIsRight`), so that nobody else changes the file meanwhile; whoever is up has seen a whole schema, or a file
  with a version that nobody changes, and only a deletion takes either away.

For any requests, texts and bounds of `EditReplay`, from `EditAssumption` and `QuoteAssumption`:

* `AnswersAreTrue`: `HandlerInv` says what `edit_replay` knows of the attempt, the wire and the outcome at each step of its
  handler; in particular `network_attempted` is set before anything is sent.
* `SentRequestsAreClean`: `FormInv` says that the form stands for the row the page was rendered from,
  and holds texts; `WireInv` that `edit_replay` works for the submission it was given, and that what is on the wire is what that
  submission parses to. `EncodedFits`: a text that its Content-Type allows is still allowed when decoded
  again. The rest is `WireNamed`, about `replay_headers` and the headers that
  `send_request` adds: name by name, what is left of any sequence of headers.
* `UneditedIsFaithful`: `[]UneditedIsSent`, from the same invariants. `DecodeUndoesEncode`: what was decoded, encoded and decoded again is the same text, in every
  kind of charset. `ParsedAsWritten`: `parse_headers` undoes `headers_to_text` on every sequence of named headers. `WireMiddle`: `replay_headers` keeps their order. `TextareaKeeps`: a textarea
  leaves a text alone that has no CR and no NUL and does not start with a LF.
* `SameResourceIsAsked`: `[]SameResource`. `UnquoteUndoesQuote`: on a path without an escape and without bytes beyond ASCII,
  what the server decodes of `quote(path)` is the path, and there is no `?` in it, so that `PartsOf` finds path and query where
  `build_url` has put them together. `TargetArrives`: the `?` that `resolve_target` drops at the end makes no difference.
  `ResourceInv`: only what a wrapper captured is replayed, and only with a URL.

`EditAssumption` says of the requests what a server does (`Received`: a target in origin or absolute form, decoded into
`path` and `query`, with the raw target or without), that their values are sequences of characters, that header names are not empty and
that the Content-Type of a row's headers is that of its column;
`QuoteAssumption` says what `urllib.parse.quote` does to `%`, `?` and ASCII, and that two digits stand for neither. TLC
evaluates both for the instance of `edit`.

`Subsequence` (a comprehension with "if") and `FlattenSeq` (a join) go through their sequences item
by item, and the induction theorems of the library cannot be used here. Two lemmas take their place: `Naturals` (a set of naturals with 0 and
the successor of each member is all of them, from the well-foundedness of `<`) and `Sequences`
(the same for `<<>>` and `Append`). A fact about all sequences is then proved by naming the set of those
that satisfy it. `UptoExists` and `FlatExists` show that there is a function such as these operators choose;
`SubsequenceOfAppend` and `FlattenAppend` are what the other lemmas use of them.

For any bodies, limits, statuses, sizes and hints of `WsgiExchange`, from `InputAssumption`:

* `ExchangeEndsOnce`, `CompleteRecordsAreTrue`, `RecordsCoverResponses`: `ExchangeInv` adds that, while the
  application has the control (`AppRuns`), status and size as noted are what the server has, and that a record is stored
  only once that control is lost for good. So nothing the server takes can come after the record.
* `CopiesArePrefixes`: `CapturedIsPrefix` with `TeeInv`, which says where the stream is and that a body without
  a known length is at its end once `exhausted` is set by anything but a read of size 0. `SegmentsJoin` is
  the step of `_observe`; `LineEndIsAhead` says that `readline` gets something unless the body is at its end.
* `WholeRecordsAreWhole`: `ReadInv` keeps for the stored record that the body had been read to its end and fits; with
  `ExchangeInv`, nothing is read afterwards.
* `ReadlinesTakesNoMore`: `[]ReadlinesNeverAhead`. `LinesInv` says of the loop of `readlines` that what it has taken ends
  with a line or with the body, and that none of the line ends before had reached the hint; a call that
  is over has reached one or the other. `LinesAreNotAhead` draws the conclusion for every stream of `StreamEnds`. The tee's other
  operations and its caller leave that alone.
* `WsgiExchange_proofs!TypeCorrect`: `[]TypeOK`, from those invariants and `NotesTyped`, with `ExchangeAssumption`
  (the model's bounds are naturals).

For tables and snapshots of any size, from `PollAssumption`:

* `PollingNeverStalls`, `ListFollowsCursor`: `PageInv` adds that nothing is scheduled, fetched or rendered by the
  script before the page is ready.
* `RemovedMeansOutOfSight`: an answer may be about rows that were read long ago, so `SightInv` says of an answer
  under way that an exchange it lacks is out of the latest rows now. It stays out (`OutOfSightStays`): a capture
  gets a new id (`selected < nextId`), and pruning and clearing only take rows away.
* `InspectPoll_proofs!TypeCorrect`: `[]TypeOK`, for lists and answers of any length.

Every safety property of a passing run is thus a theorem. Only model-checked is liveness, which is out of the
prover's reach: `RetentionReached`, `ReplayAnswers` (`core_progress`), `ServedIsStored` (`wsgi_exchange`), `Settles`
(`transport`), `Converges` (`poll`) and `StartSettles` (`startup`). The five violations are of course not proved; TLC's
counterexamples are what shows them.

## 5. Plan

The components of the plan are modelled, and the safety properties of the runs are proved. What is left, in this
order: a type invariant of `EditReplay`, of which `HandlerInv`, `FormInv` and `WireInv` are parts; in
`ReplayTransport`, a response whose declared length the peer does not keep, which `read` reports
as its end (see the hazards); of the liveness properties, the safety part on which each rests (that no step but the fair
one leaves the state in question).

## 6. Not modelled

`inspector/presentation.py` and the templates format stored bytes for display; nothing the program does depends on the
result. `inspector/security.py` decides about one request from its environ; of it the model has
only that a token of another process is refused. `config.py` validates settings once; what it lets
pass are the constants' assumptions, and its two path tests are in `CapturedRequest`. Of `inspect.js` the tabs, focus, confirmations
and texts are left out. `delete_exchange` and `delete_attempt` have no caller. `scripts/` and the release workflow are not part of the
running program.
