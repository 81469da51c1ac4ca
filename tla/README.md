# DsRelay: TLA+ models, model checking and proofs

DsRelay is a relay in front of language model services: a Flask application
(`src/local_proxy/server.py`, 9,700 lines) that accepts OpenAI, Responses, Anthropic and
Gemini requests, sends each to one of several upstream routes with keys from a pool, repairs
and converts what comes back, and streams it to the client. Beside it runs a small account
centre with balances, redeem codes, subscriptions and payment orders. waitress serves it
with 16 threads (`server.py:9706`), and almost all state is module-level and shared.

This directory holds TLA+ models of the parts where order, sharing and failure matter, TLC
configurations that check them on small instances, and TLAPS proofs of the invariants for
instances of any size. `PROJECT.json` maps every definition to the lines it models.

## Inventory

| Component | State it keeps | Operations | What makes it correct |
| --- | --- | --- | --- |
| Upstream retry loop (`upstream/orchestrator.py`) | per request: routes left, blocked routes, failed keys, models tried, budgets, the window | pop a route, race, send, switch key / model / route, back off, return | it ends; nothing that failed is asked again; responses not returned are closed; it gives up only when spent |
| Key pool (`runtime/pools.py`) | lists of keys, round-robin cursors, failure counts, cooldowns; a stored copy | choose, report, rebuild, save, load | fairness; only failed keys cool; cooldowns last |
| Candidate race (`upstream/retry.py`) | futures, stop event, winner | run a candidate, collect, time out, clean up | the winner stays open, every other response is closed |
| Coalescing (`server.py:3456-3501`) | table of requests in flight, events | begin, complete, wait | each entry completed once; nobody waits for nothing |
| Background execution (`http/async_execution.py`) and connect heartbeat (`server.py:7735-8002`) | thread, result queue, cancel event | start, wait, cancel; heartbeats meanwhile | a response nobody wants is closed |
| Streamed answers (`server.py:5206-6080`) | per attempt: events, held-back lines, budget; per request: a stack of generators | preflight, relay, fail over in the stream, finish | one end, no trace of replaced attempts, one upstream stream, complete records |
| Interrupted answers (`server.py:2217-2477`) | stored snapshots with a time to live | save, inject, clear, expire | text goes on where the client's copy ends |
| Request cache (`runtime/request_cache.py`) | stored answers | look up, store, expire | it holds whole answers to exactly the request |
| Request recorder (`runtime/state.py`) | active requests, history, counts | start, finish | a request is finished once, with its details |
| Payment orders (`admin/payments.py`) | orders, events, fulfilment logs | create, change status, fulfil, webhook | a paid order is fulfilled once; an acknowledged event has happened |
| Balances, codes, quotas (`admin/account.py`, `admin/content.py`) | account rows, balance events, content buckets | redeem, adjust, transfer, edit | no double grant, no lost update, no overdraft |
| Accounts, groups, keys, subscriptions (`admin/*.py`, `account/service.py`) | their rows and memberships | forms: read, validate, store; cascades of deletions | nothing names what is gone; nothing comes back or is lost unasked |
| Local storage (`storage_local.py`), MySQL storage (`storage.py`) | sections of rows under one lock and one file; tables | get, list, upsert, delete cascades; caches with expiry | each call atomic; both answer alike |
| Route health and selection (`upstream/router.py:37-360`) | failures and cooldowns per route, rotation cursors, session affinity | rank, rotate, mark | permitted routes only, by priority; a session keeps its route |
| Model discovery and memory (`upstream/models.py`, `router.py:409-760`, `server.py:1258-1440`) | model lists, scores per model and route | probe, order, record | the model asked for comes first while it works |
| Cleaning of streams (`compat/tools.py:2990-3974`) | per choice: held-back text, open tool blocks, tool calls so far | one chunk in, one event or none out | no text lost or out of order; each call whole, once |
| Anthropic and Gemini answers (`server.py:4623`, `5140-5180`, `6810-7420`, `8027-9390`) | per answer: open blocks, indexes, what was said | wait, convert event by event, replace, end | well-nested events, one end, one record |
| Conversion and repair of payloads (`compat/protocols.py`, the rest of `tools.py`) | none | translate | round trips |
| Images, prompt cache hints, policies, capabilities | little | build payloads, poll a task | - |
| Configuration (`runtime/config_*.py`) | module globals | merge, apply, store | - |
| Dashboard, analytics, authentication, routes, logging | sessions, windows of attempts | read | - |

How they meet: `proxy_entrypoint` starts a `BackgroundExecution` of `execute_upstream_request`,
which looks into the cache, injects a snapshot, joins or opens a coalescing entry and calls
the retry loop; the loop asks route selection and the key pool, and may race candidates. Its
result is a dictionary with an open `requests.Response`, which `proxy_response` turns into a
generator. The generator may itself call `execute_upstream_request` again when the stream
breaks, and then yields from the generator of the new answer. The account centre shares only
the storage with all this.

What is hard here: threads that share dictionaries under small locks and act on copies;
`deepcopy` of objects that hold sockets; exceptions that travel through stacks of generators;
failover at four levels (key, model, route, stream), each with its own budget; whole rows
read, changed and stored without a lock over the three; forms that validate and store in
different calls; two storages that promise the same; text and tool calls held back from chunk
to chunk; a process that may be killed between any two calls of the storage. `PROJECT.json` lists each hazard with its line and the
properties that watch it, or why none does yet.

## Modules

Each specification below has an `MC` module with its instance for TLC. Eight `Proofs` modules
have the theorems: RequestProofs those of three specifications, UpstreamProofs, AnswerProofs and
StorageProofs of two each, CallProofs more of AnswerProofs'. A definition named "faulty variant" in a comment is not part of the specification: it
is a plausible mistake (a dropped guard, a swapped order) that replaces the definition after
it when the mutants are checked, to show that the property notices.

### UpstreamRetry: one request in the retry loop

The loop of `request_upstream_with_retries` (lines 90-767). `pc` is the place in the loop:
"top" is the head with its checks of budget and window, "route" a route just popped, "wait" an
upstream request on its way. `cycle`, `blocked`, `failedKeys`, `raced`, `rateUsed`, `n` and
`att` are the Python variables `route_cycle`, `blocked_urls`, `route_key_failures`,
`raced_routes`, the per-route rate-limit counts, `attempt_number` and `len(attempts)`. An answer
is abstracted to what the branches test (`ErrorReply`: its action, whether the key is at
fault, whether the model is unavailable, whether the route should be left, whether it is a
429 and with which delay). `Answer` is the whole decision list from line 505 on.
Other requests are the action `Interfere`: between any two steps they may cool a route or a
key or end a cooldown. The clock is `WindowElapses`. `build_attempt_url_cycle` reads all
cooldowns as one snapshot and returns any order of the permitted routes; which order it is, and
what the marks do to it, is RouteSelection.

### KeyPool: keys behind routes

`ConnectionPoolState` and its wrappers (`server.py:1492-1528`). A thread goes through "choose"
(`choose_key` under the lock), perhaps "fallback" (the pool of the route with the same base
URL, a second call), "holding" and "save". `Rebuild` is an operator's change of the pools,
`Restart` the rebuild, the save of blank tables and the load at start-up. `passed` is a
history variable: how often in a row a key was free and another one taken.

### CandidateRace: the race of model candidates

One `worker` per candidate (sending, received, looked at `stop_event`, ended) and the
caller: `as_completed` yields finished futures one by one, `Classify` and `Decide`
are the classification and what follows from it, `Shutdown` and `Visit` are the finally clause. Its outcome is what
`RaceWon` and `RaceLost` are in UpstreamRetry.

### Coalescing: identical requests in flight

`begin_inflight_request`, `complete_inflight_request` (pop under the lock, copy, set the
event: three steps) and `wait_for_inflight_request`. An entry is named by the request that
made it. A request of this module is one call of `execute_upstream_request`. The first call of an
answer runs on a thread of its own, which goes on whether or not its client is there, so clients
are left out. The failovers of a stream that came empty (`server.py:5448`, `5662`, `8412`, `8749`)
go through the table too and are further requests here, whose key may be that of the call they
replace (its entry is completed by then); those of a cut stream (`4817`, `4877`) and the continuation
with cached tool results bypass it and are not in the model. A copy may fail, which is when the
event is never set.

### StreamRelay: a streamed answer from request to last byte

One request of chat completions with `stream`. `phase` tells connecting (the grace time),
waiting (heartbeats while the background execution runs), relaying and over. `frames` is the
stack of generators: the top one runs, the others wait in `yield from`; `raised` is the
exception that unwinds them. `Open` are the steps of `proxy_response` up to the returned
response (status, malformed body, preflight), `Relay` those of its generator (`ReadLine`,
`ReadEnd`, `ReadCut`, `Check`, `RetryEmpty`, `RetryCut`, `End`, `Finally`). Every `Yield` is a
point where the client may have left, when waitress closes the generator. `sent` is what the
client got. Abstractions: a line has output ("text", tool calls too), none ("quiet"), or is
[DONE]; usage packets, blank lines, bytes, the continuation with cached tool results and the
marks of failed routes are left out; executions that raise are left out; bodies that are not
event streams are read to their end; a read that fails closes its connection (urllib3 does).

### InterruptionResume: snapshots and the cache

Copies of one request, one snapshot and one cache entry. An answer is the pieces 1..Length
and a text an interval, so that "goes on without a gap" can be said. `Save`, `Resume`,
`Finish`, `Store`, `Retry` are `save_interruption_resume_snapshot`,
`apply_interruption_resume_to_payload`, `clear_interruption_resume_records`,
`save_request_cache_entry` and the failover with `inject_runtime_resume_hint`. The upstream
is assumed to do what the hint asks; coalescing is left out; an answer under a key that no
request sends is not kept.

### PaymentOrders: orders, webhooks, fulfilment

Each call of the storage is one step of a request thread, since `LocalProxyStorage` takes its
lock and writes its file in each; between two, other threads run and the process may be
killed (`Crash`: threads are gone, what is stored stays). `job` is the thread's copy of the
order. `Contested` names orders whose fulfilment a validation may refuse (a plan or group
that was deleted). Prices, logs and later changes of subscriptions are left out.

### AccountLedger: balances, codes and quotas

Redeeming, affiliate transfers, balance events, edits of buckets, and the forms that store
whole account rows, again one step per call of the storage. `posted`, `paid`, `granted` and
`issued` count what happened, so that a stored balance or a code's status can be compared
with it. Groups, identity fields and deletion are left out; the granting of a subscription is
one step here (PaymentOrders has it in detail); an edit sets a code active or adds a rebate.
`overlapped` is a history variable: some request has begun before another one ended. What is
promised without overlap is stated under its negation, so that one instance with two threads
shows both what holds under any overlap and what holds up to the first one.

### LocalStorage, MysqlStorage, StorageBackends: two storages, one promise

`server.py:765` takes the MySQL storage when it answers at start-up and the local one otherwise;
no code above knows which. LocalStorage and MysqlStorage state what each call does to the stored
contents, as functions of one record of sections: the local ones hold a lock and write the file,
the others are transactions. They are written apart, each from its own source: REPLACE drops
a row with the same unique external key, the cascades differ, rows expire on loads here and on
saves there. StorageBackends gives both the same calls, as the services make them (a row's account,
order or group was found; an external key is nobody else's), and compares what they give back.

### AccountAdmin: forms over accounts, groups, keys and subscriptions

Request threads over either storage (`backend`). A request reads and validates in one step
(`CreateUser`, `AssignSubscription`, `UpsertGroup`, ...: the checks are their guards), and then
makes its writes one step each, through the operators of LocalStorage or MysqlStorage. It may end
after any of them (`Fail`). MySQL's deletion of a group is two steps, since it writes lists that
it has selected before. `late`, `strays` and `joined` are history: who was overtaken between
reading and writing, what was stored then, who got a group on top of others. The properties say that
everything that goes wrong needs one of these, or is an exception they name.

An account has both a `status` and a flag `enabled`, and either switches it off (`Active`). A form may
give one, both or neither (`Flags`, `Statuses`); `update_user` takes a flag that is not given from what is
stored, but a status that is not given from the flag (`Switched`). So the next form that leaves the
status out makes an account active that only its status switched off, the user's own profile too
(`users.py:139`, a finding); `NothingComesBack` excepts this case and no other. `ValidSet` is the check of
both lists of a form: the groups exist, and at most one of them is exclusive.

### RouteMemory and RouteSelection: which route, which model

RouteMemory is the memory of models per route and the order of candidates as operators: what a
report makes of an entry (`Remember`), scores, what is remembered, and `CandidateOrders` with
aliases, manual lists and what a probe found. What the code sorts is modelled by the orders in which
nothing stands behind what it comes before (`Sorted`), a set: where the keys are equal, any of them. Scores are kept as integers, in fortieths.
RouteSelection is a few request threads over it: `Look` (cooldowns, outside of the lock), `Rank`
(score with priority, failures, last failure; the session's route; the rotation of equal
routes: one step under the lock), `Choose` (the route's models, with the probe), and the outcomes
`Answers`, `Fail` and `AskNext` with their marks on health and memory. The jitter and the shuffle
are any value. The retry budgets are UpstreamRetry's: here a request may go on or end. Names of
models are compared as values; the similarity of names is a constant set. What follows a failure
(`Afterwards`) is what the loop may do: the route is given up and the routes are looked at again; the
same route is put in front of the cycle again (another key, fewer tokens, a limit of requests); or,
after a delay, the next route of the old cycle is taken, and when that is used up all are looked at
again (`Onward`). A route a request comes back to keeps the order of models it was first given, as
`route_model_orders` does. `Look` reads all cooldowns in one step, while the code reads them one after
the other: a mark between two of these reads is not in the model.

### StreamNormalizer, StreamWriters, MessageStream, ConvertedStreams: answers converted

StreamNormalizer is `normalize_stream_choice` and what it calls: a function from the state of a
choice and a chunk to the next state and the event that goes on. A text is a sequence of tokens
(words, blanks, halves of a marker, the opening of a tool block, a complete call in a block), which is as
fine as the code's tests are; arguments are fragments that together are JSON or not. StreamWriters
maps an event to the packets of the Anthropic and the Gemini answer.

MessageStream is the abstract specification: what an Anthropic client may see. A message starts,
blocks with fresh numbers are opened, filled and closed, it is completed when all are closed, or an
error ends it. ConvertedStreams is one request from entry to end: the execution within or
beyond the grace, heartbeats, failover of an answer without output, the conversion, the end with
record and snapshot, and a client that may leave at each packet; for a request that is not streamed,
the collecting of the answer. It implements MessageStream (`Promise`, checked as `ClientSees`):
the client's view is computed from the packets sent. "attempt" is no packet of the program: it
marks in `client` where a replaced answer without output begins again. An upstream execution has six
outcomes (`Kinds`): a stream, a JSON answer with or without output or whose body cannot be read
("unread"), an HTTP error, no response. An unread body leaves `handle_anthropic_stream_response`, and
the handlers of answers that are not streamed, by an exception that nobody records (a finding);
Gemini's stream reads it inside its generator, which does.

`TextKept` reads the words of a text off the packets a client has got (`Readings`) and off the chunks
that were read (`Sent`); words are the tokens of texts that are neither blanks, parts of markers
and blocks of calls, nor tokens of reasonings (the code drops a chunk of blanks alone, and
`TextKept` does not speak of blanks). `CallsWhole` says of each call what its arguments are
made of, and that each block of a call was filled once when the message is complete. The arguments
are what upstream sent, whole, in pieces or again in its last message; or they are an empty object,
and then the tool requires no arguments (`EagerTool`) and the last chunk that was read has named
the call (`NamedLast`). This is where the code loses arguments: the header of such a call goes out with
its name, the chunk is finished as "tool_calls" with "{}", and the readers stop before the pieces
that follow (`tools.py:3431`, a finding). The property says that they are lost in no other way. It has two
exceptions, which TLC shows to be needed. The calls of a last message carry no index; they
are all written under index 0 (`normalize_tool_call_list`, `server.py:8651`), so two of them are
one block with two fillings (`IndexRepeated`). And an answer that is finished by a reason that does not wait for calls
("length") ends without the arguments of a call whose name was sent on before them (`CutShort`).

## Runs

| Run | Instance | Shows |
| --- | --- | --- |
| `retry` | 2 of 3 routes per request (2 keys and a 429 retry; 2 models that race, no key; no model), 3 attempts, fairness | failed keys are not reused; only the returned response is open; failure only when spent; the loop ends |
| `keys` | 2 threads, 2 keys, a list that loses a key and gets it back, storage that may fail | no free key is passed over for a full round; cooling keys have failed; cooldowns are honoured |
| `candidate_race` | 4 candidates | losers closed, an accepted answer wins |
| `coalescing` | 3 requests of one key, 1 of another, fairness | entries are completed once; each request ends or waits for an entry whose copy failed |
| `relay` | 4 attempts, 2 routes, 2 lines per attempt (1 if there is a fourth), 1 heartbeat | one end, no trace of empty attempts, one upstream stream, only whole answers cached, and recorded as such if not first, leaving ends failovers |
| `resume` | 2 requests in turn, 4 pieces, 3 failovers, a minimum of 2 pieces | no gap, no more repetition than what was too short to keep; the snapshot leaves nothing out; what can be cached |
| `orders` | 1 thread, 3 orders of one account (two with groups, one whose fulfilment may be refused), 3 events, a crash, fairness | a paid order has its subscription and its group; a processed event has happened; a recorded event is settled |
| `ledger` | 2 threads, 2 accounts, 3 codes, 3 requests, 2 crashes | recorded transfers were paid; without overlap nothing is granted twice; what is undone was overtaken |
| `storages` | 4 calls of either kind, 2 accounts or 2 cache keys, 2 moments | deletions leave nothing; both storages give the same rows and never an expired one |
| `accounts` | 2 threads, 3 requests, 2 accounts, 2 exclusive groups, a key, a subscription, both storages, first accounts and forms in pairs (`Paired`, `FormsAgree`) | what names a deleted row was overtaken; exclusive groups meet only by additions; nothing comes back or is lost but by a request that asks for it |
| `streams` | 3 chunks of 22 kinds, 6 outcomes of an execution, 1 failover, 5 kinds of request | text in order and complete; tool calls whole; one record; the abstract message stream |
| `routes` | 3 routes of 2 priorities, 2 requests of one session, 2 models, 3 outcomes of a probe, 3 configurations, 4 ticks | priority, a session's route, and the model asked for give way only for the named reasons |

All of them pass; each property has a mutant of the code's model that violates it. Where the code
breaks what its documents, tests or messages say, the property names the exception, so that it
holds and shows that there is no other; each of the exceptions was shown to be needed (without it TLC
finds a counterexample). `findings` lists them, with the line and the sentence they contradict. Among
them: overlapping deliveries grant a payment twice; a continuation is cached as the whole answer; the
profile form takes an account's groups away; exclusive groups are added together; one connection
error moves a request to another model for a day; a route that failed last stays first; Anthropic
clients get no heartbeats during a delegated answer; errors after a failover, and JSON bodies that
could not be read, are never recorded; parallel tool calls are lost behind the first, and so are
arguments sent after the name of a tool that requires none; an account that its status switched off
comes back with its next form; overlapping requests redeem a code twice and undo a balance; a request whose failover failed is recorded as failed
and then, without its data, as complete.

`TypeOK` is an invariant of every module that has theorems, and proved there; the runs leave it out,
since a violation of it would surface in the other properties. `BlockedStaysBlocked`,
`SingleLateStart`, `NeverRepeated`, `WinnerStaysOpen`, `NobodyForgotten`, `UsedWasGranted` are
theorems only. That `PaidHasSubscription` and `ProcessedDelivered` survive overlapping deliveries is
shown by their theorems, for any number of threads; the `orders` run has one thread, which crashes.

Why the bounds suffice. The retry run needs two routes to fail over, two keys to switch, two
models to race or switch, and a route without models; its constraint limits a request to the pairs
{a,b} and {b,c} and the marks of other requests to these. Budgets of three attempts, smaller than
any the configuration gives (`Variants` is at least 6), already reach every exit, and the proofs
hold for all of them. The key pool's run has one route; several, with keys moving between routes
that share a base URL, are covered by the proofs, which assume nothing of the configurations but
that no list has a key twice. The request of the InterruptionResume run has an instruction
(`Instructed`), without which snapshots saved after a runtime hint have a key nothing looks for.
Two threads are needed for each race between requests, and a third request for a waiter besides
owner and completer, or to delete what two others name. In StreamRelay two lines let an attempt
be cut before, between and after output, three attempts give a failover of a failover, and the
fourth (with one line) is the one made below a failover that raised; in
InterruptionResume four pieces and a minimum of two let a text be too short, long enough, or long
enough together with the one before it, and the third failover follows a silent attempt after a
cut continuation. In ConvertedStreams three chunks let a text or call be held back, joined and
finished, and let blocks alternate and come back; with one failover every kind of answer follows
every other. Two kinds of chunk name a call of a tool without required arguments, with no arguments
and with the first piece of them; a third has the piece that follows, which such a call never
gets. In AccountAdmin two constraints keep the run within minutes (some 130 s): `Paired` takes two of
the first accounts, which differ in all that operations look at; `FormsAgree` takes, of the forms that leave
an account switched off, those that give no groups and do not create or activate it. The theorems
have neither. Two moments and a lifetime of one let a row be fresh, expire and be asked for; four
calls create, use, change and delete a row. In RouteSelection the threshold of two failures and
the doubled cooldown with its cap are reached within four ticks, and so is the growth of a memory
beyond the weight of a priority, which is scaled down to 150 from 1,000,000. The three
configurations have explicit sessions, fingerprints of prompts, and routes with aliases and a manual
list. A probe gives a list with the model asked for, one without it, or fails (`<<>>`, which is also what is
there when no probe is made, since models are remembered or listed by hand). `OneOnRoute` leaves out
states in which both requests are on a route; one is, while the other looks, ranks or rests, and that
is when they meet (3.5 million states, some two minutes). Heartbeats only add
stutters, one is enough to meet a client that left. Clocks and counters are capped by guards on
the environment (`MaxTime`, `MaxClock`, `MaxFailures`, `MaxRequests`, `MaxCalls`, `MaxCrashes`,
`MaxAttempts`, `MaxLines`, `MaxChunks`, `MaxFailovers`, `MaxBeats`, `MaxCuts`); nothing in the
program's own steps is disabled by a bound, except that a report of RouteSelection takes a tick, and
that a chunk whose written-out calls found no index left could not be read (`Fits`; the run has none).
Symmetry is used only in runs without liveness, over values no definition tells apart.

Fairness. `Terminates`: weak fairness of the loop's own steps; every upstream request has a
connect and a read timeout and every sleep is finite. `EndsOrStranded`: weak fairness of each
thread; the wait on an event has no timeout and is not assumed to end. `EventSettled`: a
thread goes on, and the provider delivers an event again until it is answered with success; orders
whose fulfilment is refused are excepted. Crashes, clients, other requests and upstream's choices
are never assumed fair.

`CHECK_DEADLOCK FALSE` stands where requests, calls or chunks are finite in number and simply end.

## Proofs

`tlapm` checks the following for all values of the constants, under the named assumptions in
the modules (which only give the constants their types: finite sets, natural numbers, a `None`
outside the others).

- **UpstreamProofs** extends UpstreamRetry and RouteSelection. Of the retry loop: `TypeCorrect`, then `BlockedCorrect`, `ResponsesClosed`,
  `LateStartOnce`, `FailedKeyCorrect`, `NeverRepeatedCorrect`, `FailureMeansExhaustedCorrect`.
  `BlockedStaysBlocked` is inductive given types, once it is shown that a rebuilt cycle is a
  sequence of unblocked routes. `SingleLateStart` needs `LateInv`: the count of late starts is
  one exactly when the follow-up is consumed. `NeverRepeated` needs `RepeatInv`: every pair of
  route and key already sent is burnt, that is, its route is blocked or its key is among the
  failed ones. `FailureMeansExhausted` needs `Alive`: while the loop runs, some
  candidate is unblocked, so that an emptied queue can be rebuilt.
  Of the routes: `RouteTypeCorrect`, `SessionKept` and `PriorityKept` (action properties) and
  `OwnModelFirstTried`, for any routes, priorities, models, lists, sessions and threads. The proofs
  start at what the operators on sequences return: the recursive functions of `Among` and `Joined`,
  and the sums of `FoldSet`, exist and have their types since a least number (or a smallest subset)
  without them would have one before it that has them (`LeastNat`, `Climb`, `SubsetsClimb`). From
  these follows what a ranking is, however it rotates and shuffles (`RankOutcome`): routes that are
  active, none before one of a better rank but the session's. `SessionInv` then says that the route of
  a session that is not shaken does not cool, and is among the routes of every request that is about
  to rank and has not looked too early; `ModelInv`, that a route remembers a success of another model
  only where it is excused, and that a request has come to another model only after the one asked for.
  The type of the cooldowns needs that no route has more failures than ticks (`FewFailures`). The
  assumptions are that each route is listed once, and that the cooldowns that a
  run can come to are whole numbers of ticks.
- **RequestProofs** extends KeyPool, CandidateRace and Coalescing (common names of the last two have
  the prefixes `Race` and `Co`). Of the pool: `PoolTypeCorrect`, `BypassBounded`, `CoolingDeserved`,
  `CooldownsHonoured`. The bypass bound rests on `Round`: the number of times a free key was passed
  over plus its distance from the cursor stays below the length of the list, which each choice
  preserves since the cursor moves past the key it takes. `CoolingDeserved` rests on `Health`, which
  says the same of the stored tables and of the ones a restart loads.
  Of the race: `RaceTypeCorrect`, `WinnerOpen`, `LosersAreClosed`, `WinnerFound`, from one
  invariant that says what each side knows: before the decision nobody closes what the loop
  has not looked at, a tardy candidate sees the stop event, the winner is accepted and open. Of
  coalescing: `CoalescingTypeCorrect`, `EntriesOwned`, `CompletedAtMostOnce`, `NoneForgotten`. The
  strengthening `Entries` says that an entry is in the table under its own key or being
  completed, never both; the delicate case is a request that completes the entry of another.
- **PaymentOrdersProofs**: `TypeCorrect`, `PaidSubscribed`, `ProcessedAreDelivered`, from an
  invariant on what each thread has read and done at each place (`Threads`), on the stored
  orders (`Linked`) and on the events (`Processed`). It holds under any overlap and crash.
  `PaidJoined` does not: a thread stores the account's memberships as it read them, with the plan's
  group, so that of two fulfilments that overlap one takes the other's group away. The theorem has
  the hypothesis that there is one thread (crashes included), or that the orders of an account
  are for one group (any number of threads). `Joining` says that a thread between the reading and
  the storing of the memberships has all groups of paid orders in its copy.
- **StreamRelayProofs**: `TypeCorrect`, `ExitPasses`, `StreamsOne`, `EmptyHeldBack`, `StreamEndsOnce`,
  `CachedWhole`, for any number of routes, attempts and lines, and so for stacks of generators of any depth.
  `Control` ties the places of the request together, `Held` says who holds the open
  stream, `Seen` that a generator with output showed it, `Ending` that after an end or an error
  every generator is about to return. `CachedWhole` needs the whole of `Stack` (who waits for
  whom, and which of them failed before), since what an exception meets on its way down
  depends on it: it is a cut that a generator below retries, and the retried answer is cached.
- **AnswerProofs** extends InterruptionResume and ConvertedStreams. Of the resuming: `TypeCorrect`; `CachedWhole` without a hypothesis (`Whole`);
  `SnapshotTail` for any number of requests at once, if the request is `Instructed`;
  `StreamContiguous` if also the feature is `Enabled` and requests are sent `Alone`. The hypotheses are
  constants of the model which TLC refutes the properties without: an uninstructed request's hints are kept under a
  key nothing looks for, without the feature nothing is resumed, and two requests at once
  share one snapshot. `Owned` and `Hinted` measure how far snapshot and hint are behind the client: by
  no more than the texts that were too short to keep (`Untold`).
  Of the converted streams: `AnswersRecordedOnce` (once, but for a malformed stream that is recorded twice and
  the two ways in which nothing is: a refused further attempt, a body that cannot be read), and `MessagePromised`, the refinement of
  MessageStream, for any requests, texts, calls and tools, chunks of any kind, and any bounds. Both rest on
  `StreamInvariant` (`StreamsKnown`), which TLC checked first. It says that all that was yielded, sent
  or waiting to be sent, is `Legal`: each packet is one the abstract message allows after the ones
  before it; that the writer's own record of its open blocks `Matches` what the client will see
  then, with no more blocks than two for each chunk and one for each tool, so that a fresh
  number is left; that when a stream is closing the message is complete or ended by an error; and
  what is recorded in each phase. The writer is shown to keep this operation by operation (`TextOpens`, ...,
  `EventWritten`, `MessageCloses`); of the normalizer it needs only that the text of an event is empty or
  visible (`ChoiceNormalized`), since a blank one would open a block before its message. For the
  recursive functions of both (`NormalizeCalls`, `Without`, `WriteCalls`, `CloseTools`, `Views`) the
  step from each value to the next is proved, and `Climb` takes a property up to the last. Left to
  the actions is who takes packets over, sends or drops them.
  `TextKept` rests on `TextInvariant` (`TextsKnown`), checked by TLC first: while an answer is read, the
  words that were yielded, followed by the words in the held-back block, are the words that were sent
  (what waits as half a marker is no word). The lemmas follow a text on its way: taking tags out and
  trimming blanks keeps its words (`ExtractWords`, `TrimmedWords`), so does a marker that is removed
  (`ConsumedWords`), what a chunk gives out is what was held and what came, but for what is held
  on (`NormalizedWords`), and the two writers add to what is read what the event says and
  nothing else (`EventUttered`, `EventTold`); for the second, that the arguments in a Gemini packet are
  no words, the calls are followed through all stages (`Argued`). `Speaks` says of packets what is read
  at their end and that no packet before says more than was sent; `Aired` that all was said where a
  packet completes the answer. That holds back to any packet, which is why a client that leaves anywhere
  has a prefix.
  The assumptions (`StreamAssumption`): the tools are finitely many, numbered from 0 as upstream
  numbers them, the parts of a chunk are sequences, and a call names one of the tools or, after its first
  piece, none.
- **CallProofs** goes on from there (it extends AnswerProofs): `CallsAreWhole`.
  `CallsWhole` rests on `CallInvariant` (`CallsKnown`), whose parts TLC checked first. `CallKnown`: while
  an answer is read the choice is `Uncalled`, since the first event that tells of a call is finished
  and ends the reading; and what the merged message says of an index is `ToldRight`. `CallStreamed`: no block
  of a tool is started before that either, and then each is `OnceFilled`, unless `CutShort`; what waits
  when a handler is left may be a filling and is lost, so that the fillings are known of a
  completed message only. The proof has five parts. The state of a tool says what it was told of in
  this event (`ToolSettled`), which every call that is added, finalized or found in the text keeps
  (`ToolGoesOn`, `PendingSettled`, `TextStageSettled`; `WholeSettled` for the last message); `EventCalls`
  concludes what an event may say of calls, `CallsEnd`: that its arguments are right, and that of a `Patient` finish
  no call is without (`AllArgued`). That an empty object is only told in the chunk that names its call is
said of the names (`CallsNamed`): while nothing is emitted the choice is `Calm`, its calls are the first
indexes without a gap (`Gapless`) and none is of a tool that requires no arguments, since naming
one emits its header; so after the calls of a chunk such a tool was named by one of them
(`GivenNames`), and calls written as text come behind these or have complete arguments. The writer starts and fills what the event says (`Served`, `EventServed`): the
  deltas of a block are the merged arguments of its index, which are one text. What closes
  a message starts and fills nothing (`OnceMore`). And since nothing is legal after the end of a
  message (`NothingAfter`), a client that has seen it has got all that was yielded.
- **AccountAdminProofs**: `TypeCorrect`, `OrphansOnlyRaced`, `ExclusiveKeptApart`, and the action
  properties `ComesBackOnRequest` and `LostOnRequest`, for any accounts, groups, keys,
  subscriptions and threads, over either storage. First the effect of every call of the two storages
  is stated as a predicate on the contents before and after (`AccountPut`, `AccountCut`, ...), and both
  storages are shown to have it; the rest never looks at how. The invariant `IInv` was checked by TLC
  first. `Knows` says what a request that was not overtaken knows of the contents at its next write (its account
  exists, its list has only groups that exist, its row is the stored one but for its
  change); `Listed` that a deletion of a group that has selected the lists misses none, whatever was
  stored since; `Unshared` that MySQL's unique key removes no account but by a late
  write. The assumption is that the groups are finitely many, which the counting of exclusive ones needs.
- **StorageProofs** extends StorageBackends and AccountLedger (common names of the second have the
  prefix `Ledger`). Of the storages: `TypeCorrect`, `DeletedLeavesNothing`, `SameRowsGiven`,
  `SameCachesGiven`, for any accounts, ids, number of calls and size of the history. First what
  every pair of calls writes is shown to be the same, though the two are written apart: REPLACE
  removes nobody since the external key is nobody else's, a list that is not selected does not have the
  group, a switch of a key that is not there changes nothing. `RowsInv` then says that the sections are
  equal, that the events and logs here are those there whose orders are left (`IsKept`), and
  that each log is of an order which an event names (`Linked`): without it an order with the id of a
  deleted one could bring its log back in one storage only. `Agree` says of two
  caches that they have the same rows that have not expired, which pruning either of them keeps;
  `Newest` that of `max + 1` rows of different times, all but the oldest are what the choice of the
  newest (here) and the count of the newer (there) keep. Its assumptions: the webhook event and log
  that a customer starts with have ids (they are random) that no later one gets; the calls are
  made as the services make them, as in the run.
  Of the ledger: `LedgerTypeCorrect`, `UsedGranted` (the copies of buckets that threads hold
  must be part of the invariant) and `OneAtATime`: up to the first overlap and the first crash,
  codes are granted once per activation and no account is paid more than its rebates. Its
  invariant says that then at most one thread is busy and what it has read is still stored.
  `RecordedPaid` holds under any overlap and crash: `RInv` gives every recorded transfer the
  units that were paid for it, and no two records, stored or in a thread's hands, the same ones.
  `NothingUndone` (action property): while a request is alone, what it stores is what it read with
  its own change, which `LInv` says row by row.

Every safety property that a run checks has its theorem. Only model-checked is liveness (`Terminates`,
`EndsOrStranded`, `EventSettled`), which is outside the prover's reach.
Theorems listed without a property state invariants that no run checks: types, and the lemmas
that say what the strengthenings are for.

## Not modelled, and the plan

The proofs and the runs say nothing of the components that `PROJECT.json` lists as not modelled.
Left out for good, since they have no control worth a model: the translation of payloads
(`compat/protocols.py`) and their repair, prompt cache hints and policies, headers, dashboards and
analytics, platform dataclasses, logging, scripts. Left out so far: the Responses stream, whose
events and item numbers are a third grammar over StreamNormalizer's events; the polling of image
tasks; the merging of configuration; what makes a request cacheable; the continuation with cached
tool results; the window of login attempts; the recorder's counters over many requests; the two
stored copies of the route memory (at start-up the JSON file is merged over the database's rows,
`server.py:1182`).
