# A verification project for HamZaboonRobot

HamZaboonRobot is a Telegram bot for learning vocabulary: a learner asks for
words, saves them, and studies them in short daily sessions scheduled by FSRS.
This directory holds TLA+ models of it, the TLC configurations that check them
and the TLAPS proofs about them. Six parts are covered: the study session, the
word query with its daily quota, the AI router both of them call through, the
gate to the bot's database with its backups and restores, the egress supervisor
of the content factory, and the factory's console with its pre-card pipeline.

## Inventory

| Part | State | Operations | What makes it correct |
|---|---|---|---|
| Study flow (`handlers/study_handler.py`) | `context.user_data["current_session"]`, the session's message id, reveal flags | start, resume, draw a card, advance, finish | the visible card is the active one; a session can always be ended; a failed start leaves nothing behind |
| Taps on a card (`handlers/srs_handler.py`) | none of its own | grade a review, grade a first exposure, reveal, delete / confirm / cancel | a card runs its scheduling transition once per session; a reveal is never undone |
| Store and ledger (`services/session/store.py`, `services/db/sessions.py`) | one `study_sessions` row, `session_grade_ledger` | save, load, invalidate, clear, nightly purge | the row's day is its session's day; what is restored can be continued |
| Daily slots (`services/scheduling.py`) | a counter per user and day | consume, release, purge | never above the plan's limit; given back when nothing was delivered |
| List assembly (`services/session/assembly.py`, `tier_registry.py`) | none | build a list, find a refill | due cards first, up to the plan's size |
| Saved words (`services/db/words.py`, `fsrs_core.py`) | `saved_words`, `review_events` | save, unsave, grade, delete | grade, event and ledger in one transaction |
| Telegram seam (`services/utils/helpers_retry.py`, `services/send_pretty.py`) | a concurrency slot, the offline flag | send once, edit with retries | callers learn whether a call failed, not whether it had an effect |
| Reports (`services/db/session_reports.py`) | `session_reports` | insert, list, reopen, purge | one per session |
| Word query (`bot.py`, `services/word_query.py`, `services/db/users.py`, `query_results.py`) | the day's query count, up to 100 stored results, the awaiting flag | reserve, search duplicates, call the AI, refund, store, offer an old card | the count equals the answers given that day; nothing is charged twice; an offered card exists |
| AI router and limiter (`services/ai/fallback_router.py`, `limiter.py`) | per preset: a semaphore, in-flight count, request times, failure streak, backoff | acquire, call, record, fall back | permits return to their semaphore; usage counts answers; a request ends |
| Egress supervisor (`tools/egress/`, `factory/precard/provider_lease_policy.py`) | server pool, cooldowns, leases, one tunnel, a cache of clean servers | lease, report, refresh, restart | one egress process; lease, answer and tunnel name one server; no lease without an owner |
| Factory console, runs (`factory/webui/server.py`) | `runs.json`, `Popen` handles, child processes | create, list, show, cancel | a record says what its child did; only the own child is signalled |
| Factory console, screening (`factory/webui/server.py`) | `_SCREENING`, its store, pump threads | start, status, abort | one export at a time; the store follows memory |
| Pre-card pipeline (`factory/precard/pipeline.py`) | a progress file for each of seven stages, the human queue, the output | run, resume, select stages, rekey | no row mixes generations; a kill costs one batch; vetoes are queued once |
| Pronunciation (`services/tts_service.py`, `tts_cache.py`) | per-key locks, a cache of file ids | speak, cache, purge | a cached file is playable |
| Database (`services/db/schema.py`, `backup.py`) | a shared/exclusive gate, the file and its log, `.pre_restore`, the key of the last restore | connect, commit, export, restore | nobody is connected during an exclusive hold; no commit is lost; everybody gets in |
| Routing and jobs (`bot.py`, `services/retention.py`) | maintenance and offline flags | route an update, nightly purge, health check | no update is lost between gates |
| Presets and costs, administration, texts, the factory's viewers and pilots, `tools/` scripts | tables, forms, files | - | not modelled, see the end |

How they interact. `bot.py` builds the application without
`concurrent_updates`, so Telegram updates are handled one after another: a
handler runs to its end before the next one starts, although every await lets
background jobs run and time pass. The study handlers call the store, the slot
counter and the grade transactions in worker threads and await each of them;
they call Telegram through the retrying seam. What is hard is therefore not
two handlers at once but one handler cut in two: the process dies at an await,
a database or Telegram call fails half way through a handler (or a Telegram
call takes effect and still reports failure), midnight passes between reading
the day and using it, the nightly purge runs, and messages of earlier sessions
keep live buttons in the chat. `PROJECT.json` lists these places under
`hazards`, each with the properties that watch it.

The other parts are concurrent in the ordinary sense. An AI request runs in a
worker thread that nothing cancels: its caller may have timed out and started
another one. The supervisor and the factory console are threaded HTTP servers;
each holds its lock for some steps of a request and drops it for others (a
ping, a spawn, the wait for a child to die). Around them stand processes with
a life of their own: the tunnel's xray child, the children of console runs,
the export. The pipeline is sequential, but is killed, limited and resumed at
will, and only its files tell one run of another. The bot calls the router by
a function call, whose outcomes (a card, a time-out, an error) `WordQuery`
takes as the choices of one step; the console starts the pipeline as a child,
which `FactoryConsole` composes.

## Modules

* `StudySession` - the study session of one learner: state, actions,
  properties and fairness.
* `StudyHistory` - `StudySession` with a history of each chat message (the day
  its card was put there, whether a tap on it has graded); it restricts no
  step. Two properties about old messages need it.
* `WordQuery` - the word query of one learner, from the update in the queue to
  the card in the chat. `QuotaLedger` - the abstract quota it implements.
* `AiRouter` - the threads of AI requests over a chain of presets.
* `DatabaseGate` - the threads that pass the database's gate, and what a
  restore does to the file under them.
* `EgressSupervisor` - the lease service and its tunnel.
* `WebRuns`, `ScreeningJob`, `PrecardRun` - the console's runs, its screening
  export, and the pipeline; `FactoryConsole` composes the three.
* `MC...` - small instances of each for TLC.
* `StudySessionProofs`, `WordQueryProofs`, `QuotaLedgerProofs`,
  `AiRouterProofs`, `DatabaseGateProofs`, `EgressSupervisorProofs`,
  `FactoryConsoleProofs` - the theorems. `PrecardRunProofs` holds those about
  the pipeline's files; it builds on `FactoryConsoleProofs`, because the console
  and the terminal are what steps the pipeline.

A definition marked as a mutant (`\* mutant` at the end of its line in
`StudySession`, `(* Mutant: ... *)` above it elsewhere) is a plausible bug of
the operation it precedes; no specification uses it. Each is there to show that
a property notices the bug.

## Study session

### State

| Variable | In the code |
|---|---|
| `day` | the app-day, `_app_day_str()` |
| `words` | `saved_words`: each word is not yet exposed (`pre`), scheduled for later (`sched`), `due` or deleted (`gone`) |
| `mem` | `context.user_data["current_session"]`, a `SessionState` |
| `peeked` | the `revealed_<word>` flags in `context.user_data` |
| `row` | the learner's `study_sessions` row: date column and stored session |
| `ledger` | `session_grade_ledger`, per word and activity, with the day of `graded_at` |
| `used` | the settings `sessions_used_<user>_<day>` |
| `chat` | what the messages of the chat offer: the front of a card, its back with grade and delete buttons, the delete confirmation, or nothing to study |
| `pc`, `loc` | where the running handler is and its local variables |
| `faults` | how many failures have happened |
| `delivered`, `grades`, `reports` | history: sessions delivered on a day's slot; transitions of each card and reports stored since the last build |

A `SessionState` keeps its cards, planned size, graded words, message id,
frozen prompt, reveal and day stamp. The wording of a card, the prompt that was
drawn for it, grades 1 to 4, FSRS numbers, `before_stability`, streaks and
`review_events` are left out: no branch of the session flow depends on them.

### Actions

A handler is a chain of actions, cut at each await whose effect outlives it:

* start: `StudyTap` (reads the day) - `StartGate` - `Consume` - `BuildSession`
  - `StartPersist` - `SendFirst` - `FirstPersist`; a failure goes to
  `StartCleanup` and `ReleaseSlot`; a live session goes to `ResumeSend` and
  `FirstPersist`.
* grade: `GradeTap` (stale memory, row snapshot) - `GradeCheck` (gate, ledger,
  duplicate and active-card guards) - `GradeTxn` - `GradePersist` - `Advance`.
* advance: `Advance` (gate, pop, draw and edit, or report and edit) -
  `AdvancePersist`, or `FinishClear`.
* reveal: `RevealTap` - `RevealPersist`. Delete: `DeleteTap`, `DeleteNo`,
  `DeleteYes` - `DeletePersist` - `Advance`.
* around them: `Midnight`, `ComesDue`, `Unsave` (`toggle_review_word`),
  `PurgeSessions`, `PurgeSlots`, `Crash`.

Every database call may fail (`"db"`). A Telegram call may fail without effect
(`"lost"`), with effect (`"late"`: the answer of the last attempt was lost), or
be refused for good (`"refused"`, a `BadRequest`, or the answer to a tap that
`notify_callback` lets through, which leaves the handler where it stands). `Crash` may come between any
two steps and forgets what is in memory. `Midnight` and the purges may come
between any two steps too. A sent message gets an id that neither the session
nor the row refers to; when all of the few ids are in the chat, an old message
that nothing refers to gives way.

Not steps of the model: a tap dropped by the rate guard or the maintenance gate
changes nothing; `handle_study_inactive` only touches a message that offers
nothing; the tier-3 branch of `advance_session` is unreachable while
`generate_tier3_node` returns None; the fallback texts sent after an error carry
no button.

## Word query

| Variable | In the code |
|---|---|
| `day`, `count`, `date` | the app-day; `users.words_asked_today` and `words_asked_date` |
| `cards`, `minted`, `expired` | the learner's unexpired `query_results`, oldest first; tokens given out; rows that have expired |
| `words` | `saved_words` |
| `waiting`, `pending` | `user_data["awaiting"]` and the restore marker `AWAITING_PENDING_KEY` |
| `inbox` | updates that wait, in order of arrival |
| `pc`, `cur`, `text`, `tok`, `word` | the running handler, its update and locals |
| `shown`, `offers` | cards and retrieve-or-new offers in the chat |
| `held`, `delivered`, `forfeited`, `billed` | history: the day of the open reservation, cards delivered and charges lost per day, whether this handler has delivered |

An ask is the chain `Take` (text_router or the tap's handler) - `Throttled`,
`Invalid` or `Valid` - `Find` (a stored card for the same text) - `Reserve` or
`Exhausted` - `Generate` (the AI call: any word, or `GenerateFails`) - `ByWord`
(a stored card of the same word) - `Store` - `Streak` - `Usage` - `SendCard` -
`Reply`. A duplicate goes through `RefundDuplicate`, `Alias` and `MakeOffer`;
failures go through `Refund` or `Undo`, and `Raises` restores the input as
`_dispatch_awaiting` does. Taps on an offer are `Take` with kind new, reuse
(`Resend`) or cancel; a tap on a card's save button is `Toggle` and `Flag`.
Around the handler the learner types and taps ahead (`Type`, `TapAdd`,
`TapOffer`), `Midnight` passes, `Expire` drops old rows, and `Crash` kills the
bot, after which the update may be handled again. A card is its word; its
content, the profile and the wording of replies decide no branch.

`QuotaLedger` knows only today, the charges of today, one open reservation and
what each day's charges became. `WordQuery` maps `open` on `held` and `spent`
on the counter as the code reads it (zero when its date is not today), so a
refund after midnight must be a ledger refund that gives nothing back.

## AI router

`conf`, `cached` are `max_concurrency` in the table and in the cached chain;
`table`, `lims` the `LimiterStore` states (capacity, semaphore, in-flight
count, window of the last minute, streak, backoff); `sems` every semaphore made
so far, for a worker keeps the one it captured after a swap; `usage` the day's
requests. Each worker has a place in the code and its locals. The steps of
`_call_ai_limited` are cut where CPython may switch threads between calls:
`Request`, `Start`, then per preset `Get` / `Make` / `Swap` (limiter_for, which
replaces the semaphore of an idle limiter), `Check` (backoff, daily cap, RPM),
`Capture`, `Acquire` or `AcquireTimesOut`, `CountIn`, `RpmEnter` or
`RpmDeadline`, `CallAnswers` or `CallFails`, `LogUsage` or `LogFails`,
`Sideline`, `CountRead`, `CountOut`, `Release`. `WindowSlides`, `BackoffEnds`,
`CacheRefresh` and `Edit` stand for time and the administrator. A caller that
times out is no step: nothing it does reaches the thread.

## Database gate

| Variable | In the code |
|---|---|
| `readers`, `writer`, `waiting` | `_readers`, `_writer_thread`, `_writer_waiting` of `_DB_GATE` |
| `pc`, `op`, `conn` | where each task is, its call, its connection: to the file, or to one that has been replaced |
| `live`, `disk` | what is committed, and what of it the main file holds without the log |
| `backup` | the `.pre_restore` copy |
| `made`, `image` | backup files and their content |
| `upload`, `was`, `told` | the restore handler's file, `was_maintenance` and report |
| `acked`, `applied`, `replaced` | history: rows nothing lost, the file restored last, replacements |

A task is a thread inside a database call. A shared call is `SharedEnter` (or
sleeping in the condition) - `Connect` - a body - `Release`; an exclusive one
`ExclusiveEnter` - `Export`, or `ImportCheck` - `ImportCopy` - `ImportReplace` -
`ImportUnlink` - and `ExclusiveLeave`. A step is what happens under the
condition's lock between acquiring it and sleeping or releasing it; `notify_all`
wakes every sleeper, which then has to look again. The restore handler is the
chain `GetLast`, `GetMode`, the import, `SetLast`, `SetMode`, each a call of its
own through the gate, with other calls between them. Every body may raise, every
step of an import may fail, `Crash` may come anywhere; `init_db` at the next
start reads the log. A database is its rows and the two settings the restore
reads and writes. SQLite is external and modelled by what the code relies on: a
commit goes to the log or, by a checkpoint, to the main file; closing the last
connection checkpoints. `shutil.copy2` copies the main file only, and
`os.replace` leaves open connections with the file that is gone: both are why
the gate has to be exclusive.

## Egress supervisor

`pool`, `linked`, `cooling`, `leases`, `cache`, `file` are the pool's servers
in order, those with a link, the cooldowns, the leases, the cache of clean
servers and the pool file; `tunnel`, `children`, `tlock` the owner's tunnel,
the xray processes and the tunnel lock; `boot` the sources fetched before the
service listens. A lease is `LeaseDirect`, or `LeaseStart` - `LeasePing` (the
clean cache) - `LeaseMint` or `LeasePark` - `LeaseNote` - `AcquireEnter` -
`AcquireProbe` - `AcquireUp` - `AcquireDone` (or `AcquireFails`, or `Recheck`
of a live tunnel) - `Grant` or `Fail`. `Report` cools, `Rotate` stops the
tunnel; a refresh is `FetchSource` per source and `SavePool`. `ChildExits`,
`CoolEnds`, `CacheStale` and `Restart` come at any time. Cooldowns end by an
action instead of a clock, so their lengths play no part.

## Factory

`WebRuns`: `registry` is `runs.json`, `procs` the handles, and each run has a
`child`, its exit `code` and whoever has its `pid` now. A create is
`CreateSpawn`, `CreateHandle`, `CreateRecord`; a listing loads without the lock
(`ListLoad`) and settles and saves under it (`ListSave`); `Get` polls one run;
a cancel is `CancelCheck`, `CancelTerm`, `CancelWait`, `CancelKill`,
`CancelRecord`, with the handle or, after `WebRestart`, with the pid and its
fingerprint. Reading the fingerprint and sending the signal is one step; the
window between them is the operating system's.

`ScreeningJob`: `screening` is `_SCREENING`, `store` its file; each run has an
`export` child, perhaps a `manifest`, a `pump` thread and `abort` requests. A
write of the store, which the code attempts and goes on without, succeeds.

`PrecardRun`: `disk` are the seven progress files, `mem` the states of the run
in progress. A result is the number of the run that made it (`v`), the version
of the upstream result it was made from (`up`) and a verdict (keep, drop,
redirect to the lemma). `Start` loads, selects and evicts (`_DOWNSTREAM`, for
rekeyed items); the items of a stage are places of the sample and a batch is the
places whose rank among them falls into it (`Items`, `Rank`, `BatchItems`), the
key of a place being its own or, after a redirect, the lemma's (`Key`); `Work`
does one batch, `Stop` is a rate or key limit inside
one, `FlushFile` writes one file; then the next batch or stage, the human queue
(`QueueRow`), and `RunWrites`. `RunKilled` is a signal at any moment.

`FactoryConsole` starts pipeline runs from the console (all stages) or from a
terminal (subsets, rekeys), ends the child of a console run with the run that
it is, and restarts the console as a whole.

## Runs

Passing runs (the study instances use sessions of two cards):

| Run | Instance | Properties |
|---|---|---|
| `study_faults` | 2 words, 3 messages, one midnight, one slot a day, reviews staged and first exposures immediate, any 2 database failures or crashes; about 2 million states | `TypeOK`, `RowDateIsInnerDate`, `GradedOncePerSession`, `SlotsRespectLimit`, `RevealIsDurable` |
| `study_network` | the same with both activities staged and one lost or refused Telegram call; 235 000 states | `VisibleCardIsActive`, `SlotsBalance` |
| `study_liveness` | `FairSpec`, 2 messages, one day, one lost, late or refused call or a crash; 76 000 states | `SessionEnds` |
| `word_query` | 3 texts, 2 words, limit 2, cap 2, one waiting update, 6 updates, 2 days, one failure or crash; 1.7 million states | `TypeOK`, `DeliveredWithinLimit`, `OfferIsLive`, `LedgerSpec`, `DeliveredInputConsumed` |
| `ai_router` | 2 workers, 2 presets, one request a minute and a day, threshold 1, 2 requests, one edit of the second preset, one failure; 770 000 states | `TypeOK`, `PermitsReturned`, `UsageIsAnswers`, `OneAnswerPerRequest`, `DailyOvershoot`, `EveryRequestEnds` |
| `database_gate` | `FairSpec`, a handler and a worker, one row, one backup file, 3 exports or uploads, one crash or failed stamp; 196 000 states | `GateExclusive`, `NothingLost`, `ReplacedIsCopied`, `ReportsAreTrue`, `EverybodyEnters` |
| `egress_leases` | 2 threads, 2 servers, a tunnelled and a direct provider, a probe batch of 1, 2 leases, one report, refresh, restart and fault; 327 000 states | `TypeOK`, `OneEgress`, `NoOrphanLease`, `LeaseNamesTunnel`, `EveryRequestAnswered` |
| `factory_console` | 2 runs (one of them the pipeline), 2 threads, 4 requests, 3 exports, one restart, 3 pipeline runs over 2 items and a lemma in batches of 1, two selections and rekeys; 1.0 million states | `TypeOK`, `DoneIsTruth`, `OwnChildOnly`, `OneScreening`, `NoStaleMix`, `UnsavedIsOneBatch`, `VetoesQueued`, `RowsComplete`, `DoneHasOutput`, `OnlyListingsForget`, `OnlyLeftoversMisjudge` |

Study:

* `RowDateIsInnerDate`: the row's date column is the stamp of the session in it.
* `GradedOncePerSession`: while a session is alive no card has run its
  transition twice since the session was built.
* `SlotsRespectLimit`: what was delivered on a day's slots is covered by its
  counter, and both stay within the plan, although a slot taken before
  midnight is released on the next day's counter.
* `RevealIsDurable`: a reveal that memory would redraw is one the row would
  redraw too.
* `VisibleCardIsActive`: between taps the session's message offers the head
  card or nothing.
* `SlotsBalance`: between taps, today's counter is the number of sessions
  delivered on it. Database failures and crashes are left out of this run on
  purpose: a crash after `Consume`, or a failed release, costs the learner the
  slot, and the code has no recovery for it.
* `SessionEnds`: a live session comes to an end.

Word query:

* `LedgerSpec`: the whole query flow is a behaviour of `QuotaLedger`, its
  liveness (a reservation does not stay open) included.
* `DeliveredWithinLimit`: no day is charged beyond the plan.
* `OfferIsLive`: the card an offer names is still stored (or has expired by
  age): the alias stored just before has not pushed it out at the cap.
* `DeliveredInputConsumed`: a failure after the card never re-arms its input.

AI router:

* `PermitsReturned`: in every semaphore, free permits and holders add up to
  its capacity, although limiters change semaphores under running threads.
* `UsageIsAnswers`: the usage of a preset is the number of answers it gave.
* `OneAnswerPerRequest`: a second answer is only asked for when the usage of
  the first could not be written.
* `DailyOvershoot`: the daily cap, checked against usage read before, is passed
  by fewer requests than have ever run at once.
* `EveryRequestEnds`: every thread comes back, abandoned or not.

Limits on calls at the same time are *not* a property: swapping a semaphore
between a thread's acquire and its count lets more calls run than
`max_concurrency`, and a lost decrement of `in_flight` can keep an edited limit
from taking effect. Nothing in the code promises otherwise, and both are listed
as hazards.

Database:

* `GateExclusive`: while a task has the gate to itself, nobody has a connection
  open, about to open included.
* `NothingLost`: the database holds what was committed since it was last
  replaced and what the restored file held; no commit goes to a replaced file,
  and no old log is read with a new file.
* `ReplacedIsCopied`: `.pre_restore` has everything a restore replaces, what was
  in the log included.
* `ReportsAreTrue`: a file reported as applied is the one applied last, and a
  restore leaves the maintenance mode as it was. Both only as long as there is
  no crash between an import and its stamp: the property says so.
* `EverybodyEnters`: whoever waits for the gate gets it. The instance has one
  exclusive caller; with two, `gate_starved` shows that one can starve.

Egress:

* `OneEgress`: a running xray child is the tunnel's or the one being started.
* `NoOrphanLease`, `LeaseNamesTunnel`: a lease on record was told to a client
  or has a request in flight; a told lease names the server it was granted on.
* `EveryRequestAnswered`: no thread waits for ever on the tunnel lock.

Factory:

* `DoneIsTruth`, `DoneHasOutput`: whoever settles a record - poll, listing,
  cancel - the child of a done run exited with success and, for the pipeline,
  wrote its output.
* `OwnChildOnly`: no signal reaches a process that merely got the pid.
* `OnlyListingsForget`: nothing but a listing that answers from records it
  loaded earlier loses a record or unsettles one. The listing does: it loads
  before it takes the lock.
* `OneScreening`: one export child at a time.
* `OnlyLeftoversMisjudge`: an export that still runs is declared ended only by
  the pump or the abort of an earlier one. Those do: neither asks which run is
  current.
* `NoStaleMix`: no output row mixes results of different upstream versions,
  unless a kill fell between two files of one flush - the exception is real,
  and the property shows it is the only one.
* `UnsavedIsOneBatch`: what a kill can lose is the batch in progress.
* `VetoesQueued`: an enriched result is queued at most once, and always if the
  run that made it reached its end. A run stopped between its flush and the
  queue loses its vetoed rows; the property says no more than the code does.
* `RowsComplete`: a full run that succeeds leaves no row with a part missing.

Bounds. Two cards are the fewest with a next card and a last card, and a
deleted or unsaved one among them. One slot a day makes the limit bite. One
midnight separates every pair of steps once; with two (checked for
`study_network`, 3.8 million states) nothing new appears. Three messages allow
the current one, an older one and a lost one. Two failures allow a failure
during the recovery from another. In `word_query` three texts of two words give
both kinds of duplicate, a cap of two makes an alias evict, and six updates are
two asks that fill the limit, a third that is refused, and the taps between.
In `ai_router` two threads, two presets and one edit suffice for a swap under a
holder, a capacity of one or two makes the semaphore matter, and a cap of one
is overshot by the second thread. In `database_gate` a handler and a worker are one exclusive and one shared
caller, one row is enough to be lost, and three exports or uploads are a backup,
its restore and its repetition; a second file, or the backup job as a third task,
changes nothing (checked without liveness, 845 000 and 816 000 states). In
`gate_starved` the job is the second exclusive caller, and two workers hold the
gate in turn. In `egress_leases` two servers are the hint
and another, and a probe batch of one leaves an unprobed rest. In
`factory_console` the lemma, a vetoed item, a stub and a dropped one each take
their branch; three pipeline runs are one that fails, one that rekeys and one
that resumes; the budget trades requests against pipeline runs, and the export,
which shares only the restart with the pipeline, runs in behaviours of its own.
Symmetry permutes words and messages, and the console's threads; it is not used
where liveness is checked. Deadlock checking is off where the bounded
environment may simply be done.

Runs that show a disagreement between the code and what it says of itself; each
is a finding in `PROJECT.json`, with the line that is quoted:

| Run | Property | What happens |
|---|---|---|
| `study_visible_card` | `VisibleCardIsActive` | `advance_session` pops the head, then building the next card fails: only a failed edit is rolled back |
| `study_stale_tap` | `StaleTapNeverGrades` | the first tap after midnight clears row and ledger, so the second tap is taken for a grade without session |
| `study_retap` | `RetapNeverRegrades` | a card left on screen by a lost edit is graded again after another session has cleared the ledger and ended |
| `gate_starved` | `ExclusiveGranted` | two writers wait; the first to enter lowers the one flag, the second wakes to find readers again and waits without it |

### Fairness

`FairSpec` of the study session assumes that the event loop goes on running the
handler it has started (weak fairness of `HandlerStep`: an await returns or
raises, the seam bounds its retries) and that the learner goes on tapping: the
study button, and on the message that shows the active card its reveal, its
grade and, when the word was unsaved meanwhile (no grade is accepted then), its
delete and confirm buttons. These are strong fairness conditions because a
handler in progress disables every tap. Nothing is assumed of midnight, purges,
due dates or failures. The last two conditions are needed: a card whose word is
gone can only be passed by deleting it, and the bot never offers another way.

`WordQuery` assumes weak fairness of the running handler for the same reason.
`DatabaseGate` assumes weak fairness of what a task does inside a call: threads
are scheduled, a statement ends by its busy time-out, a copy of a file ends;
nothing is assumed of calls being made. It needs no order of the waiters: a
reader that is overtaken is overtaken by one of finitely many exports.
`AiRouter` and `EgressSupervisor` assume weak fairness of each thread: threads
are scheduled, a provider call ends at its client's time-out, pings, spawns,
checks and fetches have time-outs, the deadline passes. Weak fairness of a
thread is enough for the tunnel lock because a waiting thread that is overtaken
is overtaken by one of finitely many requests; the operating system's lock does
not promise an order. Nothing is assumed of edits, backoffs, windows, cooldowns
or restarts. `WebRuns`, `ScreeningJob` and `PrecardRun` have safety properties
only: a child need not ever end.

## Proofs

The theorems hold for every value of the constants that satisfies the named
assumptions (which TLC evaluates in every run): any finite sets of words,
threads, servers and providers, any limits, caps and bounds, any number of
failures, any sample and batch width. The assumptions say what the program's
configuration is: limits are numbers, a batch is not empty, the sample is a
sequence without repetitions (`PrecardAssumption`; `load_sample` takes it as
given, and no proof rests on it), a gate vetoes rows of keys that exist. Two
theorems about the study session hold under a further hypothesis on the kinds of
failure, because the code breaks the property under the others; it stands in
the theorem.

| Theorem | States | Along |
|---|---|---|
| `TypeCorrectness` (study) | `Spec => []TypeOK` | `TypeInv`: the types, and that a handler about to draw has a card and one about to grade or reveal knows it (`NodesReady`); without it `Head` of an empty list would leave the types |
| `RowDateIsSafe` | `Spec => []RowDateIsInnerDate` | `StampInv`: at the two stores that name a day of their own, that day is the session's; no stamp lies in the future; the row is never newer than memory |
| `GradedOnce` | `Spec => []GradedOncePerSession` | `GradeInv`: a card counted in a live session is in the ledger under today, so neither guard nor purge forgets it; a handler at the transition has found no entry. `Shape` and `NoRevival`: every step but a build keeps, empties or restores a session, and none brings a dead one back |
| `SlotsAreSafe` | `Spec => []SlotsRespectLimit` | `SlotInv`: a start holds its slot until it delivers or releases; no counter later than a held slot has been used, so a release across midnight finds zero |
| `SlotsAreBalanced` | `Spec => []SlotsBalance`, while no database call fails and the process does not die (`NoStoreFault`) | `BalanceInv`, over `SlotInv`: today's counter is what was delivered today and the slot held since; a slot held over midnight is given back to a counter that is still zero |
| `VisibleCardIsSafe` | `Spec => []VisibleCardIsActive`, while Telegram calls are only lost or refused (`CleanFaults`) | `VisibleInv`: the message offers memory's head at every step, not only between taps, and the row never outlives memory but where it is about to be cleared, so the gate never brings an older head back under a newer card. `StampInv` for the stores that name a day of their own |
| `RevealIsSafe` | `Spec => []RevealIsDurable` | `RevealInv`: the row, when there is one, would redraw what memory would; while a reveal is being stored, this holds of what memory goes back to if that fails |
| `LedgerWithinLimit` | the abstract ledger stays within its limit and balanced | `Accounts`: a reservation counts on its own day and a day to come has no charges |
| `ImplementsLedger` | `Spec => Ledger!SafeSpec` for `WordQuery` | `QInv`: the counter's date is no later than today, and a reservation is open exactly at the steps between reserving and settling; every step is then a ledger step or a stutter |
| `LimitKept`, `BalanceKept` | `DeliveredWithinLimit`; `QuotaBalanced`: a reservation is open only while its handler runs, and today's count is what was delivered, lost or is open on it | from the two theorems above: the ledger's invariant carried over the refinement mapping |
| `InputConsumedOnce` | `DeliveredInputConsumed` | `BInv`: once its card is out, a handler is at its last step and the restore marker is gone |
| `TypeCorrect` (query) | `Spec => []TypeOK` | `TypeInv`: the stored cards are in the order of their tokens and never more than the cap (`TableInv`), a handler past a lookup has a token and a word (`HandlerTypes`), and tokens given out are paid for by updates and crashes (`Budget`), which bounds them |
| `OfferKept` | `Spec => []OfferIsLive` | `OfferInv`: from the duplicate's discovery to its offer the card is stored or has expired; `Created`: the eviction at the cap drops the oldest cards but the one to keep |
| `RouterTypeCorrect` | `Spec => []TypeOK` for `AiRouter` | `RouterTypes`: a worker past `limiter_for` has a limiter, one that acquires has captured a semaphore (`Knows`) |
| `PermitsAlwaysReturned` | `Spec => []PermitsReturned` | `RouterTypes`: a step takes or returns a permit of the semaphore its worker captured, whatever the limiter holds by then, and the holders of that semaphore change by that worker |
| `UsageAlwaysAnswers` | `Spec => []UsageIsAnswers` | `UsageCounted`: the usage of a preset is what it answered and the answers on their way out |
| `RequestsAnsweredOnce` | `Spec => []OneAnswerPerRequest` | `Counted`: won calls are spoilt calls, plus one while an answer is on its way out |
| `DailyCapOvershoot` | `Spec => []DailyOvershoot` | `Overshoot`: once the cap is reached, the usage and the requests that read it below the cap and have not counted yet stay below the cap and the most that ran at once; requests that start later read a usage that stops them |
| `TypeCorrectness` (gate), `GateIsExclusive`, `NothingIsLost`, `ReplacedWasCopied` | three invariants and an action property of `DatabaseGate` | `GateInvariant`, in parts. `TypeInv`: a task is at a place of its call, and only the handler, with a file at hand, restores. `GateInv`: the counter is the number of holders, the owner is the task inside an exclusive hold, there are never both, and connections are open only inside holds. `DataInv`: without open connections the main file is complete, and a restore about to replace it has copied it |
| `OwnerToldTruth` | `Spec => []ReportsAreTrue` | `ReportInv`: without faults the stamp names the file restored last, but between the replacement and its stamp; only the handler switches the maintenance mode, and no report is out while it is in a call |
| `TypeCorrectness` (egress) | `Spec => []TypeOK` | `TypeInv`: a request in flight has a lease id of its own that no client knows, a minted lease names a server, and a thread that needs a server has picked one |
| `OneEgressIsSafe` | `Spec => []OneEgress` | `TunnelInv`: a thread in a locked step holds the lock, and between starts the only child is the tunnel's |
| `NoOrphans`, `LeasesNameTunnels`, `CacheOnlyKept` | the three lease properties | `LeaseInv`: the three together, and that a hint comes from the cache's seed |
| `ConsoleDoneIsTruth`, `ConsoleSettledIsDead` (a settled run's child is gone), `ConsoleOwnChildOnly` | three properties of console runs | `WebInv`: a record, and every copy of it that a listing has loaded, says no more than the child has done (`Says`); a cancel about to write its verdict knows that the child is gone (`Knows`); a pid is the child's exactly while it lives. `GoesOn`: children only go on, so what was true of them when it was loaded is still true when it is saved |
| `ConsoleOnlyListingsForget` | an action property | `FreshInv`: a run that is being created has no record yet, in the registry or in any loaded copy, and one creator |
| `ConsoleDoneHasOutput` | `Spec => []DoneHasOutput`, over console and pipeline | `MadeInv`: a pipeline child is alive exactly while the run it made is in progress, and exits with 0 only if that run was written |
| `ConsoleOneScreening`, `ConsoleStoreFollows` (the store says what the console showed), `ConsoleOnlyLeftoversMisjudge` | three properties of the export | `JobInv`: of the server's own exports only the current one may live; an abort that is about to record has seen its child gone |
| `NoRowIsMixed` | `Spec => []NoStaleMix`, over console and pipeline | `MixInv`: unless a kill has torn a write, every result in memory was computed from what is upstream of it, and so it is in the files but in the middle of a write. `EvictedClosed`: what a selection evicts takes along everything computed from it |
| `KillCostsOneBatch` | `Spec => []UnsavedIsOneBatch` | `OneBatchInv`: what memory has and the files have not belongs to the stage and batch being saved |
| `VetoedRowsAreQueued` | `Spec => []VetoesQueued` | `OnceInv`: a row in the queue is of an earlier run, or of this one past its stages and no longer pending; `QueuedInv`: a vetoed result of the run in progress is pending or queued, in the files one of a finished run is queued |
| `FullRunsFillTheRows` | `Spec => []RowsComplete` | `FilledInv`: a run of all stages has a result for every item of the stages it is past and of the batches it is past. `DivBound`, `RankBounds`: the number of batches is rounded up, so the last one leaves no item out |
| `ConsoleTypeCorrect` | `Spec => []TypeOK` for `FactoryConsole` | `PipeTypes`: the types, that results are of runs that have begun, and that a run's verdict is open while it goes on; `WebRest`, `JobRest`: what `WebInv` and `JobInv` leave open |

In the pipeline's invariants every step of the console or the terminal is one of
`PipelineNext` or leaves the pipeline alone (`PipelineSteps`), so each inductive
step has one case per action of the pipeline.

`TypeOK` of the gate, `QuotaBalanced`, `CacheOnlyRefreshed` (leasing adds no
server to the clean cache), `SettledIsDead` and `StoreFollows` are proved and in
no run. Each inductive step has one case per action; facts about the operators are
lemmas. The inductive invariants were checked by TLC on the instances of the runs
before they were proved.

Only model-checked. Every invariant that a passing run checks is a theorem, the
two above under the failures their run allows. What is left to TLC is liveness
(`SessionEnds`, `EveryRequestEnds`, `EveryRequestAnswered`, `EverybodyEnters`,
the `Settled` part of `LedgerSpec`), which is out of this prover's reach, as are
`ENABLED` and induction over data: nothing is proved of what a recursion over a
list computes. The batches of the pipeline are ranks in a set of places for
that reason, and the proofs about them use the cardinality of finite sets only.

## Seen while modelling, and not a property

* When the report edit fails, the finish is repeated and a second report is
  stored (`study_handler.py:967`): `reports` counts them, nothing limits them.
* When a delete is confirmed again after its advance was lost, the refill is
  repeated and the session outgrows its planned size (`srs_handler.py:751`).
* `_speak_locked` re-raises `NetworkError` before it handles `BadRequest`
  (`tts_service.py:208`), and python-telegram-bot makes `BadRequest` a
  `NetworkError`: a cached file id that Telegram refuses is not regenerated.
* A listing of console runs can drop a run that was recorded, and set back one
  that was settled, after it loaded the registry (`server.py:4283`).
* After a restart the console never settles a run whose child has exited: no
  handle is left to poll, and a cancel is refused for want of a process.
* A pump or an abort that outlives its screening run settles the next one
  (`server.py:6430`); a restarted console may start a second export beside the
  orphan of the first.
* A kill between two progress files leaves stages of different generations
  (`pipeline.py:662`); a rekeyed item that redirects to its lemma does not evict
  the lemma's results.
* The second of two queued taps on "new card" is charged again, although
  `_clear_duplicate_choice` says an offer can be answered once.
* A client that gives up after 60 s of waiting for the tunnel lock leaves a
  lease that nobody knows; a report of one client rotates the tunnel another
  one has just been granted; a pool restored from its file after a failed fetch
  has no links and serves direct leases only.
* After a crash between an import and its stamp (`admin_backup.py:235`), or a
  failed stamp, the same upload is applied once more and replaces
  `.pre_restore`, although the docstring calls a repeat rejected; and the key
  may name an earlier file, which is then refused as the present state.
  When the write of the maintenance mode fails after the stamp, the mode is that
  of the restored file and the owner reads that the restore failed.
* More AI calls than `max_concurrency` can run around a semaphore swap.

## Plan

1. `StudySession`, its runs, theorems and `StudyHistory` - done.
2. `WordQuery`, the abstract `QuotaLedger` and the refinement - done.
3. `AiRouter` - done but for tokens-per-minute limits.
4. `EgressSupervisor` - done but for its one-shot modes.
5. The factory console and the pre-card pipeline, with theorems about the
   pipeline's files - done.
6. `DatabaseGate` with its restore handler - done but for migrations.
7. Open: an abstract specification of a study session and its refinement, the
   health circuit.

## Not modelled

FSRS arithmetic is real-valued and has no state of its own. Texts, keyboards
and formatting are layout. Administration dialogues and preset and cost tables
are single-row writes of one person. Pronunciation is one lookup and one insert
per key. The other modules take the database gate for granted: a transaction is
one step there, which is what `DatabaseGate` shows; its table definitions and
migrations, and the retention of local backups, are not modelled. The
maintenance gate and the offline circuit drop updates before a handler sees
them. In the factory, prompts, scoring, vectors, viewers, linking and the card
pilot transform one input into one output; they are most of its lines, and what
could be wrong in them is a matter of linguistic data, not of the order of
steps. The scripts in `tools/` simulate, replay or measure, and keep nothing.
