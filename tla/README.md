# A formal model of the Grandice AI gateway

TLA+ models of the gateway in `gateway/` and of the parts around it, the TLC
runs that check them on small instances, and TLAPS proofs of what matters most
for every instance. The models are translated from the code; the documents of
the repository are used only for the promises the code is held to.

    tlasany M.tla                          # parse
    tlc -workers 2 -config X.cfg MCx.tla   # check a run of PROJECT.json
    tlapm RateLimitProofs.tla              # check the proofs (every *Proofs.tla)

`PROJECT.json` lists the components, the runs, for each property a mutant of
the code that breaks it, the source lines of every definition, the findings,
the hazards and the theorems.

## 1. The system

One FastAPI process (one worker, one event loop) serves inference requests,
domain analyses and the administrator. SQLite keeps what must survive; every
statement is a transaction of its own run in a worker thread
(`gateway/db.py`), so a handler gives way at every statement. A local model
server (Ollama) does the inference. A scheduler in the process makes encrypted
backups; a command line and PowerShell scripts work on the same files from
outside. A separate sidecar process on the client's side substitutes sensitive
values before a request leaves the machine.

| Component | State | Operations | Interacts with | What makes it correct |
|---|---|---|---|---|
| Request limiter (`ratelimit.py`, `_enforce_limit`) | a queue of timestamps per key, member, organization | `check_many` | limits read by `require_api_key`, patched by the administrator | no window overfull; all levels charged or none; the reported wait is right |
| Inference slots (`monitoring.request_slot`) | a FIFO semaphore, two counters | acquire, release, cancellation | `upstream.forward`, the Monitoring page | permits conserved, none idle, in order, counters true |
| Forwarding (`upstream.py`) | stage of each request, `usage_log` | JSON request, stream, failure, lost client | slots, model server, database | every request ends; one truthful row at most |
| Accounts and keys (`admin.py`, `auth.py`, `db.py`) | `organizations`, `members`, `api_keys` | create, update, rotate, revoke; lookup | handlers interleave between statements | suspension reaches every key; allowance; rotation replaces |
| Backups (`backup.py`, `restore-database.ps1`) | lock, status file, backup files and metadata, R2 objects | create, retention, scheduler, verify, restore | CLI, supervisor, live database | what retention keeps restores; a restore loses nothing; the lock is released |
| Domain runs (`domain_runtime.py`, route modules) | `domain_runs`, the time of the last purge | validate, analyze, record, purge | thread pool, limiter | one truthful row per run; purge at most hourly |
| Market processes (`routes/market.py`) | two slots, worker processes, receiving threads | start, receive, time out, clean up | thread pool | slots and processes given back once, by the deadline |
| Agent runs (`routes/agents.py`) | none of its own | dispatch to an analyzer | domain runs, market processes, thread pool | the pool is not exhausted |
| Legal analysis (`grandice_domain/legal.py`) | none | segment, find risks, pair clauses, compare | domain runs | every clause reported once; an unchanged clause found again; what is left out is counted |
| Market analysis (`grandice_domain/market.py`) | none | latest metrics, trends, contradictions, gaps, coverage, comparison | market processes | a disputed value is never stated; sections, counts and scores speak of the same evidence |
| Financial analysis (`company.py`, `portfolio.py`, `risk.py`) | none | ratios, weights, bands | domain runs | bands partition the scores; weights |
| Privacy engine and vault (`engine.py`) | two maps and a counter per type | tokenize, mask, restore | sidecar, client | restoring undoes tokenizing |
| Privacy client (`client.py`) | one vault per client, for `protect()` and `restore()`; one per request | protect, restore, request | engine, gateway | texts that share a vault do not mix |
| Privacy sidecar (`privacy_sidecar/main.py`) | one vault per request | reject, substitute, forward, mask, restore | engine, gateway | what is found does not leave; only substituted values come back |
| Others | media processing, detectors, TypeScript package, contact form, GPU cache, reports, scripts, website | | | see `PROJECT.json` |

Hard behaviours: handlers that interleave at every database statement;
cancellation of streams at any await, and a generator suspended at a yield
when its client disappears; a FIFO semaphore whose grants take effect later;
limits that are stale when they are enforced; crashes between the statements
of a handler or the phases of a backup; two processes on one set of backup
files; threads that outlive the timeout put on them. `PROJECT.json` lists them
under `hazards`, each at the line where it bites.

## 2. The modules

| Module | Models | Notes |
|---|---|---|
| `WindowQuota` | nothing in the code: what the limiter promises | a request is decided on the buckets of its key, with the limits it brought, over the whole history of admissions |
| `RateLimit` | `ratelimit.check_many`, `_enforce_limit`, the limits of `require_api_key`, the three PATCHes of `rpm_limit` | implements `WindowQuota` |
| `RateLimitProofs` | | the proofs about `RateLimit` |
| `RequestSlot` | `monitoring.request_slot` and the `asyncio.Semaphore` under it | partial actions on the slots |
| `Inference` | `upstream.forward` and `record_usage`, on top of `RequestSlot` | the composition: slots, requests, log |
| `InferenceProofs` | | the proofs about `RequestSlot` and `Inference` |
| `SlotQueue` | nothing in the code: what the slots promise, a queue in order of arrival | implemented by `Inference` |
| `Accounts` | the handlers of `admin.py` that write, `auth.create_key`, `require_api_key` | one action per statement |
| `AccountsProofs` | | the proofs about `Accounts` |
| `Retention` | `backup._retention_keep_set` | operators, used for the directory and the bucket |
| `BackupJob` | `backup.create_backup` and what it calls, in each process that runs it | partial actions, one per access to a file or to R2 |
| `Backups` | the gateway's life under its supervisor, `restore-database.ps1`, on top of `BackupJob` | the composition: jobs, processes, live database |
| `BackupsProofs` | | the proofs about `Backups`: types, retention in the directory and in R2, the lock, the status, the restore |
| `ThreadPool` | the executor behind `asyncio.to_thread` | partial actions, from how the gateway uses it |
| `DomainRuns` | `domain_runtime.py`, the `_execute()` functions of the legal, financial and market routes, `run_agent()`, `_run_in_killable_process()` | on top of `ThreadPool`; the market slots are a `SlotQueue` |
| `DomainRunsProofs` | | the proofs about `DomainRuns` |
| `ListsInOrder` | nothing in the code: lists, and the members of a set in an order | operators, written without recursion |
| `DomainCommon` | what the analyzers share: source checks, rounding, capped lists | operators |
| `ContractText`, `ContractRisks` | `legal.py`: segmentation and categories; the rules and the risk delta | operators |
| `ContractComparison` | `analyze_contract()`, `compare_contracts()`, the pairing one iteration at a time | on top of the two |
| `ContractComparisonProofs` | | the proofs about `ContractComparison` |
| `MarketEvidence` | `market.py`: latest metrics, trends, contradictions, gaps, coverage | operators |
| `MarketAnalysis` | `analyze_market_evidence()`, `compare_competitive_landscape()` | on top of `MarketEvidence` |
| `TransientProofs` | | the proofs about what the contract and market answers leave out, state and count, on top of `ContractComparisonProofs` |
| `TokenVault` | `detect_text()`, `TokenVault`, `PrivacyEngine` | operators |
| `PrivacyProxy` | `proxy()` of the sidecar, `request()`, `protect()` and `restore()` of the clients | on top of `TokenVault` |
| `PrivacyProofs` | | the proofs about `TokenVault` and `PrivacyProxy`; the facts about lists and sums come from `ContractComparisonProofs` |
| `MCRateLimit`, `MCInference`, `MCAccounts`, `MCBackups`, `MCDomainRuns`, `MCTransient` | | small instances for TLC; `MCTransient` has the contract, market and privacy modules |

### RateLimit

`hits` is `ratelimit._hits`, a sequence of timestamps per bucket; buckets are
keys, members and organizations. `check_many` holds a lock and no await, so a
call is one step: `CheckMany` prunes every bucket of the request's list, then
either charges all of them (`Admit`) or reports the first exhausted one and
charges none (`Deny`; the buckets stay pruned, as in the code). The list comes
from an earlier step, `Authenticate`, because `require_api_key` awaits the
write of `last_used_at` after reading the limits; `UpdateRpm`, the
administrator's PATCH, can come in between. A key without a limit gets the
configured default; members and organizations always have one. A legacy key
has no account and is limited alone. Time is counted in ticks, `Second` ticks
to the second, so that the truncation of the reported wait to whole seconds is
visible; `clock` stands for `time.monotonic()`, which never goes back.
`admitted` is a history variable: all admissions of a bucket with the limit
each was held to. `reply` is the value `check_many` returns.

`ImplementsQuota` maps this to `WindowQuota`, whose requests bring one limit
for exactly the buckets of their key (`BucketsOf`), those in force when they
were made (`InForce`, which resolves the default). A limiter that forgets one
level, reads another's limit, charges a refused request or refuses without a
full bucket is not one of its behaviours.

### RequestSlot and Inference

`permits`, `waiters` and `granted` are the semaphore of Python 3.11: `_value`,
the queue of futures, and those of them that are done. A release hands its
permit to the first sleeping waiter but leaves it in the queue until the event
loop runs it; a newcomer that finds anyone in the queue, or no permit, waits
behind them. A woken waiter passes a spare permit on; a cancelled one hands
back what it was given. This is external code, modelled from how
`request_slot` uses it. `active` and `queued` are the counters of
`request_slot`; the cancellation of a waiter leaves `queued` as it is, because
no `try` surrounds that await.

`Inference` gives every request a stage of `forward()`. A JSON request frees
its slot before it writes its row when the model answers, and after it when
the call fails or times out. A stream is relayed by a generator: it reads
(`Relaying`), yields (`Sending`), ends, or fails and yields an error frame
(`Failing`), and writes its row in the `finally` clause with the slot held.
Its client may go away: while it waits (`DisconnectWaiting`) or while it reads
from the model (`DisconnectReading`) the cancellation unwinds at once; at a
yield (`DisconnectSending`) only the sending task ends, and the suspended
generator holds the slot until the event loop finalises it (`Finalise`). A
JSON handler is not cancelled by a disconnect. Every write of a row may fail,
and a JSON answer may still be lost after its row is written (`AnswerSpoilt`):
hosted privacy refuses the media in it, or it cannot be rendered.
`status` is the handler's `status_code`, `rows` what reached `usage_log`,
`answer` what the client got. Bodies, token counts and durations are left out.

`ImplementsQueue` maps this to `SlotQueue`: a slot is owned by who holds it and
by the woken waiter it was handed to, and the line is the part of the queue
behind the woken waiters, who are at its front because they are woken in turn.
A wake-up that the code delays, passes on or hands back is then a step of the
queue or none at all.

### Accounts

`orgs`, `members` and `keys` are the tables; an id is a position, as rows are
never deleted. A handler of several statements keeps what it has read in
`handler[h]`: creating a member reads the organization, counts, inserts;
creating a key reads the member, inserts; a rotation reads the key, inserts
its successor, revokes it. Handlers whose first statement only looks for a row
that cannot go away are one action. `Lookup` is the query of `require_api_key`
with the checks that follow, `MarkUsed` the write after it. Any statement may
raise (`StatementFails`): the handler ends with a 500, and what it committed
before stays. `Restart` drops the handlers and keeps the tables. UNIQUE
constraints are guards. `peak`, `origin` and `disturbed` are history variables
for the properties; `disturbed` holds the first keys of the lines of rotations
in which one was overtaken, failed at its last statement or was cut off there.

### Retention, BackupJob and Backups

A backup is known by its place in the order of the names, which is the order
of the times in them; `backups[n]` holds what there is of it: the time in its
name, the local file (`"none"`, `"torn"` while it is being written or after a
writer that died, `"whole"`, `"deleted"`), the version of the database in it,
its metadata, and the same for R2. `job[p]` is where process `p` is in
`create_backup()` and its locals. Everything another process can see or that
can fail is a step: `_update_status` reads the status file and then writes it
(`ReadStatus`, then `Announce`, `Report` or `Excuse`), so two processes can
overwrite each other's; the encrypted file is opened under its final name
(`Snapshot`) and complete only later (`CloseFile`); the two uploads of the
metadata, the listing of a directory or bucket and each deletion are apart.
The exceptions follow the three handlers of the code: `AnnounceFails` is before
the `try` and leaves the lock taken (`stuck` records it), `RemoteFails` is caught
by the R2 part and ends in "local_only" or, after the upload, in "success" with
an error, `Fail` goes to the outer handler (`Excuse`, `ExcuseFails`), whose
`finally` releases the lock. `Killed` drops a process at any line. `overlapping`
is a history variable: the processes whose present job has run beside a job of
another process.

`Backups` adds the processes. The gateway is up, stopping (it no longer
listens, its threads go on; `GatewayExits` waits for them) or down; the
supervisor starts one whenever it finds none. `live` is the version in the
database, which every write of a handler raises, `newest` the newest there
ever was. The restore script goes through `verify`, `save`, `saving` and
`replace`, and remembers in `beside` what gateway ran meanwhile. When the
scheduler finds a backup due (`_backup_due`) is left open, because the
administrator may start one at any time.

Simplified: a JSON file is written and put in place in one step (the code
writes a temporary file and renames it); a backup and its metadata go in one
step; a gateway that runs listens; no two backups start in the same second;
one command line at a time; a job ends within the daily window; the bucket
fits into one page of `list_objects_v2`; the live database always exists; the
write-ahead log of SQLite is part of `live`.

### ThreadPool and DomainRuns

Legal and financial analyses, the receiving and the joining of market
processes and every database statement share one executor. `backlog` is its
queue, `running` the work that occupies a thread. A coroutine that stops
waiting leaves work behind: queued work is dropped, running work keeps its
thread until it ends by itself.

A domain run goes through `reading`, then `analyzing` (a thread) or `waiting`,
`receiving`, `joining` and `rejoining` (a market process), then `recording`,
perhaps `purge due` and `purging`, to `done`. `outcome` is the status it will
record, `row` what is in `domain_runs`, `reply` what its client got. What kind
of analysis a run asks for, and through which route, is left open. `worker` is
the process of a market run (`"told"` after `terminate()` or `kill()`), `sent`
what is in its pipe, `late` whether the deadline has passed. `owners` and
`line` are the semaphore `_market_process_slots`, taken as the `SlotQueue`
that `Inference` shows such a semaphore to be. The `finally` clause is
followed line by line: `CleanUp` terminates, `JoinEnds` and `RejoinEnds` join,
kill and join again; they release the slot, or fail before they get there
(`CleanUpFails`): joining a process that was never started raises, and so does
closing one that outlived its kill. `leaked` records whose slot went that way.
`lastPurge` and `gate` are `_last_domain_audit_purge` and its lock, `purges`
and `recorded` histories. Simplified: a thread and the coroutine that awaits it
go on in one step; which of the checks of an input failed is one outcome
(`"refused"`); the purge deletes rows older than any run of the model.

### ContractText, ContractRisks and ContractComparison

A contract is a sequence of lines; a line is its form (blank, plain, a short
label, a numbered label) and the set of terms and phrases it contains.
`Boundaries` are the lines where `segment_contract()` starts a segment,
`Kept` the first `MaxSegments` of them without a blank one, `Classify` the
first taxonomy entry that the heading, or else the body, mentions. The rules
of `_collect_legal_risks()` are sequences of findings put one behind the other
in the order of the code and cut off at `MaxFindings`.

A review is one step from the input to the answer, because nothing can come in
between. A comparison goes through `_pair_clauses()` step by step: `PairClause`
is one turn of the loop over the original's clauses (the candidates that are
free, ordered by heading and place, at most `MaxCandidates`; the best of them
if it is similar enough), `ReportRemoved` and `ReportAdded` the two loops
behind it, `NextCategory` the next category, `ReportComparison` the answer.
`changes` is the list the code builds.

Left out: excerpts, offsets inside a line, hashes (a text stands for its own),
confidences and wording; the limit of 512 words when two texts are compared
and of 12 terms a finding names; scores are fractions, where the code has
floating-point numbers and compares them with a tolerance.

### MarketEvidence and MarketAnalysis

An item of evidence has a source, a subject, the day it was observed, a signal
and perhaps a metric: a dimension, a value and its period. Dates are numbers;
subjects and dimensions are numbers in the order the code sorts them by.
`LatestMetrics`, `Trends`, `ContradictionRows`, `Gaps` and `Coverage` are the
functions of the same names, each list uncapped; `Analysis` cuts them off and
counts what it leaves out as `analyze_market_evidence()` does, `Landscape` as
`compare_competitive_landscape()` does. Each analysis is one step: an answer, a
refusal by the validators, or an exception (`"failed"`: a row or the binding of
an item cannot be built; `"over budget"`). A statement of white space alone is
valid and cannot be bound (`Unbindable`); of a statement nothing else matters.
Left out: provenance hashes,
warnings and wording, which of two equal dates the calendar calls valid. The
helper `_bounded_sections()` is called by nothing and is not modelled.

### TokenVault and PrivacyProxy

A text is a sequence of atoms (words, tokens, what masking leaves, media), a
JSON document the sequence of its leaves, each with the keys that lead to it. A
detector is the sequences of atoms that its expression fits, in the order it
tries them, those of them that its validator lets pass, and the atoms that may
not be beside a match;
which strings the regular expressions, the Luhn check and the IBAN check accept
is left out. The search is not: `Fitting` is where an expression fits,
`FoundFirst` the match it tries first at each place (the longest, if it is
greedy), `Scanned` what `finditer()` yields from the left without overlap, and
`Matches` what is left of that when a validator has dropped the spans it
refuses, each as a whole. So a neighbour can hide a value.
`Accepted` resolves overlapping findings, `TokenizeText` replaces them from the
end of the text, `RestoreText` puts the values back one token after the other,
the longest first.

`Submit` is a request up to the call of the gateway: the refusals of `proxy()`
or of the clients, then the substitution with a vault of its own, with a
sentinel in the place of each medium. The request is suspended there, and
others run. `Answer` takes whatever the gateway says: it masks what the policy
detects in it and puts the request's own values back, in the text a user sees
only. `Protect` is `protect()` of a client, whose vault `kept` lasts. Redacting
an image, a sound or a document either succeeds or does not. Left out: the
receipts, and the digits that masking keeps of a value.

## 3. The runs

| Run | Instance | Shows |
|---|---|---|
| `ratelimit` | 2 keys of 1 member of 1 organization, limits 1 and 2, window of 2 ticks, 2 requests, 1 patch, clock 0..3; 57,765 states | type invariant, `QueueIsRecentHistory`, `WindowRespected`, `ScopesAgree`, `RetryAfterExact`, `ImplementsQuota` |
| `inference` | 2 slots, 3 streams, 1 JSON request, one status code of the model; 65,506 states, with fairness | type invariant, `PermitsConserved`, `NoIdlePermit`, `CountersExplained`, `UsageLogged`, `ImplementsQueue`, `EveryRequestEnds` |
| `inference_queue` | the same | violates `QueuedIsQueueLength` |
| `accounts` | 2 handlers, 1 authentication, 1 organization of 1 seat, 2 addresses, 3 keys; about a million states | type invariant, `KeysFollowMembers`, `OverrunBounded`, `OneLiveKey`, `SuspensionReachesEveryKey` |
| `accounts_allowance` | the same without keys | violates `AllowanceRespected` |
| `domain` | 2 runs of any kind, 1 process slot, 1 thread, interval of 1 tick, clock 0..2; 248,004 states, with fairness | type invariant, `ProcessesBounded`, `SlotsExplained`, `AuditTruthful`, `PurgesSpaced`, `PurgeNotOverdue`, `DeadlineEndsWorker`, `EveryRunEnds` |
| `backup` | the gateway alone, R2 on and off, 3 backups, daily window 1, weekly window 3, weeks of 2 ticks, clock 0..4, 2 faults; 1.1 million states | type invariant, `RemoteRetentionKept`, `OffsiteClaimsTrue`, `LockExplained` |
| `backup_restore` | gateway and command line, no R2, 2 backups already made and 2 more, daily window 0, weekly window 1, clock 0..2, 2 versions, 1 fault; 2.1 million states | `RetentionKept`, `ReportedBackupIsWhole`, `ForgottenOnlyByOverlap`, `NothingLostUnobserved` |
| `transient` | contracts of up to 4 clauses or 3 lines, evidence of up to 3 items about 2 subjects, 1 sidecar request, 1 client request, 2 protected notes; 38,403 states | `EveryClauseAccounted`, `TwinsPaired`, `LegalOmissionsDisclosed`, `DisputesAgree`, `CountsAgree`, `RestoreUndoesTokenize` |
| `twins` | the same | violates `ExactTwinsMatched` |
| `backup_weekly` | as `backup` | violates `WeeksCovered` |
| `backup_safety` | gateway and command line, no R2, 3 backups, windows of 0, clock 0..1, 2 versions, 1 fault | violates `CurrentDatabaseSaved` |

Why the bounds are enough. *Limiter*: three ticks after the start the first
admissions leave a window of two ticks one at a time, at its edge and past it;
two keys under one member fill the shared level together; one patch raises or
lowers any limit between authentication and enforcement. The clock and the
patches are bounded by `MaxClock` and `MaxPatches`, so the run ends in states
without a successor and does not check deadlock. *Slots*: with two slots and
four requests a waiter can be woken while another sleeps and a permit is free,
the case that loses a wake-up if it is not passed on; every stage is reached by
streams, and the JSON request overlaps with them. *Accounts*: two handlers are
the fewest that overlap; three keys are a key and two successors, so that a
rotation of a rotated key and two rotations of one key both occur. `MaxKeys`
bounds the table; a restart keeps the run from ever stopping.
*Backups*: three backups are one that retention drops, the newer one of its
week and the one whose retention looks; with five ticks and weeks of two, a
backup passes from the daily window through the weekly one out of both. Two
faults are a failure and a failure of its handler, or a crash and the failure
of the next attempt. With two processes the run begins when the gateway has
made two backups (`InitWithTwo`, a state `Init` reaches without a failure), so
that jobs of both processes have something to delete from the lists they hold.
The daily window is 0 and the weekly one a single tick: whatever is not
protected by a job that runs is lost as early as possible, and a file can be
superseded in its week by one that the other process is deleting. Two more
backups are one of each process, or the safety backup and one of the gateway
beside it. What the small windows and the one pair of processes leave out is
covered by the proofs. The counters are bounded, so these runs end and do not check deadlock.
*Domain runs*: two runs are two that compete for the one process slot, two that
find the purge due, or an analysis left behind in the only thread and a run
that needs it for its row. More threads and slots only take pressure away, and
the proofs cover them. With an interval of one tick and a clock of two there
are two purges an interval apart and a tick between any two steps. Runs are
not repeated, so this run ends too.
*Transient*: these parts keep nothing and do not meet, so one run checks them
one at a time; the notes of a client interleave with its request. Every cap is
small enough to be exceeded by some input and large enough to be met exactly by
another: three segments of the reviews' three lines and a comparison's four
clauses, two candidates for three clauses of one category, four findings and
four changes, two rows of a kind. The contracts of a comparison are all those
of one or two clauses from a library of five (two with the same words on
different lines, a variant of them, one alike in category alone, one of another
category), and of three against two. The evidence is one item, two or three,
with two values a long way apart, a statement that is blank, three overlapping
periods and three signals. The texts of the privacy part are all short sequences over four words and two
atoms that look like tokens; the detectors overlap, one of them is more
confident than the rest, one tries a longer match first that its validator
drops, and one tries a shorter match first and may not border on a certain
word. Each of these requests ends, so the run does.

Fairness of `domain`. Threads begin waiting work; statements end; timers fire
and the event loop runs what is ready; analyses in threads end, an assumption
on deterministic analyzers of bounded inputs. A process that was told to go
goes, as its worker does not handle SIGTERM. A market analyzer need not ever
end, a join may time out any number of times, and no client is obliged to send
its body (all weak).

Fairness of `inference`. `PostReturns` or `PostFails` is weakly fair:
httpx answers or raises within `request_timeout`. The end of a stream is
strongly fair: each read is bounded by the same timeout and a generation is
finite, so a stream does not bring chunks forever; this is an assumption on
the model server. A client that is being sent something takes it or goes away
(weak): the gateway puts no timeout on a write, so a client that keeps its
connection and never reads would hold its slot. No client is ever obliged to
leave, and a request that waits for a slot leaves the queue by being served.
The event loop runs woken waiters, finishes handlers and finalises abandoned
generators (weak).

### What holds with an exception worth knowing

* `SlotsExplained`: the last line of the `finally` clause of
  `_run_in_killable_process()` releases the slot, after lines that can raise.
  If `process.start()` fails, `process.join()` raises `AssertionError`; if a
  process outlives `kill()` by a second, `process.close()` raises `ValueError`.
  Either way the slot is gone until the gateway restarts, and two of them end
  all market analysis: later runs wait for a slot until their deadline and
  answer 503. No document promises otherwise. A process that
  will not die rightly keeps its slot (`ProcessesBounded`), one that never
  started has no use for it.
* `AuditTruthful`: when the row is written and the purge after it fails, the
  caller gets an error for a run that is recorded as a success. A client that
  leaves while its body is read leaves a row on the domain routes and none on
  `/v1/agents/runs`.

* `TwinsPaired`: a clause the revision left as it was is usually found again.
  It is not when an earlier clause of the original was content with its copy
  first, or when the category has more clauses than are looked at: the code
  pairs in order, and an identical text has no precedence beyond its score.
  Only a contract compared with itself is unchanged without condition. What
  `LEGAL-APIS.md` says of it is the run `twins`, below.
* `LegalOmissionsDisclosed`: a document that begins with blank lines before its
  first heading counts one omitted clause, although nothing was left out. A
  policy id of more than 73 characters is accepted, and its first finding ends
  the request with an exception: "policy-" and the id are longer than an id
  may be.
* `CountsAgree`: a value that rises from near zero can have a percentage of
  change with more digits than the type holds, and then a valid request fails.
  So does one with a statement of nothing but white space, in both analyses:
  the type of a statement does not strip it (`market.py:59`), and the excerpt
  that `_binding()` makes of it is shorter than the one character that
  `EvidenceBinding` asks for (`market.py:467`).
  An answer of `compare_competitive_landscape()` that finds any dimension
  comparable never calls itself complete, because a comparison keeps one
  binding of the two or more it has.
* `RestoreUndoesTokenize`: what comes back is what was replaced, unless the
  text held something that looks like a token of its own vault: it is restored
  to the value of that token. Clients hand answers that are not JSON on as
  they are, and do not look for sensitive values in keys, as the sidecar does.
  And it speaks of what was found. A validator that refuses a match drops all
  of it, so a neighbour can hide a value: under `strict-v1` the expression for
  an IBAN takes `GB82WEST12345698765432 please` as a whole, the check of its
  digits fails, and nothing is found. In `10.0.0.12 4111111111111111` the one
  for cards begins with the `12` of the address, and the card is sent beside
  the token of the address. A second look at the text that is sent would find
  this card; the sidecar takes no second look (`_reject_residual` is about paths
  and keys), and the gateway, which is told of the mode, looks when the text is
  there and answers 422. `PRIVACY.md:11-12` promises "Zero transfer". No
  property says that nothing detectable is sent, because that is not so.
* `OneLiveKey`: a rotation whose last statement fails answers with a 500, and
  both the old key and a successor that nobody has seen stay alive.
* `UsageLogged`: the row has the outcome of the model call. A JSON client can
  be told 500 or 502 after a row that says 200.
* `RetryAfterExact`: the wait is exact for a queue that holds just its limit.
  When a PATCH has lowered a limit below what is in the queue, the wait names
  the moment the oldest entry leaves, and the request is refused again. Without
  such a PATCH the wait of the first exhausted level is enough for the others,
  whose
  oldest entries are as old or older.

### What the violations show

* `QueuedIsQueueLength`: the Monitoring page's queue counter keeps one for
  each client that left while waiting. `CountersExplained`, which holds, says
  that this is its only error.
* `AllowanceRespected`: two concurrent requests both take the last seat.
  `OverrunBounded`, which holds, says by how much an organization can exceed
  its allowance: by the other handlers.
* `WeeksCovered`: README.md promises one backup per week for 12 weeks. A crash
  while a backup is written leaves a truncated file under a valid name; when
  its week leaves the daily window it is the newest of the week, and retention
  deletes the good one. `RetentionKept`, which holds, says that by the names
  alone retention never deletes too much.
* `CurrentDatabaseSaved`: README.md says that `-ReplaceLive` saves the current
  database first. The script looks once whether a gateway listens; one that the
  supervisor starts after that can write between the safety backup and the
  replacement, and those writes are in no backup. `NothingLostUnobserved`,
  which holds, says that nothing is lost when no gateway ran beside the script.
* `ExactTwinsMatched`: `LEGAL-APIS.md:51` says that clauses are matched "by exact
  span hash where possible, then compared using" similarity, and every answer
  lists this among its assumptions (`legal.py:1138`). The code goes through the
  original once and takes the best free candidate by either: a clause that is
  merely similar takes the copy of one after it, and the two equal clauses are
  both without an exact match. `TwinsPaired`, which holds, says that this and
  the number of candidates are the only reasons.

## 4. The proofs

`RateLimitProofs` proves, for every set of keys, accounts and limits, every
window and number of requests, from the assumptions on the constants in
`RateLimit` (the buckets of the three levels are disjoint, limits are positive,
the default is one of them):

* `TypeCorrect`: `Spec => []TypeOK`.
* `QueueKeepsWindow`: `Spec => []QueueIsRecentHistory`. This is the inductive
  invariant the rest stands on: a bucket's queue is the end of its history, the
  history is in order of time and not in the future, and what was dropped is
  older than the window. Pruning keeps it because it drops a prefix; the clock
  keeps it because old entries only get older.
* `ScopesCountTheSame`: `Spec => []ScopesAgree`. The invariant is not about the
  queues, which are pruned at different times, but about the histories
  (`ChargedTogether`): since any moment, a shared bucket has been charged as
  often as all the keys under it together. An admission keeps it because it
  charges all levels or none; that the queues then agree inside the window is
  `QueueIsRecentHistory`.
* `RetryAfterIsExact`: `Spec => RetryAfterExact`. The queue of the bucket that
  refused is in order of time, so what has left it after a number of seconds is
  a prefix, and the wait is the first number with which that prefix is not
  empty; the truncation to whole seconds and the floor of one are included.
* `WindowIsRespected`: `Spec => []WindowRespected`. Not inductive alone: that
  an admission is more than a window away from the one `limit` before it
  follows from the length of the pruned queue only when the queue is known to
  hold everything recent.
* `LimiterImplementsQuota`: `Spec => ImplementsQuota`, the refinement of
  `WindowQuota`. The length of a pruned queue is the number of admissions
  inside the window (`PrunedLengthIsUse`). The list of limits that a request
  brings has one entry for each bucket of its key and no other
  (`LimitsOfCharged`, `LimitsOfDistinct`), with the limit in force at that
  moment (`LimitsOfInForce`); so authentication is the abstract `Ask`, and a
  call of `check_many` decides as the abstract `Decide`, in whatever order it
  looks at them. Legacy keys, which have one bucket, are covered here; the run
  has none.

`InferenceProofs` proves, for any number of slots, requests and streams, from
the assumptions in `RequestSlot` and `Inference`:

* `PermitsAreConserved`, `NoPermitIdles` and `CountersAreExplained`. They are
  parts of one inductive invariant, `SlotInv`, and none holds alone: that a
  woken waiter takes a permit off the queue's account and not somebody else's
  needs every granted request to be queued, that each is queued once, and that
  the queue is the requests in `acquire()`; that no permit idles after a client
  left the queue needs the permit it was granted to be passed on. `WakeUpGives`
  is what `Semaphore._wake_up_next` does to the sums; there is one lemma per
  way through the slots (`EnterFreeKeeps`, `EnqueueKeeps`, `ResumeKeeps`,
  `LeaveQueueKeeps`, `ReleaseKeeps`), and one for all that happens inside one.
* `UsageIsLogged`: `Spec => []UsageLogged`, from `DataInv`: only the last step
  of a request writes its row, and nothing of the request moves after it. An
  answer that is lost after the row is an error by then.
* `TypeCorrect`: `Spec => []TypeOK`; that `permits` stays within
  `0..MaxConcurrent` is `PermitsConserved`.
* `SlotsAreServedInTurn`: `Spec => ImplementsQueue`, the refinement of
  `SlotQueue`. It rests on `AwakeFirst`: the woken waiters are the first of the
  queue, in whatever order they then go on. So a waiter that resumes leaves the
  line of sleepers as it is (`AwakeGone`), one that is cancelled asleep leaves
  its place in it (`SleeperGone`), and a wake-up takes the first of it.

`AccountsProofs` proves, for any number of handlers, callers, rows and
restarts, from the assumptions in `Accounts`:

* `TypeCorrect`: `Spec => []TypeOK`.
* `KeysFollowTheirMembers`: `Spec => []KeysFollowMembers`, and
  `SuspensionReaches`: `Spec => SuspensionReachesEveryKey`. A handler writes
  with what it read some statements before; that is harmless because rows never
  go away, and the columns it carries over (a member's organization, a key's
  account) never change. `RowInv` says so of the tables and of what every
  handler holds.
* `RotationReplaces`: `Spec => []OneLiveKey`. `LineInv`, in a form that counts
  nothing: two keys of a line that no rotation is about to revoke are the same
  key, until a rotation of the line is overtaken, fails at its last
  statement or is cut off there.
* `OverrunIsBounded`: `Spec => []OverrunBounded`. The handler that takes the
  last seat moves from the one side of the sum to the other (`SeatTaken`); one
  that is shown a seat saw a count below a limit the organization has had
  (`SeatFound`).

`BackupsProofs` proves, for every window and length of a week, any number of
backups and faults, and with or without a command line beside the gateway,
from the assumptions on the constants in `Retention`, `BackupJob` and
`Backups`:

* `TypeCorrect`: `Spec => []TypeOK`.
* `RetentionIsKept`: `Spec => []RetentionKept`. A job lists the files, and
  deletes one at a time from a list that grows old while the other process
  deletes too. The inductive invariant `RetentionInv` adds that names are in
  the order of time (`Chronology`) and that what a job is about to delete is
  superseded (`DoomedSuperseded`). `SupersededStays` is the heart of it: a
  backup superseded by a newer file of its week stays so when that file goes,
  because that file was superseded itself, by a newer one still or by age.
* `LockIsExplained`: `Spec => []LockExplained`, with the addition that a
  process whose announcement failed makes no backup any more.
* `ReportedIsWhole`: `Spec => []ReportedBackupIsWhole`. `ReportInv` adds to
  `RetentionInv` that no two jobs write one backup, that the file a job is
  about to open is not whole yet, and that every name that may still reach the
  status file is finished: the job's own once it is written, and the one it
  has read there.

The second half of `BackupsProofs` is about the copies in R2 and the restore,
under the same assumptions:

* `RemoteRetentionIsKept`: `Spec => []RemoteRetentionKept`, and
  `OffsiteClaimsAreTrue`: `Spec => []OffsiteClaimsTrue`. `OffsiteInv` follows a
  job through its uploads: what is already in the bucket at each of its lines,
  and that all a job is about to delete there is superseded (`BucketDoomed`).
  One request deletes many objects and the bucket may drop any of them, so the
  argument of `SupersededStays` needs the newest object of a week. A claim of
  "r2_uploaded" is true because the metadata says so only behind the upload,
  and no list of a job that runs holds the backup of another (`Held`).
* `ForgettingExplained`: `Spec => ForgottenOnlyByOverlap`. `OverlapInv` is about
  the jobs that ran alone: two jobs at a time are both marked, so while one that
  is not marked runs, nobody else writes the status. What it has read there is
  therefore still there when it writes, unless it could not read it, and the
  backup it reports is newer than the one it replaces.
* `NothingLost`: `Spec => NothingLostUnobserved`. `RestoreInv` follows the
  script while no gateway runs beside it: its safety backup holds the live
  version from the snapshot on (`Saving`), and when it is about to replace the
  database a whole backup does (`Saved`).

`DomainRunsProofs` proves, for any number of runs, threads and process slots
and every interval, from the assumptions in `ThreadPool` and `DomainRuns`:

* `TypeCorrect`: `Spec => []TypeOK`.
* `SlotsAreExplained` and `ProcessesAreBounded`. The invariant is that a run
  inside the `try` of `_run_in_killable_process()`, or with a live process,
  owns a slot (`StageInv`), and that the line has nobody twice and no owner
  (`QueueInv`): otherwise a slot handed on could go to a run that has left.
* `AuditIsTruthful`: `Spec => []AuditTruthful`, from `RecordInv`.
* `PurgesAreSpaced` and `PurgeIsNotOverdue`. The lock has one holder, and what
  it read is still due, because only the holder moves the time of the last
  purge (`GateInv`).

`ContractComparisonProofs` proves, for any documents, taxonomy, playbook and
caps, from the assumptions in `ContractText`, `ContractRisks` and
`ContractComparison`:

* `ClausesAreAccounted`: `LegalSpec => []EveryClauseAccounted`. The invariant
  `AccountInv` says that while pairing every change fits the clauses it names,
  no clause is in two changes, the clauses that have not looked for a pair are
  in none (`PairInv`), and the categories done are covered (`Covered`). That
  the best candidate is free is all that is needed of it. The last step is that
  every category of either contract has had its turn (`FinishedCovered`).

* `TwinsArePaired`: `LegalSpec => []TwinsPaired`. Here the best candidate
  matters. A score is a share: the words two clauses have in common, twice,
  over the words of both. That it is at most one, and one for equal texts,
  needs a fact about sums of a function over a finite set, which take their
  terms in an order nobody knows: they count units (`SumCountsUnits`). So a
  copy that is a candidate leaves its clause no worse partner (`TwinIsMatched`),
  and one that is not has `MaxCandidates` clauses before it (`OverlookedTwin`).
  Clauses with the same text have the same heading and category
  (`ClauseByText`), wherever they stand. `TwinInv` says that the clauses that
  have looked stand before those that have not. For two equal texts, `SameInv`
  says that every clause so far has found itself: the place where the code
  expects a clause is then its own, without rounding (`OwnPlace`).

`TransientProofs` goes on from there, and proves, for evidence, texts,
playbooks and limits of any size:

* `OmissionsAreDisclosed`: `LegalSpec => []LegalOmissionsDisclosed`. The
  segments share the lines of a text among them: every line is in one
  (`LineHasSegment`, `LineHasOneSegment`), and a clause has all that is written
  in its segment (`ClauseLines`). Only blank text before the first heading
  makes a segment without a clause (`HeadingIsWritten`). Assumed of a request is
  what its types hold (`ContractAssumption`): a text is a list of lines that is
  not empty, a playbook has lists.
* `DisputedValuesAreNotStated`: `MarketSpec => []DisputesAgree`. Each row is
  honest about its own items; the rest is that the lists are made of such rows,
  whatever the order they are put in and wherever they are cut off. Assumed is
  that the evidence is a list and that a period ends on a date
  (`RequestAssumption`).
* `PartsOfAnswersAgree`: `MarketSpec => []CountsAgree`. A list that is put
  together from others has the same elements, place by place (`Located`,
  `FlattenedPlaces`, by the joining of one more list, `LocatedNext`), so the
  gaps are counted where they come from, one subject at a time. The places of a
  type of gap stand one to one for the subjects nothing is known of
  (`UnknownCounted`) and for the metrics that are missing about a known subject
  (`LackingCounted`); with those that are known they make up the scope
  (`ScopeCounted`), which is what the score divides by. A list in order has
  every member of its set once (`Lists`, `Ranks`, `Ascending`), so a list that
  leaves nothing out has every metric (`KeysListed`). Two entities that can be
  compared bring two items of evidence and one binding is kept of them
  (`ComparisonCounted`): no complete answer has a comparable dimension. The
  budget is that of the constants: all profiles and one binding for every
  dimension of the scope are within it (`BudgetAssumption`, 250 = 25 * (2 + 4) +
  100 * 1 in the code), and a sum is no more than its number of terms times
  their greatest (`SumIsBounded`). Assumed of a request is, as before, what its
  types hold (`RequestAssumption`): lists, and dates, subjects and dimensions
  that are numbers.

`PrivacyProofs` proves, for documents, policies, vaults and any number of
requests and notes, from the assumptions in `PrivacyProxy`:

* `TokensAreUndone`: `ProxySpec => []RestoreUndoesTokenize`. Tokenizing is a
  recursion over findings, leaves and notes, and restoring one over the vault;
  the value of each fold is that of a run, turn by turn (`Runs`, `FoldedRuns`).
  - Which findings are accepted is defined as a recursion over the strict order
    of their strength; that there is such a set, and one only, is
    `KernelExists`, and that they are substituted from the last to the first is
    `FromTheEndSubstitutes`. The same argument says what a search from the left
    yields (`ScannedFit`). What stands before a substitution is intact, so the
    findings that wait are still where they were (`SplicesIntact`), and what
    comes out has, besides what was put in, only atoms that no finding covers
    (`SplicesShow`, `OutsideUncovered`).
  - A vault only grows, and its tokens are all different (`SoundVault`,
    `OneMoreEntry`), so a token stands for its value in every later one
    (`StillStandsFor`, `RestoreToken`). Restoring replaces one token after the
    other in the whole text; a value it has put back is not changed by the next
    as long as nothing in the text looks like a token of the vault
    (`TokenizedText`, `TokenizedDocument`). An answer is masked first
    (`MaskedText`), so what it shows is outside its findings, a mask, or of a
    value that came back (`AnswerLeafIsOwn`).
  - The inductive invariant, `ProxyInv`, says of a request that what it sent,
    its vault and its answer are made of its own body (`RequestMade`), and of
    the notes that each is undone by the vault they share, whatever has been
    added to it (`NotesUndone`).

  Assumed (`PrivacyAssumption`) is that bodies, answers and notes are
  documents, that an expression fits at least one atom, that a client has a
  policy, and that no expression fits a sentinel of `media_service.py`, which
  is random. A literal of a client may look like a token: what is sent is then
  still undone or not as `RestoreUndoesTokenize` says.

The prover has no induction: the theorems of its library that have it take an
operator as a parameter, which its backends cannot instantiate. Where these
proofs need it, for folds, `FlattenSeq`, sums, the order of a finite set or the
newest backup of a week, they argue from the least counterexample instead
(`LeastNumber`, from the well-foundedness of the natural numbers).

Every safety property that a passing run checks has a theorem. Liveness
(`EveryRequestEnds`, `EveryRunEnds`, `DeadlineEndsWorker`) stays with TLC for
good: the prover does not reason about fairness or ENABLED.

## 5. The plan

Next, in this order:

1. Accounts: restrictions of a key (`allowed_models`) under edits that overlap
   with a rotation; they are in the model, and no property judges them yet.
2. Contact form: its submission is committed as pending before the relay
   answers.

The runs stay small: at most two actors of a kind, three where the third is
the one that goes wrong.

Not modelled: which strings the detectors' expressions accept, and the redaction of media
(`multimodal.py`, `media.py`), which is done by image, speech and document
libraries on one file at a time; the financial formulas (`company.py`,
`portfolio.py`, `risk.py`), one decimal expression each over validated inputs;
the TypeScript package, a second implementation of the engine; the website; the
GPU cache and the read-only reports. They compute on one input at a time or
only read, and have neither state nor order that a model could get wrong.
