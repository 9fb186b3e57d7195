# Verification of validator-health-check

`validator-health-check` is a Go daemon that watches validators of Cosmos
chains.  Health-check workers poll a registry for chains that are due, query
each chain's RPCs, compare what they find with thresholds, and enqueue alerts;
one pusher goroutine batches the alerts per receiver and sends them through
Telegram; a call center answers commands; a hot reload replaces users and chains
while everything runs.  All state is in memory and shared between goroutines.

This directory models the daemon in TLA+, checks the models with TLC and proves
part of their properties with TLAPS.

## Inventory

| component | state | operations | interacts with | hard because | correct when |
|---|---|---|---|---|---|
| chain scheduler (`registry/chain_registry`) | chain name -> config object with its last-check time | scan and claim, hot reload | workers, pauser, reload | scans hold only the read lock; objects are replaced | due chains are claimed in order, in time, rarely twice; pauses hold |
| pauser (`pauser.go`) | expiry of every pause | pause, unpause, is-paused | commands, scans, rounds | expiry and command race with a scan | a paused chain or validator is left alone |
| push service (`telegram_push_message_svc`) | a queue per receiver, two lists of queues, cool-downs | enqueue, dequeue a batch, send, re-enqueue | workers, call center, silencer, bots | enqueues interleave with a turn; sends fail before or after delivery | nothing accepted is lost, order, spacing, no starvation |
| prevent-spamming (`prevent_spamming.go`) | time of the last stamp by case and identity | should-send | rounds | one map for all validators; stamps precede messages | spaced, yet nobody is kept in the dark |
| uptime thresholds (`worker.go:352-440`) | none | missed blocks + parameters -> alerts | round | nested thresholds, division by zero | monotone, FATAL before jail |
| health-check round (`worker.go:65-597`) | what the round fetched | fetch, check each validator, check RPCs | all registries, push service | partial failures; world changes while the round waits | silence means health |
| governance check (`worker.go:599-696`, `cache_gov.go`) | two-hour mark, votes cache | fetch proposal, query votes, remind | round, address registry | marks written early, overlapping rounds | nothing overlooked, no wrong reminder |
| health-check cache (`cache_hc.go`) | last entry per validator | put, get | round, /status command | partial fetches | shows the truth or somebody was told |
| hot reload (`cmd/start.go:100-181`), user registry | users, root users, enabled chains | read, validate, replace | everything | users are replaced before the chains are validated; either file may be refused | registries agree with what passed validation |
| validator address registry | valoper -> valcons, account | register, look up | rounds | a key may fail to convert in every reload | (within the round) |
| silencer (`silencer.go`) | patterns with expiry per chat | set, remove, list, match | pusher, commands | clean-up under a second lock, by a time read before; a limit | a pattern lives until removed or expired; a chat has no more than the limit |
| most healthy RPC (`worker.go:886-978`) | one goroutine per RPC; the list of RPCs of a chain | query, join, choose, reorder | round, RPC registry | fork and join; the list is read without its lock | every RPC is asked, the best chosen, none forgotten, every round ends |
| RPC client registry | client by endpoint | get or create | the goroutines of all rounds | double-checked locking; one endpoint has several spellings | one client per endpoint |
| telegram bot registry | bot by token, its chats, the shutdown flag | get or create, list, flag | reload, pusher, call center, shutdown | a channel send under the lock; a flag read before it | one bot, and one reader, per token |
| call center (`telegram_call_center_svc`) | an employee per bot, the rate limiter | commands | pauser, silencer, registries, push service | what a command has read changes while it works | root users know what is paused |
| startup, shutdown, signals (`cmd/start.go`) | wait group, channel of new bots | start, trap, tell everyone, close | bots, call center, reload | the channel is closed while callers may send on it; two ways to exit | nobody is left out of the message; the process ends |
| configuration, utilities, command line | none | parse, validate, convert | - | - | what validation guarantees is in `HotReload`, the rest is covered by unit tests |

`PROJECT.json` lists every component with its status, and under `hazards` every
place that is hard to test, with the property that covers it or the reason why
none does.

## Modules

| module | models | composition |
|---|---|---|
| `ChainScheduler` | scans, claims, reloads and chain pauses (`chain_registry.go:13-69`, `pauser.go:12-34`, `command_pause.go:86-122`) | |
| `SchedulerTiming` | the same with the duration of checks, the timer of the hot reload and fairness | EXTENDS `ChainScheduler` |
| `AlertOutbox` | what the push service promises: accept, deliver or silence every message | abstract specification |
| `TelegramPusher` | queues and turns of the pusher (`telegram_pusher.go`, `receiver_based_queue.go`) | refines `AlertOutbox` by INSTANCE |
| `PreventSpamming` | `ShouldSendMessageWL`, as operators on the map of stamps | |
| `UptimeAlert` | missed blocks + slashing parameters -> alerts (`worker.go:352-440`), as operators | EXTENDS `PreventSpamming` |
| `UptimeWindow` | what must hold of `UptimeAlert` for all parameters and counters a chain may have | EXTENDS `HealthCheck` |
| `HealthCheck` | rounds of several workers on one chain (`worker.go:65-597`) | EXTENDS `UptimeAlert` |
| `GovCheck` | the governance part of a round (`worker.go:599-696`, `cache_gov.go`) | EXTENDS `PreventSpamming` |
| `RpcPool` | the fork and join over the RPCs of a chain, the choice, the reordered list, the registry of clients (`worker.go:886-978`, `registered_chain_config.go:92-113`, `rpc_client_registry.go`) | |
| `BotLifecycle` | bots from creation to shutdown (`telegram_bot_registry.go`, `telegram_bot.go`, `telegram_call_center.go`, `start.go:57-260`) | |
| `HotReload` | users and chains: validation, replacement, refusal (`users_config.go`, `chain_config.go`, `start.go:113-180`) | |
| `Silencer` | patterns, their expiry, the limit and the late clean-up (`silencer.go`) | |
| `CallCenter` | commands of several employees while the configuration is reloaded (`employee.go`, `command_pause.go`, `command_silent.go`, `rate_limiter.go`) | EXTENDS `HotReload`, `Silencer` |
| `MC*` | instances for TLC | EXTEND the module they instantiate; `MCHealthCheck` extends `UptimeWindow` and with it `HealthCheck` |
| `*Proofs` | theorems and proofs | EXTEND the module they are about |

### How state and actions correspond to the code

* **Locks.** A function under one mutex is one step.  A scan takes many locks
  and is many steps (`StartScan`, `SkipPaused`, `NotPaused`, `NotDue`, `Due`,
  `Claim`, `EndScan`); it holds the registry's read lock for all of them, which
  is why `Reload` waits for `NoReader`, and why no scan starts while a reload
  waits (Go's `RWMutex` prefers writers).
* **Double-checked locking.**  The look under the read lock, the second look
  under the write lock, and the creation, which asks the network while the lock
  is held, are three steps (`LookUp`, `Lock`, `Create`).
* **Channels.**  An unbuffered send is one step of both ends (`HandOver`); a
  closed channel is a flag, and `ClosedUnused` says that nobody is about to send
  on it.  The answers of the goroutines of a round go over a channel that is
  read until all have answered: `stage` and `answer` hold them (`RpcPool`).
* **Unlocked reads.**  `GetRPCs` reads a slice that another goroutine replaces.
  In Go this is a data race: pointer and length are read apart.  `BeginRead` and
  `EndRead` take any mix of the list before and the list now (`Torn`).
* **Network calls.** A step of a round or of the pusher ends where the code waits
  for an answer.  Between two answers a round only takes locks for a moment; the
  alerts it enqueues there are of different cases, so taking them as one step
  loses no interleaving that the properties tell apart.  The governance check is
  split in the same way: the tests of pause and cache (`Ask`), the moment the node
  answers (`Answer`) and what the round does with it (`React`) are three steps, so
  votes are cast and other rounds act in between.
* **Errors.** A send to Telegram that fails is not a send: `TellChats` picks the
  chats that are reached, and the others are recorded as `refused`;
  `SendSucceeds` and an attempt that reached the chat take a batch that `Fits`.
* **Time.** Clocks are kept as what the code computes from them: the age of a
  last check, of a stamp, of a message, the rest of a pause or a cool-down.  Ages
  saturate at the longest window.  A round may last any number of ticks.
* **Observations.** `claimedBy`, `racers`, `overdue`, `blind`, `heard`, `steady`,
  `stamp`, `putBack`, `unacked`, `word`, `votedThen`, `told`, `refused`, `known`,
  `broken` and their like are read by properties only, never by a guard.
* **Messages.** An alert is a record of its case, window and FATAL flag; text
  is left out.  In `TelegramPusher` a message is a model value with a size.
* **Mutants.** Operators marked "mutant" are plausible mistakes; they are not
  part of the specifications.  `PROJECT.json` names, for every property, one
  mutant that breaks it.

## Runs

| run | question | bounds, and why they are enough |
|---|---|---|
| `scheduler` | how bad is the claim race; do pauses and snapshots hold; is the most urgent due chain claimed? | 2 workers, 2 chains, interval 2, pause 1: a race needs two scans, a skipped or less urgent chain a second one |
| `scheduler_timing` | is every due chain claimed, and within two checks of every chain, although reloads go on for ever? | 1 worker, 2 chains, checks of 2 in an interval of 3, a reload every 5: the first chain of the order is made due again by the interval and by reloads while the other waits; the number of reloads is not bounded |
| `pusher` | nothing lost, copies accounted for, order kept, turns spaced, eventually delivered or silenced, refinement of `AlertOutbox` | 3 messages for 1 receiver, batches of 2, of which one is over the limit and is refused, 2 failures: a batch is put back, fails at both attempts of a turn, and is enqueued again; queues of different receivers touch only in the lists, which is the next run's subject |
| `pusher_many` | are queues reachable and is the aliasing snapshot sound? | 5 receivers, 4 of them root: the smallest number for which Go's append leaves spare capacity that is then reused |
| `pusher_putback` (violation) | a comment of the code that the code does not keep | 3 messages for 2 receivers, no failures |
| `health_check` | silence means health; the cache shows the truth | 1 worker, 1 validator of 6 conditions with an RPC of its own, an RPC of the chain, 1 failure anywhere |
| `health_check_overlap` | alerts spaced and stamps honest under overlap; thresholds agree with each other and with the chain's rule | 2 workers, 1 validator, 2 parameters, a root watcher that comes and goes; every window up to 30, every minimum in twentieths, every counter |
| `health_check_fair` | is a lasting problem told again and again, also when stamps are shared? | 1 worker, 2 validators with one watcher that is no user at times, fair rounds |
| `lifecycle` | one employee per token, no send on a closed channel, no chat left out of the last message, the shutdown ends | 2 tokens, a root user and another; reload and pusher may ask for one token at once, both exits may run, and each send may fail |
| `rpc` | one client per endpoint, every RPC asked, none forgotten, the best chosen, rounds end | 2 workers, 2 RPCs, or 1 in two spellings, heights 1 and 2, each call may fail: a read can meet a reordering, and two goroutines of one round or of two can ask for one client |
| `call_center` | do root users know what is paused; do patterns live as long as they should? | 2 employees, 2 users, 5 users files and 3 chain files of which some are refused, 3 patterns with a limit of 1, 2 instants |
| `gov` | vote cache, right and spaced reminders, nothing overlooked, reminders keep coming | 2 workers, 1 validator, 2 proposals, 1 failure, fair rounds; a vote or the end of a proposal between any two steps of a round |

All named bounds are constants: `MaxPause`, `MaxCheck`, `MaxFaults` (of the
pusher: refusals included), `MaxProposal`, `MaxWindow`, `MaxBlock`, `MaxTime`.
Durations are small numbers in the order of the real ones; where a run does not tell two windows apart they are
equal.  The keys of all validators convert in the runs (`OddKeys` is empty); the
proofs allow any.  Decimals of `MinSignedPerWindow` are integers of `One`, 20 in the runs
and any number in the proofs.

### What the runs show of the code

The code does not keep these of its own comments, messages and limits.  The
second is a run that must find its violation, quoted under `findings`:

1. *Double health check.*  Two scans can claim one chain
   (`chain_registry.go:50`, "so that the next health-check worker will not pick
   it up", and `:63`, "prevent double health-check").  `OnceEachPerInterval` and `RepickOnlyByRacers`
   bound the damage: at most one claim per worker and interval, and only by
   workers that had passed the due test at the first claim.
2. *Put back and handed out.*  Messages beyond the length limit are returned
   as well as put back (`receiver_based_queue.go:94-109`), so they are sent
   now and again.  `CopiesAccounted` shows that this and unacknowledged attempts
   are the only sources of copies.
3. *Over the limit.*  For the same reason the text of a batch may be longer than
   the 4096 bytes for which the code cuts it (`receiver_based_queue.go:71-109`).
   Telegram refuses such a text at every attempt; the batch is enqueued again,
   on top of what was put back, and may be chosen again for ever.
   `BatchesWithinLimit` is what the code means and does not do, and the hypothesis
   of `EventuallyDelivered`; `NothingLost`, `CopiesAccounted` and the refinement
   hold without it.
4. *Maximum of patterns.*  The limit is tested with `>` before a pattern is added
   (`silencer.go:38-50`), so a chat gets 51 where the error it returns says
   that 50 are allowed.  The limit is exceeded by no more
   than that, which is proved (`LimitExceededByOne`), and at 51 one that is there already cannot
   be prolonged.
5. *The sleep after a push*, "to prevent API limit", never happens:
   `pushedPreviousTurn` is only ever set to false (`telegram_pusher.go:77-81`).
   `TurnsOfReceiverSpaced` is what holds all the same.

Other facts worth knowing, all within the properties as stated:

* The loop over the queues has no `break`: the variable the code calls
  `firstNonEmptyQueue` is the last eligible one (`telegram_pusher.go:88-104`), so
  listing priority receivers first does not serve them first.
* A stamp covers an identity and a case, not a validator.  `SilenceMeansHealth`
  therefore says only that an alert *of the case* reached the watcher within its
  window, maybe about another validator; a stronger reading is false.
* A watcher that is no user when a round begins is stamped without a message
  (`worker.go:99-103`).  `StampsAreMessages` says this is the only way a stamp and
  a message differ; `KeepsReminding` that it heals after a window.
* The two-hour mark of the governance check is set before any vote is queried.
  `NothingOverlooked` speaks of a round that reaches a validator; one whose query
  fails tells its watchers at once.
* Two spellings of an endpoint pass the validation of a chain file and become
  one endpoint that is listed twice.  The first reordering takes both out and
  puts one in front, so the list gets shorter, and an unlocked read that meets
  it may see an element past the end.  `AllAsked` therefore speaks of files that
  spell every RPC once; `NoRpcForgotten` and `RoundsJoin` hold for all.
* Patterns are kept by the chat a command came from and matched by the receiver
  of a message, a user: those set in a group silence nothing.
* Pauses take effect under a lock, the words to the root users follow without
  it.  When two operators treat one target at once, a root user may get the words
  in the other order; `RootsKnowPauses` excuses this case.
* The two exits, a signal and a panic of the reload, may both run: bots are then
  stopped twice, which may panic and break off the message to everyone, and the
  second close of the channel ends the process.  `NoChatLeftOut` excuses the
  former; `ShutdownCompletes` holds with both.
* A send of the last message that fails is logged and not made up for
  (`start.go:224-236`), so nobody is promised to be told; `NoChatLeftOut` says that
  everybody is at least tried, whichever sends fail and whoever ends the process.
* The hot reload makes every chain due at once (`chain_registry.go:24-46`), and
  its default period of 5 minutes is half the interval between two checks.  When the
  checks of all chains do not fit between two reloads, those at the end of the
  order can be left aside for ever: with a reload every 2 units instead of 5 the
  run `scheduler_timing` is violated.  Nothing in the code relates the two settings to
  the number of chains.
* A reload also forgets that a chain is being checked: another worker may check
  it at the same time.  `OnceEachPerInterval` counts the claims of one registered
  object and does not speak of this.
* `user_config_registry_test.go` registers users none of whom is root; in the
  daemon such a file never gets there, as `UserRecords.Validate` refuses it
  (`HotReload.ValidUsers`).
* The flag of the shutdown is raised under the lock that a creator of a bot
  holds across its send, and read again by whoever gets the lock later: this is
  what keeps `ClosedUnused`.

## Fairness

* `SchedulerTiming`: workers, the reload and the operator's command go on when
  they can (the Go runtime runs every goroutine that can run, a waiting writer
  gets its lock), and time does not stop.  A health check takes at most `MaxCheck`:
  an assumption on the network which the code does not enforce, as its calls have
  no deadline.  `EnoughTime`, that checks fit between two checks of a chain and
  between two reloads, is the hypothesis under which nothing starves; the instance
  satisfies it.  A reload needs no fairness to be requested: the run has those
  that come as often as the timer allows, later, and never.  Polling takes 30 ms, nothing next to the interval, so time
  passes only while nobody has something to claim or is in a scan.
* `TelegramPusher`: the pusher is one goroutine that always goes on, and time
  passes.  Failures are finitely many, which is why batches over the limit are
  excluded from `EventuallyDelivered`.  So are messages: an endless stream for
  one receiver starves it (`receiver_based_queue.go:46`), which the code does not
  prevent.
* `RpcPool`: a worker and its goroutines go on when they can.  The lock of the
  client registry is free again and again, hence strong fairness (a waiting
  goroutine is not passed over for ever, `sync.RWMutex`).  Every call returns.
* `BotLifecycle`: weak fairness of the call center, strong fairness of the
  callers and exits, which wait for the lock.  Every call of Telegram returns.
  Signals, panics and reloads need not come.
* `HealthCheck`, `GovCheck`: the scheduler hands out the chain again and again
  (`EveryChainRechecked`), no call hangs, time passes.  Nothing is assumed of users,
  pauses or the chain.

## Proofs

TLAPS checks each of these for every value of the constants, from the
assumptions named in the modules only.  Every invariant and every action
property that a passing run checks is the conclusion of a theorem, and so is the
refinement of `AlertOutbox`.

| module | theorems | argument |
|---|---|---|
| `ChainSchedulerProofs` | `TypeCorrect`, `SnapshotAlwaysCurrent`, `PausesAreHonoured`, `ScansAreExhaustive`, `DoubleChecksAreBounded`, `RepicksAreRaces`, `TimedIsScheduler`, `DueChainsAreClaimedInTime` | one inductive invariant: the properties, `ClaimedAreNotDue` (a chain claimed in this interval is not due, so only racers can claim it again), and what the observations of a scan mean for the chains it has still to look at; for the bound on waiting see below |
| `TelegramPusherProofs` | `TypeCorrect`, `NoMessageIsLost`, `PushServiceImplementsOutbox`, `TurnsAreSpaced`, `ChosenQueueHasMessages`, `NoQueueIsOrphaned`, `SnapshotsAreSound`, `NoCopyIsUnaccounted`, `OrderIsKept` | lemmas on what appending, taking and filtering do to the elements of a sequence and to the number of copies in it; the invariant adds in which phase of a turn the batch holds messages, and that every message waits in the queue of its receiver; an entry written into the array behind the snapshot is of a receiver that had no queue, so it repeats none; order: what was accepted before a message in a queue, in hand or delivered is ahead of it, in hand with it, or done |
| `UptimeWindowProofs` | `MoreMissedMoreUrgent`, `NoJailWithoutFatal`, `SilenceIsFatal` | arithmetic of the thresholds, for any window, decimals and durations in their order |
| `HealthCheckProofs` | `TypeCorrect`, `StampsTellOfMessages`, `AlertsAreSpaced`, `CacheIsTrue`, `SilenceIsHealth` | every step sends alerts, sends nothing, or lets time pass (`Sends`, `Quiet`, `Tick`); `TypeOK /\ StampsAreMessages` is inductive, and the age of a stamp never exceeds that of the last message, so what is over for the stamp is over for the reader; for silence and the cache see below |
| `GovCheckProofs` | `TypeCorrect`, `CacheIsTrue`, `RemindersAreSpaced`, `RemindersAreRight`, `NoneIsOverlooked` | that a bounded set of numbers has a greatest one is proved from the library's well-founded order of the naturals; the invariant adds that a stamp is as old as the last reminder, that a round which looks at validators has a proposal, and what an answer that is not used yet means: it is a vote, and no vote the node knew of on a proposal still open is later (`AnswersHold`) |
| `RpcPoolProofs` | `TypeCorrect`, `OneClient`, `ChoiceIsHealthiest`, `AllAreAsked`, `NoRpcIsForgotten` | whoever is creating a client holds the registry's lock and has seen, holding it, that there is none; only `Choose` ends the wait of a round, from the answers of all; for the list see below |
| `BotLifecycleProofs` | `TypeCorrect`, `TokensHaveOneReader`, `NoSendOnClosed`, `NoChatIsLeftOut` | what is done under the lock is done by its holder; the flag, once up, is seen by whoever has the lock, so nobody sends after the close; a bot is with its creator, in the hand of the call center, or with its employee; chats known when the flag was raised stay (`KnownKept`), and one that nobody has tried yet is at a bot that each exit has still to tell (`LeftToTell`) |
| `CallCenterProofs` | `TypeCorrect`, `LimitExceededByOne`, `RootsAreTold`, `LivePatternsStay` | a step takes patterns away or adds one to at most `Limit` live ones; `Told` says who may still owe a word on a target: either several treated it and all are excused, or one does, in whose list is every root user not yet told; the time of a clean-up is past |

Four of the arguments are more than a strengthening by one or two conjuncts:

* **The wait of a due chain** (`DueChainsAreClaimedInTime`).  Time passes only
  while all workers are at health checks, so every worker accounts for the wait:
  it ended the check it was at and then served other chains.  Between two reloads
  it served each of them at most once, for a chain served since is not due again
  before the interval is over; `WaitAccounted` says so for every worker and every
  due chain by counting the chains it served, and hence the part of the wait since
  the last reload (`Wait`) is at most the number of chains times `MaxCheck`.  A
  reload makes the chains served meanwhile due again and the count starts anew,
  but the chain that waits goes on waiting.  By then it has waited no longer than
  that number again (`WaitBeforeReload`): had it been due since the reload before,
  it would have been claimed, as the checks of all chains fit between two reloads.
  So a wait spans one reload at most, and is bounded by two checks of every
  chain.  `EnoughTime` has both hypotheses; without the first the first chain
  of the order is due again by itself before the last one is reached, without the
  second a reload makes it so, and the bound is false.  In the instance the longest wait is
  a little shorter than the bound.  `FleetAssumption` (there is a worker, the chains
  are finite) is what the settings guarantee.
* **Silence and the cache** (`SilenceIsHealth`, `CacheIsTrue`).  A round works
  on copies, fetched one after the other.  `Staged` says which of them are
  filled at each stage of the round, and `Truthful` that, while the chain has
  not changed since the round began (`steady`), each copy is either what the
  chain has, or missing, and whoever could miss the alert was told of the
  failure.  `AllSound`, these two for every worker, is inductive: what other
  rounds do leaves a round's copies alone, what the chain does ends `steady`.  A
  round that looks at a validator then computes its alerts from the truth, and
  an alert that is not sent is one whose stamp is young, hence
  (`StampsAreMessages`) one that arrived.
* **The list of RPCs** (`AllAreAsked`, `NoRpcIsForgotten`).  `Reordered` is the
  loop of `InformPriorityLatestHealthyRpcWL`, a function that is defined by its
  own smaller values.  That each of them keeps the elements met so far is shown
  by least counterexample, from the well-founded order of the naturals, first
  for the existence of the function, then for the set and the number of its
  elements.  `ListInv` adds that a file which spells every RPC once has a list
  without repetition, that every list a round works with then has the elements
  and the length of the chain's, and that no round chooses what lies past the end.
  Two lists of one length that replace each other tear into one or the other,
  which is why a round asks all although it reads without the lock.
* **Copies of a message** (`NoCopyIsUnaccounted`).  The number of copies in a
  sequence is the number of positions, and the copies of the parts of a sequence
  add up by a bijection of positions.  A step that takes a batch, puts back what
  is too long, delivers, or enqueues again moves copies between the queues, the
  hand and the delivered ones, and the two observations `putBack` and `unacked`
  count those it adds.

Only model-checked: `EveryChainRechecked`, `EventuallyDelivered`,
`KeepsReminding` (of alerts and of reminders), `RoundsJoin` and
`ShutdownCompletes`.  They are liveness properties, which rest on fairness and
so on ENABLED, out of the prover's reach.  The safety part of two of them is
proved: `DueChainsAreClaimedInTime` gives the bound in time, as
`NoMessageIsLost` gives that what is not delivered yet still waits.

The assumptions on constants say: durations are in the order of the real ones;
the model values that stand for "none" or "failed" are none of the values they
are told apart from, and neither the chain itself nor a managed RPC is a
validator; there are a worker and a root user; the endpoints of the chain file
and, for the bound on waiting, the chains are finitely many.  Workers, users,
messages, RPCs and heights are otherwise arbitrary.

## What is abstracted or left out

* The round sees one step of `RpcPool`: `PickRpc` fails, or returns an RPC that
  may be outdated.
* Pages of a query are one step that fails or not: a failing page fails the
  query (`worker.go:782-784`).
* A round reads the users once, in `StartRound`; the code looks the identities up
  one after the other in that place.
* The second look-up of the client of the chosen RPC (`worker.go:972`) finds the
  client that has just answered and is part of `Choose`.
* Root users are fixed in `HealthCheck`; other users come and go.  `GovCheck`
  takes all watchers as users.
* An identity that occurs in several lists of watchers is sent an alert
  about the chain once per occurrence; the models keep sets.
* Ranks, monikers, texts and times in messages and in the cache.
* Panics end the process (the recovering function exits); there is no state on
  disk, so a restart is the initial state.  Of the goroutines that may panic,
  `BotLifecycle` has the reload; a panic of a worker runs the same exit function.
* `BotLifecycle` keeps chats of users that a later file removes, as the code does:
  they are told of the shutdown, too.  The wait of two seconds before the
  message at startup guarantees nothing that the model would need.
* A registered chain object that a reload has replaced may still be given the
  RPC its last round chose; only rounds that began before read it.
* `CallCenter` has the commands that change something.  `/status`, `/last`,
  `/search`, `/chains`, `/validators`, `/me` and `/help` read the registries and
  format what they find.
* The durations of retries.  `Retry` is counted where copies depend on it.
* Parsing of files, formats of names, addresses and URLs, the settings of the
  process, and the command line.
* `UptimeAlert` compares integers where the code compares floating-point
  percentages.  `RatioOfInt64` multiplies before it divides, and block counts are far
  below 2^40, so the comparison with a whole percentage is exact at the thresholds.

## Plan

Done: scheduler, push service, prevent-spamming, uptime, rounds, governance,
RPCs and their clients, bots and shutdown, hot reload, silencer, call center.

Proved: every invariant and action property of the passing runs.

What is left to prove: the safety cores of the liveness properties, namely that
whoever waits for a lock waits for somebody who can go on (the holder of the
lock of the client registry is creating a client, the holder of the bots' lock
is handing one over or has only local work left), and that the reload leaves the
chain registry with what passed validation against the users it read.
