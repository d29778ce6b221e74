# Verification of hactto-api

TLA+ models of the parts of this server where an interleaving, a lost answer, a
failure between two steps or a boundary decides whether the outcome is right.
The modules are written from the code under `src/src` and `src/prisma`; tests and
comments are used only as statements of what was meant. `PROJECT.json` names, for
every definition, the lines it models. Paths below are relative to `src/src`.

## The system

The server is a Node process (NestJS) over MariaDB (Prisma) and Redis. Requests
are asynchronous functions: everything between two `await`s runs alone, and any
other handler or cron job may run at an `await`. Nearly all multi-step operations
are *not* in a database transaction. This is the grain of the models: **one
action per await-free stretch of a handler**. The exceptions are named with each
module: single-row writes that nothing depends on in between are one action with
the read before them.

Two things about processes the models leave out. While `deploy.sh` switches from
blue to green both run for a while, with a memory each and a scheduler each; and
`ScheduleModule.forRoot()` is imported twice (`app.module.ts:17`,
`modules/root.module.ts:14`), which may register every cron job twice. In the models
a job runs once at its hour and meets only requests; overlapping requests stand for
the two processes as far as rows and Redis are concerned.

| component | state | operations | what is hard about it | module |
|---|---|---|---|---|
| Payment service | `payment_event` (log, unique `(paymentId, version)`), `payment_projection`, money at PortOne | ready, confirm, fail, cancel; grant after approval | two handlers on one payment, lost gateway answers, failure between approval and grant, projection written last by the wrong handler | `Payment` |
| HON ledger | `hon` (free, paid), `hon_event` | charge, deduct, provisions, daily events, first row | read, compute, write back across awaits; balance and event saved apart | `HonLedger` |
| Subscription | `subscription` | start, cancel, daily renewal, unlimited pass | renewal from a stale list while the user cancels; charged and not recorded | `Subscription` |
| Refund inquiries | `inquiry` | create, propose, reject, confirm, cancel, answer | several payments and the HON reclaimed one by one; confirmed twice | `Refund` |
| Weekly draw, analysis, shops | `winning_number`, predictions, shops, Redis locks and caches, status in memory | fetch, publish, analyse, lock, unlock, read-through | check-then-set lock, partial failure of the chain, stale fill after a clearing | `Draw` |
| Lottery analyser | none | features, ranks, temperature, reliability | computed twice in two ways, boundaries | `Lottery` |
| Authentication | `user`, Redis refresh tokens, failure log, mailed links | signup, login, refresh, withdraw, restore, reset | counters read and written apart, withdrawal against restore | `Account` |
| Access guard | cached verdict and address per user, `user`, `block` | judge, register, block, unblock | verdict outlives what it was read from | `Guard` |
| Board | posts, comments, likes, reports, slips | create, like, report, resolve, delete | check-then-create, rows about what is gone | `Board` |
| Uploads and clean-up | directory, `imageUrl`, `avatarUrl` | upload, show, replace, delete (the nightly clean-up finds no directory) | files in use deleted | `Attachments` |
| Nicknames, banned words | `user.nickname`, table and in-memory list, reports | name, report, block, reject, restart | several rows and two copies, one by one | `Words` |
| Socket gateway, OCR, mail, policies, DTOs, mappers | – | – | I/O and conversions | none |

They interact by calls. `PaymentService` calls `HonService` and the subscription
repository for the grant; `confirmRefund` calls `PaymentService.cancelPayment` and
`HonService.deductHon`; prediction and personal analysis call `deductHon`; the draw
job calls the analysis and raises the event on which caches are cleared; the cron
jobs of `TaskService` go to the tables of the others directly. `Refund` composes
inquiries with payments and balances at the level of what `Payment` and
`HonLedger` promise; `Access` and `Community` put parts with no common state into
one specification, and a behaviour is about one of them (`part`).

What makes each correct, in a line: a payment's history is one the aggregate
allows, is backed by money, and is delivered exactly once; a balance is never
negative, never more than was given or bought, and explained by its events; a
subscription is charged once per period and not after it is cancelled; a refund
pays once and takes back the HON it pays for; a draw is analysed once and the site
opens again; a cache does not keep for ever what a write has replaced; an address
has one holder; a lock is earned; a block holds while it is set and no longer; a
slip counts once; a file that is shown stays and one that is not goes; a blocked
nickname stays blocked.

## Modules

| module | what it is |
|---|---|
| `PaymentLifecycle` | abstract: a status per payment and how often its product was handed over |
| `Payment`; `PaymentInvariant`, `PaymentProofs` | `PaymentService` with aggregate, event store, projection, gateway, grant; inductive invariant and theorems |
| `HonLedger`; `HonInvariant`, `HonLedgerProofs` | `HonService` and the daily job over balances and events; two inductive invariants and theorems |
| `Subscription`; `SubscriptionInvariant`, `SubscriptionProofs` | start, cancellation, unlimited pass and the midnight renewal over hours and days; invariants and theorems |
| `Refund`; `RefundInvariant`, `RefundProofs` | the refund of one user's payments from use to confirmation, with payments cancelled beside it; four invariants and theorems |
| `Draw`; `DrawInvariant`, `DrawProofs` | the Saturday job, the analysis, users who predict, managers who interfere, readers who fill caches; invariant and theorems |
| `Lottery`; `LotteryProofs` | the pure functions over six numbers and the draws so far; invariant and theorems |
| `Requests` | slots, arrival, calm and overlapping behaviours: what `Access` and `Community` share |
| `Account`, `Guard` → `Access`; `AccessInvariant`, `AccessProofs` | accounts and the guard of every request; invariants and theorems |
| `Board`, `Attachments`, `Words` → `Community`; `CommunityInvariant`, `CommunityProofs` | what users share; invariant and theorems |
| `MC…` | instances for TLC: symmetry sets, small amounts, bounds by part |

### Payment

`log[p]` is the event table of payment `p` as a function from versions to event
types; `proj[p]` its projection row; `pg[p]` what PortOne holds; `granted[p]` how
often `saveHon`/`saveSubscription` wrote its product; `price[p]` remembers the
amount the recorded approval was confirmed with. `req[r]` is the handler in slot
`r`: where it is, the aggregate it rebuilt (status and version), the event it is
about to save and the amount the client named when it asked for confirmation. A handler goes `GatewayConfirm`/`GatewayCancel`, `SaveEvent`,
`SaveProjection`, and after an approval `GrantLoad`, `SaveGrantEvent`,
`GrantWrite`: one action for each await of `confirmPayment`, `cancelPayment`,
`failPayment`, `save` and `chargeHon`/`startSubscription`. `Append` is the unique
index: a taken version makes the handler throw. The gateway is external and
modelled from `PortoneClient`: it captures once, may decline, may refund in part,
and with `LossyGateway` its answers may be lost, which the client turns into
`success: false`. The client's amount decides three things, as in the code: under
which id the gateway is asked (a plan is asked for by payment id, anything else by
`paymentKey`; `GatewayIds`), whether the amount is compared with what the gateway
holds (`Flows`: the query compares, the capture does not), and which product is
granted (`GrantEvent`). An amount that is no product's price is approved and falls
through: nothing is granted. A cancellation names the id by the amount ordered
(`CancelledId`). `Abort` (with `MayAbort`) lets a handler die at any await.

`PaymentLifecycle` is what a payment promises: NONE → READY → PAID or FAILED,
PAID → CANCELLED, the product at most once, only after PAID and only for a price
that is some product's. `Payment` is shown to implement it under the mapping status ↦
`Replay(log[p])`, entitled ↦ `granted[p]`, sold ↦ the payments whose `price` is a
product's.

### HonLedger

`hon[u]` is the balance row (`rows` says whether it exists), `book[u]` the sums of
the columns of `hon_event` and its last row, `opening[u]` the HON that came with a
row and no event, `credited[u]` a history variable: all HON a write has put in the
user's favour. A handler in slot `t` goes `GetHon` (with the sufficiency check),
`SaveHon`, `SaveHonEvent`; a bulk provision repeats this for the users it has
listed and survives the failure of one (`Done`). The job goes `DailyRead`,
`DailyCommit`: the events are computed from what it read, the balances change as
they are when the transaction runs. `After` is what each operation computes.
`Overlapping = FALSE` restricts behaviours to one operation at a time, `Faults`
says whether calls may be refused and the process may stop. The amount of a
daily setting is any integer, as nothing checks it (`admin-hon-event.dto.ts:25`).

### Subscription

`sub[u]` is the row of the user: status, plan, next payment, end; `now` counts
hours, of which `Day` make a day, and `midnight` is the hour today began at. A plan
lasts `Month` or `Year` hours from the hour it was bought at. A request
(`task[t]`) reads the row and computes what it saves (`Begin`), and saves it an
await later (`SaveSubscription`): `Started`, `Cancelled` and `Active` are what
`startSubscription`, `cancelSubscription` and the unlimited pass write. The job
goes `ListDue`, then for each listed user `Charge` (the gateway call, external:
it takes the money or declines, and with "lost" its answer may not arrive),
`RecordPayment`, `SaveRenewed` or `SaveExpired`, which write the subscription back
*as it was listed*. `Tick` is an hour that passes; at midnight the job is to run, and
it ends before the next hour. Free passes are given for the future (`PassHours`). `captured`, `recorded` and `renewed` count, for each user, what the
gateway took, the approvals on record and the periods written; `stopped` is the
user's last word. The purchase that calls `startSubscription` is `Payment`'s
grant; `Exempt` is the test with which `HonLedger`'s `DeductHon` lets a subscriber
pass.

### Refund

One inquiry concerns one user, so the module has one: `pays` is the projection of
the user's payments with the won that went back for each, `hon` the balance, `sub`
the subscription, `inq` the inquiries. A payment is approved in one step (that this
is sound is `Payment`'s refinement). `confirmRefund` goes `ConfirmRefund` (reads
the inquiry and the balance), `ListPayments` (computes the amount anew),
`GatewayCancel` and `SaveCancel` per payment, `DeductHon`, `WriteHon`, `Settle`.
`HonRefund` is the amount, `Returned` the HON taken back; `Offers` the amount a
manager proposes, which the confirmation does not look at. Beside it
`CancelPayment` and `RecordCancel` are `POST payments/:id/cancel`, which gives the
whole price back and takes no HON; `direct` remembers them. `calm` is chosen at the
start: one request after the other without failures, or anything goes (`Abort`).

### Draw

`row[e]` is the `winning_number` of episode `e` (placeholder or drawn), `linked`
what has its analysis, `sys[e]`, `usr[e]`, `scored[e]` how many predictions of the
system and of users there are and how many have their reliability; `flag` and
`locked` are the two Redis keys, `shown` the status in memory. `fetcher` holds the
cron job and a manager's re-fetch, `wanted` what a manager's fetch of shops has still
to store, `run` the analyses: the job's own, those of the event handlers, a manager's.
A prediction needs the row of its episode, by foreign key (`NoRow`). `setting` restricts what else happens in a behaviour
(a user who buys, a manager, fetches of shops, overlapping looks at the flag, failures
and crashes, readers), so that each hazard is explored to its end. Cached entries are what they
show (`Seen`), with the read-through, the clearing on a draw and the expiry.
One algorithm stands for all (the code treats one after another), the batch limit
of 30 and the stop after three errors in a row of the shops lie beyond the two
weeks of the instance.

### Lottery

Operators named as in the code for every function of `LotteryAnalyzer`, the
status of a ball, the rank of a prediction and the reliability; a behaviour lets
draws come in while a user holds six numbers, so that the statistics are checked
in every history of the bound, weeks missed included. What the code filters and
counts is counted by places (`Count`), so that a number twice in a slip counts
twice; a list whose order nothing reads is a set, and the list of draws before an
episode is the set of its places in `draws` (`Known`). A weight is counted in parts
(`Scale` to one), as the code takes fractions. The ranks a personal
analysis counts and the one the history shows are two definitions, as in the code.
The reference definitions (`Stretches`, `HasDivisor`, sets of common numbers) stand
with the properties.

### Account, Guard: Access

`users` are rows (a tombstone keeps the hash of its address, here the address),
`stored` and `issued` refresh tokens by number, `links` the mailed links that
still open, `failLog` the log of an address and `missed` two history counters: the
failures since the last lock ended, and since that or a success. Each of sign-up,
login, reset, withdrawal and restoration is its read and its writes
(`LoginReads`, `LoginResets`, `LoginChecks`, `LoginFails`, `LoginClears`); the
unique columns (`EmailFree`, `RestoreTokenFree`) make a handler throw. `HandleCron`
deletes withdrawn rows while requests run: which of them are a year old is a choice,
but for one withdrawn through a link that still opens or by a request under way
(`JustLeft`); a restoration under way then finds its row gone and throws. An id drawn
for a new row is not one a request or a token still knows (`Fresh`), as eight random
characters do not recur in that time.

`Guard` is `canActivate` for one visitor id, an await at a time: `Enters`,
`ReadsAddress`, `FindsUser`, `FindsBlock`, `Remembers`, `Judges`, `Binds`,
`Notes`; behind it registration, first inquiry, block and unblock, and the expiry
of blocks, cached entries and the manager's session. `verdict` is the last request
judged in a calm behaviour.

### Board, Attachments, Words: Community

`Board`: rows of posts and comments, pairs for likes, a bag of reports. Requests
that look and then write are two actions; foreign keys refuse rows about what is
gone and cascade (`PostGoes`, `Cascade`). `Attachments`: `disk` is what lies in the
directory, `image` and `avatar` say what is shown, which may be any name, as the
server looks at none; the history variables `given` and `shared` are the files some
request has named, and those named again or while they were not there. The nightly
clean-up is the action `CleanUp`, which removes nothing (`Swept`). `Words`: `nick`
with how the user came by it, `table` and `memory` of banned words, `report`;
`cleared` are the names blocked after a report and not allowed since.
`BlockNicknameReport` goes `InsertsWord`, `LearnsWord`, `SettlesReport`,
`StripsName`, `SettlesOthers`; `Restarts` drops all handlers at any point.

## Runs

| run | shows | bounds |
|---|---|---|
| `payment_safety` | histories, grants, books, projections under lost answers and dying handlers | 3 requests, 2 payments competing for one order id, one ordered at a plan's price, confirmed for HON or for a plan: enough for any two decisions on one snapshot with a third in the way |
| `payment_refinement` | refinement, PAID is granted, delivery under fairness | 2 requests, 2 payments competing for one order id, confirmed for HON, a plan or an amount that is no price; handlers that do not die |
| `payment_crash` | *violation*: paid and never granted | |
| `hon_overlap` | no overdraft, nothing from nothing | 2 users, 2 slots and the job, 4 operations, fees below and above the balances, refused calls and crashes |
| `hon_serial` | events explain and state the balances | 2 users, 5 operations one at a time, daily settings above and below zero |
| `sub_overlap` | renewals are paid, under overlap, lost answers, refused calls, a server that is down | 2 users, 2 slots and the job, days of 2 hours, months of 1 day, 2 midnights, 3 requests |
| `sub_serial` | charged at the end and only then, not after a cancellation, on record; what is due is settled | 2 users, 4 requests one at a time, 3 midnights, bought at noon or at midnight: two renewals in a row, an upgrade, a pass that ends |
| `refund` | cancelled is paid back; HON held is backed by payments that stand or were cancelled directly; refunds alone give back nine tenths at most; none stops halfway | 3 payments, 2 inquiries; 11 requests one at a time (buy, use, refund, buy again, refund again), 7 that overlap or fail |
| `draw` | nothing twice, a row for the next episode, caches show draws; every draw analysed, the site open, caches fresh in the end | 2 weeks: the first may go wrong, the second makes it up; 2 attempts, 2 troubles |
| `lottery` | features add up, ranks agree, reliability in range, temperature agrees | 23 slips from 9 numbers, 4 draws with holes; windows 2 and 3 and skips 1 and 2 stand for 10, 30, 5, 10; weights in thirtieths, whole, a sixth each, a tenth and less |
| `access` | addresses have one holder, locks are earned, verdicts are right, a lapsed block ends | 2 rows, 1 address, 2 passwords, 3 failures lock (5 in the code); 8 requests one at a time, 6 or 7 that overlap; guard 5 and 4 |
| `community` | slips and reports count once; files shown at one place stay; nicknames in order | 2 of all that can be confused, 1 comment; 4 to 6 requests one at a time, 4 to 6 that overlap |

`Payment` needs no bound beyond its sets: every payment has at most four events
(proved). The others bound the requests that begin (`MaxOps`, `MaxOverlaps`), the
days (`Horizon`), weeks, draws or tokens. Amounts are small numbers chosen so that
a fee can be below, at and above a balance and a purse can run out in the middle
of a deduction; in `Refund` they are the prices and the HON of the code. In
`Lottery` the scaled windows keep the order of the code's: the shorter window is as
long as the warm skip, the hot skip shorter, the longer window longer.
Symmetry is used on slots and users in runs that check only safety.
`CHECK_DEADLOCK FALSE` stands where the sets or the bounds are used up: the server
then has nothing left to do.

**Calm and overlapping.** Several promises hold when requests do not overlap and
fail when they do, as nothing in the code locks anything. Those modules choose at
the start of a behaviour whether it is calm, and a property says which half it is
about; what holds for both is stated without the word.

**Fairness.** In `Payment`, weak fairness of `Proceed`, the continuation of a
running handler: Node always resumes a settled `await`, and the drivers settle
every call by an answer or an error. Arrivals, refusals, checkouts and deaths are
not fair. Liveness is checked only where handlers do not die: after a crash
nothing in the code resumes them, which is the finding of `payment_crash`.
In `Subscription` the job and the saves of requests are fair, for the same reason;
the clock is not: `DueIsSettled` says what becomes of a list, not that a day comes.
In `Draw` the steps of the job, the analyses and handlers are fair, and so are the
cron schedule, the weekly publication and the expiry of Redis entries, which are
clocks. In `Guard` only the expiry of the cached verdict is.

## What the models show of the code

The run `payment_crash` is the one recorded as a finding: nothing resumes a grant
that a crash or an error has cut off after the approval was saved
(`modules/user/application/payment.service.ts:132`). The properties that pass
carve out other places where the code does less than one might expect. The list
says what came up there; most entries appear as counterexamples when the exception
is taken out of the property.

- *Payment.* The product is chosen by the amount the client sends with the
  confirmation (`payment.service.ts:137`): an approved amount that is no product's
  price is PAID and grants nothing, whatever dies or not, so `PaidIsGranted` and
  `DeliversWhatIsPaid` speak of prices only. The capture branch does not compare the
  amount with the one ordered, and a cancellation asks the gateway under the id that
  belongs to the ordered amount, which it may not know. `cancelPayment` refunds at the gateway before the aggregate is asked
  (`payment.service.ts:194`): from a READY history the money comes back, `cancel()`
  throws and the approval goes on. `save` overwrites the projection row whatever is
  there: a confirmation that saves its row after a later cancellation leaves PAID
  in the read model; `ProjectionVerdictStands` is what remains true of it.
- *HON.* A daily ADD below zero is accepted (`manager.controller.ts:847`) and drives
  balances below zero; the books still balance (`hon_serial`). Two deductions at once
  spend the same HON (`hon.service.ts:167`); what survives is that nothing is overdrawn
  and nothing comes from nothing.
  `provisionHonByAdmin` records `free + newPaid` (`hon.service.ts:251`), a balance
  without the free HON it has just given, so `StatedBalance` leaves these events
  out; a deduction cut off at zero keeps in `amount` what was asked for, so
  `BooksBalance` is over `freeAmount` and `paidAmount`, which are exact.
- *Subscription.* A cancellation while the job runs is overwritten by the listed
  row and charged all the same (`common/tasks/task.service.ts:235`); a purchase in
  between loses its time. `deductHon` exempts only status ACTIVE
  (`hon.service.ts:163`): who has cancelled pays fees for time already paid for. A
  period ends at the hour it was bought at, while the job looks at midnight only and
  `deductHon` at the status only: a subscription that is over exempts until the
  midnight after, which is what `NoFreeRide` allows.
- *Refund.* `proposeRefund`, `rejectRefund` and `answerInquiry` look at the type
  of an inquiry only, so a closed one can be proposed again. The proposal's amount
  is not the amount confirmed: the confirmation always uses the rule for HON, also
  for a plan. `deductHon` takes nothing from a subscriber, who keeps the HON a
  refund has paid for, and a later refund counts it again. `POST payments/:id/cancel`
  (`payment.controller.ts:90`) gives back the whole price and leaves the HON, which
  the refund of another payment then takes for its own: hence `Lost` in
  `PaidHonIsBacked`, and `NineTenthsAtMost` speaks of users without such a
  cancellation.
- *Draw.* Two weeks missed in a row leave a hole in the episodes; as
  `initializeAlgorithms` counts rows (`i + 1`), predictions are then made for the
  wrong episode and the analysis fails on the foreign key from then on. A draw
  published after the last attempt is a week late. The job skips its analysis when
  a manager's runs. A user who asks between the draw and the placeholder has paid
  HON for a prediction the foreign key refuses. The ball status (a memo of a minute
  and an entry of a week) is not cleared by a draw. Two first looks at shops store
  them twice, and so does a manager's fetch that overlaps the job's
  (`winning-number.controller.ts:136`): each looks before the other stores, and no index
  refuses the second. `latestEpisode`, which only has to be a number, is taken to be an
  episode the lottery has published. The status in memory is not reset when the lock's entry expires, only
  by the next `GET system/status` or job.
- *Account.* Overlapping failures count once; a success deletes the row another
  attempt updates, which throws. A refresh in flight stores a token after a
  withdrawal. A second withdrawal of an address that has a tombstone throws. A
  restored account has a random password until it is reset. Sign-up does not
  look at the mailed token.
- *Guard.* A `false` read before a block and written after it overrides the block
  for seven days; a temporary block cached as `true` outlives its end by as much.
  A visitor whose row has no address is bound to the first address that asks.
  The guard exempts `/manager/inquiries` while inquiries are posted to
  `/user/inquiries`, so a blocked visitor cannot file the inquiry about the block
  (`common/guards/ip-access.guard.ts:36`, `user.controller.ts:128`).
- *Community.* Two reports of a post at once are both stored, comment reports are
  never checked. A WINNING post without an identifier may be certified again and
  again. An edit writes back the image it has read (`board.controller.ts:388`),
  which another edit may have replaced. `deletePost` removes the file its post's image
  names (`board.controller.ts:447`) though another post or an avatar shows it too: hence
  `shared` in `ShownImageStays`. The clean-up of files nobody shows does nothing:
  `task.service.ts:377` climbs from `dist/common/tasks` to `/attachments`, uploads lie in
  `/app/attachments` (`board.controller.ts:520`, `main.ts:39`, `docker-compose.yml:42`),
  and line 386 returns, so files taken out by an edit, a manager's deletion or another
  avatar stay for ever. Opened at the right place it would take, after a day, the
  further attachments of posts, which it does not look up. Sign-up
  accepts banned nicknames. A stop between settling a report and stripping the name
  leaves the report BLOCKED and the name in use. Adding and removing one word at
  once can leave memory and table different until the next start.
- *Lottery.* Weights may be fractions: a position that weighs a tenth may be off by one
  and the reliability still be 100 (`prediction.entity.ts:71`), which `ScoreInRange`
  bounds from both sides. A number twice in a slip counts twice in the history
  (`get-personal-prediction-history.handler.ts:74`) and once among the wins
  (`lottery-analyzer.ts:106`). A ball never drawn counts as HOT in the first weeks.
  Differences are signed, so the complexity and runs of a slip out of order are not
  what they are for the same numbers in order. The number one counts as composite.

## Proofs

Everything is proved for arbitrary sets, bounds and amounts.

*Payment.* `IInv` strengthens the safety properties by what a running handler
knows: its version is at most one ahead of a log whose status is the one it
replayed (`HandlersOK`), only one handler can hold a grant (`OneGranter`), and one
that has not saved yet its `PaymentRequested` is the only one to know its payment
(`RequesterAlone`). Without these a handler could be imagined to save an event
that fits no history; with them the unique index does the rest. From it follow
type correctness, legal histories, at most one grant, backed books and
projections, the stability of a verdict, and that each step is a step of
`PaymentLifecycle` or a stutter. `DeliveryInv` adds, for handlers that do not die,
that the grant of an approval is done or with a handler on its way to it, unless
the payment is cancelled (`NoGrantLost`): an approval is asked for only after the
payment's row is there (`ShownFirst`), so that saving the row again is not refused
for its order id (`OneRowPerOrder`), and the one event that can take the version of
the grant is a cancellation. Hence `ApprovalsAreGranted`, once for an amount that
is a product's price and never for another; the assumption is needed, as the run
`payment_crash` shows. That a handler on its way to a grant has the amount the
recorded approval was confirmed with is what the refinement needs to know of `price`.

*HonLedger.* `IInv` says of a handler between `getHon` and `saveHon` that the
balance it read was covered by what had been credited then and sufficed for what
it takes. Since `credited` only grows and `saveHon` writes the balance read plus
what it credits or minus what it takes, no overlap can lead above `credited` or
below zero (`NoOverdraft`, `HonIsBacked`, `AmountsAreExact`). `BooksInv` adds, for
one operation at a time without failures, that what a handler has read is still so
and that the user of a handler between `saveHon` and `saveHonEvent` is the only
one whose balance the events do not explain: `LedgerBalances` and
`LastEventStatesBalance`. All of it assumes `AddsGive`, that no ADD setting is below
zero, since one overdraws a balance.

*Subscription.* `IInv` says that the job is ahead of its books by the one user it
works for (a capture not recorded, an approval not yet written as a renewal) and
that all copies handlers hold have one date; it needs no assumption on overlap or
failure: `NoUnpaidRenewal`, `DatesAgree`. `SerialInv` adds, for requests and the
job one at a time, that the list the job works through is still what the table
holds and that who has cancelled is not on it: `CancellationStopsCharges`,
`ChargesAtTheEnd`, `PaidTimeIsKept`. `UpToDate` and `Recorded` add what holds when
nothing fails: `NobodyRidesFree`, `CapturesOnRecord`.

*Access.* `IInv` holds under any overlap. A row that is there is live under its
address or withdrawn from it, whoever erases or revives one does so under that
address (`RowsOK`, `ErrandsOK`) or finds it deleted, so the two unique columns leave an address one
holder (`AddressesHaveOneHolder`). A count in the log, and one a login has read
however long ago, is at most the failures since the last lock ended (`LogsOK`,
`ReadsOK`), since `missed` only grows while logins are in flight: a lock has its
failures behind it (`LocksAreEarned`). `CalmInv` is about one request after the
other: the log then knows all failures in a row but the one being written, and
cached entries agree with the rows but for a block that ran out, so that what the
guard has read is still so when it judges (`VerdictsAreRight`).

*Community.* While one part is explored the others stay as they are at the start,
so `IInv` is one invariant per part. On the board, foreign keys and their cascade
keep every row about a row that is there, and the unique index lets a slip in once
however old the look before it is (`BoardRefs`); one request after the other, a
report on its way is the first of its pair (`CalmReports`): `SlipsCountOnce`. Of
files it says who has a claim to each, be it a row or a handler on its way: one
that a single request has named is for one post, for one in the making or for an
avatar, and an upload nobody has named is for none (`Claims`); it leaves the disk
only when a handler has it in hand for the post it is about to delete, and then no
other can show it (`MissingOK`), under any overlap: `ImagesStay`. Of words it says that the
memory is ahead of the table, or behind it, by the word of the handler in flight
(`WordsAgree`), so that a restart at any point makes them agree, and that a blocked
name is on its way to nobody: `NamesAreInOrder`.

*Refund.* `IInv`, under any overlap and failure, says that what a request has read
refers to rows that are there, that no amount owed or still to take is negative,
and that money has gone back before a cancellation is recorded: `CancelledPaidBack`.
`CalmInv`, for one request after the other, adds that what a confirmation has read
is still so, that the payments it has still to cancel are PAID with nothing gone
back, and that the HON it takes is there; so it cannot be refused halfway
(`ConfirmationsEnd`). `BackedInv` is about a user without a plan: the paid HON is
at most that of payments that stand or were cancelled directly, and what a
confirmation will leave at most that of the latter, `PaidHonBacked`. `PlainInv`
adds, while nothing was cancelled directly, that a refund takes all paid HON; then
the balance between the money given back, the worth of what stays paid and the HON
held (`Balanced`) survives each purchase, use and refund, as nine tenths of a price
are at most 50 won for each of its HON: `NineTenths`, for any number of refunds. The sums over payments
are `SumFunctionOnSet`, a recursion over sets. What they need (the sum of one more,
of a part, of nothing) is proved from the fact that among subsets of a finite set
there is a smallest, which the library's induction on strict subsets gives.

*Draw.* `IInv` holds in all settings and says of each what is true there. The flag
keeps analyses apart as long as no two stand between their look and its setting
(`OneAnalysis`); whoever works holds it and what he has found unpredicted is
unpredicted still (`Exclusive`), so nothing is stored twice though four may start
the same analysis. Of two fetches of shops that do not overlap
one has nothing to store, and what one has still to store is not there (`ShopsOnce`).
For `UpcomingHasRow` the invariant has to know the whole week: no
week is missed while nothing fails (`NoneMissed`), the rows have no holes, so that no
prediction is refused, and the job does not end before
it or a manager has stored the draw of the week (`JobDelivers`), as the draw is out
before the last attempt; the row of a draw's successor is then there, or a fetcher
is about to write it. A fetcher never marks a stored draw as coming
(`LastIsFetched` where things fail): without this the placeholder could overwrite a
draw, which is what `ComingIsNotDrawn` excludes. A cached view agrees with the
draws or an event on its way clears it (`CachesShow`). `StorePlaceholder` is bounded:
the handler of an event has ended before the same fetcher publishes the next, which
a manager's re-fetch takes a request for and the job a failed analysis, two minutes
and a new draw; without the bound the model would lose the older handler.

*Lottery.* `IInv` says that draws are of six different numbers and stand newest
first, each at least as many episodes older as it stands further down. The rest is
about the functions, for all slips, draws, weights and windows that
`LotteryAssumption` allows. A count over six places is a sum of six bits
(`CountIs`), and such sums are linear (`TotalLinear`): parts that exclude each other
add up to six, tens and last digits to the sum. Trial up to the square root finds
every divisor, as the smaller of two factors is one (`PrimeIs`), so `composite`
counts the ones and what has a divisor other than three. The differences of
ascending numbers are at most fifteen and at least the five from the first one
(`Complexity`). What `getConsecutiveNumbers` knows after so many pairs is the runs
that ended and the one still open (`After`); that holds from one pair to the next
(`NextRuns`), and the runs of all five pairs are the longest stretches without a
hole (`RunsAreStretches`): `Features`. A rank depends on how many numbers are
common, counted from either side (`CountCommon`): `Ranks`. Each share of a
reliability falls with the distance, by half at least from the first step on, which
rounding to tenths hides for no more than a tenth of weight (`Score`, `Rounding`):
`Scores`. The newest draw
known and the newest with the ball give the skip, which the places in the list
bound from below; of the numbers drawn with a ball, ordered by how often and how
early, three come first (`FirstThree`): `Status`. `LotteryAssumption` asks of `Unit`
that it divides out all shares of a prediction, so that a share is exact there as it
is, but for the last bits, in the floating point of the code.

Only model-checked: liveness (`DeliversWhatIsPaid`, `DueIsSettled`,
`DrawnIsAnalysed`, `SiteOpens`, `FreshInTheEnd`, `FreedInTheEnd`),
as fairness is beyond this prover.

## Not modelled

The OCR heuristics, mail, policy texts, DTOs and mappers (conversions and I/O
without a protocol); the queries behind statistics, best predictions and histories
but for what `Lottery` takes of them; notices, notification settings, daily-event
settings and post or comment visibility flags beyond those of `Board`, which are
updates of single rows; `post_attachment` beyond what `Attachments` says of it.

The socket gateway is a map from user to socket that pushes what is stored
elsewhere. A late disconnect of an old socket removes the entry of its successor
(`app.gateway.ts:63`): the push is lost, the notification is still in the table.
The prediction algorithms are an external package and stand as one choice.
