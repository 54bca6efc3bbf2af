# Ethiogram in TLA+

Specifications of the parts of Ethiogram where money, time and concurrency
meet: the ETG wallet of a business, recharging it through Chapa, trials,
purchases and escrow of marketplace agents, the status of a business's bot,
the customers' conversations and who pays for them, the choice of AI models,
appointments and reminders, notifications, the knowledge base, onboarding and
referrals, sessions, the public pages, custom domains, rate limits, and handing
a business over.  Every module is checked with TLC on a small instance.  The
safety and action properties the runs check, and both refinements, are also
proved with TLAPS for every value of the constants; liveness is checked with TLC
alone.

## The system

Ethiogram is a FastAPI application on PostgreSQL and Redis.  Businesses connect
Telegram bots; customers write to a bot, the webhook decides who pays, asks an
AI model, replies, and charges ETG.  Jobs run beside the API: escrow release
and trial monitor daily, reminders every 15 minutes, notifications and
embedding as polling workers.  The API runs in 1 to 20 instances, so any two
requests may overlap at any `await`, and a job may overlap its next run.

Three facts about the code decide what can go wrong, and every module takes
them from the source:

1. `app/db/session.py`: one session per request (or per item of a job),
   committed when the handler returns, rolled back when it raises.  The level
   is the database's default, READ COMMITTED.  `autoflush` and
   `expire_on_commit` are off.
2. Rows are read without locks (except `token_escrow`, notifications and
   documents), and the ORM writes *absolute values of the columns that
   differ from what was loaded*.  `Written` in `Wallet`, `EscrowRelease` and
   `BotGrace` is this rule.
3. Redis is changed at once and is not rolled back.

| component | state | operations | interacts with | what makes it correct |
|---|---|---|---|---|
| wallet, ledger (`webhooks._charge_etg`, `metering`, `agents.unlock_agent`, `businesses._charge_generation`) | `token_wallets`, `etg_transactions`, key `wallet:balance:*` | charge, credit, purchase, generation, read balance | every other component | never negative, no lost update, ledger agrees with the row, cache right but for known events |
| recharge (`billing`, `internal`, `chapa_service`) | `recharge_orders` | initiate, webhook, gateway credit | Chapa, wallet, bot status | credited once, only if paid, lost credits bounded |
| trials and unlocks (`agents`, `trial_monitor`) | `agent_trials`, `child_agents`, `agent_unlocks` | start, unlock, switch, monitor | escrow, bots | a trial ends, a paid agent stays, nothing ends early |
| escrow (`agents.unlock_agent`, `escrow_release`) | `token_escrow`, buyer's and creator's wallet | purchase, dispute, release | wallet | released once, after the window, never in dispute, right share, eventually |
| bot status (`webhooks`, `metering`, `bots`, `admin`) | `bots.status`, alert key, cached balance | gate, heal, alerts, reactivate, set by hand | wallet | stops without funds, recovers with them, stops by hand hold |
| booking (`booking_service`, `webhooks`, `dashboard`) | `bookings`, keys `book:*` | offer, tap, change status | conversations, calendar | no overlap, the right slots offered |
| reminders (`booking_reminders`) | marks on `bookings` | scan, send, commit | booking, bots | each once, in order |
| business transfer (`transfers`) | `business_transfers`, owner | initiate, cancel, accept, decline | businesses | one owner, one pending transfer |
| conversations (`webhooks`, `businesses`) | `conversations`, keys `tg:update:*` | deliver, precheck, answer, charge, credit | wallet, models, booking | an update answered once, the customer's account adds up |
| model router (`model_router`) | Redis: overrides, chain, disabled, health, failure counts | resolve, fail over, disable, enable | providers | a disabled model is not a message's first choice |
| notifications (`notification_worker`) | `notifications` | batch, send per channel | bots | delivered, not repeated, not starved |
| knowledge base (`knowledge`, `embedding_worker`, `rag_service`) | documents, chunks | upload, embed, delete | storage | whole documents, each one settled |
| onboarding, referrals (`bot_onboarding`, `referral_service`, `bots`) | bots, webhook at Telegram, wallet, key `ref:pending:*` | connect, refresh, disconnect, redeem | wallet, Telegram | secrets agree, each bonus once |
| public pages (`miniapp`, `landing`, `businesses`, `knowledge`, `admin_panel`) | layout, catalog, website, active bot, two copies in Redis | edit, suspend, delete, change the bot, build, fill | visitors | no stale copy, no lost edit |
| custom domains (`domains`) | `custom_domains` | connect, verify, disconnect | DNS | verified is proved, one domain |
| sessions (`auth`, `deps`) | `users`, `user_sessions` | register, log in, refresh, log out, suspend | all of the API | one live session per login |
| marketplace (`agents`, `admin`) | agents, deployments, reviews | publish, judge, try, buy, review | escrow, trials | the cap is kept |
| rate limits (`miniapp`, `businesses`) | counters in Redis | count, expire, admit | models | who is turned away may come back |

Hard behaviours: lost updates between overlapping requests; Redis ahead of the
database; callbacks repeated, early, or overlapping; jobs that work on what
they listed a while ago; exceptions swallowed *inside* a session's block, which
therefore commits what was done before them; killed jobs; integer and
floating-point edges (`.days`, `int(amount * 0.70)`, `max(0, ...)`); keys in
Redis whose expiry is a second call; pages stored again between the drop of a
copy and the commit; batches committed once at their end.

## The modules

| module | models | role |
|---|---|---|
| `WalletOperations` | the row, the ledger's entries, and what each operation computes from a row | definitions of the next two |
| `Wallet` | one business's wallet under any requests | core |
| `WalletContract` | the wallet as an account with atomic operations, until two requests meet | abstract, implemented by `Wallet` |
| `ChapaRecharge` | recharge orders, callbacks, credits | core |
| `AgentTrial` | trial, purchase, monitor of one agent at one business | core |
| `EscrowRelease` | purchases, disputes, workers with row locks | core |
| `EscrowContract` | what escrow promises, without workers and wallets | abstract, implemented by `EscrowRelease` |
| `BotGrace` | status of one bot, with balance, cached balance, alert key | core |
| `Booking` | offers, taps, the conflict check, free slots | core |
| `Reminders` | runs of the reminder job | core |
| `Transfer` | offering a business to another person, accepting, withdrawing | core |
| `Conversations` | one customer's conversation: updates, payer, allowance, charge, owner's credit | core |
| `ModelRouter` | the choice of models and failing over | core |
| `Notifications` | the table and its workers | core |
| `KnowledgeBase` | documents, chunks, indexers, deletion | core |
| `Onboarding` | bots, their webhooks, welcome and referral bonus | core |
| `Storefront` | edits, suspension, the store and the landing page with their copies | core |
| `Domains` | custom domains | core |
| `Accounts` | accounts and refresh sessions | core |
| `Marketplace` | publishing, deployment under the cap, reviews | core |
| `RateLimits` | counters with an expiry | core |
| `Workers` | `AgentTrial`, `Notifications`, `KnowledgeBase`, `RateLimits` side by side | composition |
| `Chats` | `Booking`, `Reminders`, `Conversations`, `ModelRouter` side by side | composition |
| `Services` | `Transfer`, `Accounts`, `Onboarding`, `Storefront`, `Domains`, `Marketplace` side by side | composition |
| `WalletProofs`, `ChapaProofs`, `EscrowProofs`, `BotGraceProofs` | theorems about one module each | proofs |
| `WorkersProofs` | theorems about the modules of `Workers` | proofs |
| `ChatsProofs` | theorems about the modules of `Chats` | proofs |
| `PeopleProofs` | theorems about `Transfer`, `Accounts`, `Onboarding` | proofs |
| `StoreProofs` | theorems about `Domains`, `Marketplace`, `Storefront`, and all of `Services` | proofs |
| `MCWallet`, `MCChapaRecharge`, `MCEscrowRelease`, `MCBotGrace` | small instances of one module each | checking |
| `MCWorkers`, `MCChats`, `MCServices` | small instances of the compositions | checking |

The compositions instantiate several modules, each with variables of its own,
and give their properties the names that runs and theorems use.  The modules
share no state in the code that their properties speak of, so a product of them
would only multiply states: in the last three modules the variable `focus`,
chosen in the initial state, says which of them moves, and the others stay as
they begin.  The theorems are about each module's own specification, and hold
in any interleaving with the others; `AllTyped` and `ServicesTyped` say so of
the types.  Where the code does share
state, it is in one module: the wallet and its cached copy in `Wallet`, the
bot's status with the balance in `BotGrace`, the wallet a referral adds with
the welcome bonus in `Onboarding`, catalog, layout and suspension in
`Storefront`; the refinement of `WalletContract` is stated in `Wallet`, that of
`EscrowContract` in `EscrowRelease`.

In every module a request is a small record (`req`, `handler`, `session`,
`msg`, `credit`, `purchase`, `monitor`, `run`): its program counter `st`, which
names the `await` it stands at, and what it has read from the database.  One
action is the code between two awaits at which another actor could tell the
difference; a guard is the code's condition, and the last action of a request
is its commit.  An exception, a failed commit and a crash are the same step
(`Rollback`, `Abandon`, `Crash`, `Fail`): the session's changes are lost and
those to Redis stay.

**Wallet.**  `Load` is the SELECT with the computation in Python, `CacheBalance`
the `setex` before the commit, `Commit` the UPDATE and the ledger rows,
`ReadBalance`/`FillCache` the two halves of `_get_balance`.  `After` and
`Entries` translate what each kind of operation computes: a reply paid by the
business, by both sides, or by the customer, `metering.credit` (an admin may
pass a negative amount), a purchase, a generation.  `BalanceCheck` is the
column constraint of migration 004.  `lifetime_spent` stands for the counters
that move with it; `metering.charge` has no caller and the shape of a reply
paid by the business.  The history variable `serial` is the row if every
committed operation had run alone, `overlap` says that two requests held the
row together, and `astray` that one of the four things happened that leave a wrong
balance in Redis until it expires: a rollback after `CacheBalance`, a purchase or
generation past a cached value, a request beside one that writes, and one begun
beside a slow reader.  `WalletContract` knows neither requests nor columns: `Apply` is a
whole operation on the row as it is, with its ledger rows, and may happen as
long as the operations have stayed `apart`; after `Meet` only `Race` is left,
which owes nothing and loses no ledger row.

**ChapaRecharge.**  `Deliver` is the webhook up to the verification's await,
`Verified` the answer and `credit`'s SELECT, `Complete` the commit.  `Pay` is
external: Chapa takes one payment per `tx_ref`.  A verification that fails is
answered with 200 (`Abandon`).  `InternalCredit` is the gateway's credit.
Amounts are in cents: `float(paid) + 0.01 < float(fiat)` becomes
`amount + 1 >= Price`.  `Unreadable` is an amount in Chapa's answer that `float`
refuses (null, a text) or that compares with nothing (`nan`): the error is passed
over and the order credited, of which `blind` keeps the record.  An answer
without an amount is not of this kind: it counts as 0 and is refused.  `met`
counts how often a handler read the wallet while another was about to write it.

**AgentTrial.**  Time is in ticks, `DayLen` to a day, and `DaysLeft` is
`timedelta.days`, which rounds down.  A run of the monitor is `ListTrials`
(with the snapshot it keeps), `LoadChild`, `HandleTrial`.  `HandleTrial` shows
a trap of the code: `_notify_business` touches `biz.owner`, which is not
loaded and cannot be loaded lazily in an async session; the error is caught
inside the session's block, so with an active bot the deactivation commits and
the flag does not, and the same trial is handled on every later run.  The unique
key on (agent, business) is the guard `~InsertsChild`.  The deployment cap only
refuses a trial and is left out.

**EscrowRelease.**  `Buy`/`CommitBuy` are the wallet's half of `unlock_agent`,
`List`, `Lock`, `Skip`, `Release`, `Finish` a run of the worker; `Lock` waits
for the row's lock and looks at the row as it is then.  `Dispute` is an
operator's UPDATE in the database, for which the API has no endpoint.
`CreatorShare` is `int(amount * 0.70)`: `ShortFloats` are the amounts whose
product falls below an integer (90 gives 62, where 63 would be exact).
`Payable` are the escrows for which unlock, agent, creator and a wallet of the
creator are found; the others are released without a payout, as in the code.

**BotGrace.**  A message loads the bot (`Receive`), passes `_bot_should_block`
(`Heal`, `StayInGrace`), the balance gate (`GateCached`, or `GateMissed` then
`GateFill`), is charged (`Charge`, `CacheCharge`), checks alerts on the balance
read back (`CheckAlerts`) and commits.  `Uncharged` are the exits without a
charge.  A credit is `LoadCredit`, `CacheCredit`, `CommitCredit`; `recharge`
tells a recharge, which reactivates bots in grace, from an admin's grant, which
does not.  A disconnected bot is not stopped by the handler: it answers when
its webhook could not be deleted.  The model is of a business that pays for
its replies.  A suspended business, an update without a message and one seen
before end before any of this and are left out.

**Booking.** `FreeSlots` is `compute_free_slots`, whose cursor walks through
the day: `Round` is the body of its loop, `Walk` what is found after each
round, as a recursive function, and the rounds after the loop's end add
nothing. `Present` puts tomorrow's slots under a fresh session key with an hour
to live; `Tap` reads the key, `Insert` is the conflict check and the flush,
`Tell` everything sent before the commit, with the key's deletion, `Commit` the
session's. `closed` stands for cancelled, completed and no-show, which the code
treats alike. Services differ by duration only.

**Reminders.**  `Scan` reads the rows and decides with `due_reminder` at one
`now`; `Send`/`SendFails` are the awaits in order of the appointments;
`CommitRun` writes the marks; `KillRun` loses them.

**Transfer.**  A request of the owner is `StartInitiate` or `StartCancel`
(`_owned`), `FindPending` (`_pending_for`) and its commit; one of the recipient
is `LoadIncoming`, for an accept `LoadBusiness` and `FindOthers`, and its commit.
The reads are steps of their own because nothing is locked: another request may
commit between the check of who is the owner and the look at what is pending.
A recipient is a person; the kinds of identity, and identities that move from
one person to another, are left out, and a business is not deleted
(`Storefront` has the deletion).  An expired transfer stays pending in the
database, as the error that reports it rolls `status = "expired"` back.

**Conversations.**  `Deliver` marks the update in Redis and reads the row,
`Create` is the INSERT of a first message, `Precheck` the month's reset with
`DecidePayer`, `Spare` and `Answer` the exits of the handler without and with a
charge, `Store` the commit, `StartCredit` the owner's credit.  `ReplyCost` is the
price of a reply, rounded up twice and at least one.  The histories `tally` and
`paid` say what the row should hold, `crossed` that two requests held it
together.  The business's wallet is in `Wallet`, the gates before billing in
`BotGrace`.

**ModelRouter.**  Every Redis call that another request can come between is a
step: `CountFailure` and `Degrade`, `ForgetFailures` and `Heal`, the two writes of
an administrator (`DisableModel`, `FinishSwitch`).  `Choose` looks at one
candidate after the other, as `resolve` awaits each; `Chain` is
`_build_failover_chain`, and `Places` are the first places of its models, as a
model is tried once.

**Notifications.**  `Lock` is the SELECT with SKIP LOCKED, `Dispatch` one row of
the batch, `Commit` the end.  The dashboard channel needs no send.
`ChangeReach` stands for everything that decides whether a reader's bot can be
used.

**KnowledgeBase.**  `Process` handles one document of a batch.  A text the
database will not store aborts the transaction; the error is caught like any
other, all further statements fail as well, and so does the commit (`Abort`).
`Windows` is `chunk_text`, as intervals of words.

**Onboarding.**  The steps of `onboard_bot` in order: `Check`, `Insert`,
`SetHook`, `Fund`, `ReadPending`, `Redeem` (or one of its failures, which the
code catches), `CommitBot`.  `ReadPending` finds no referral also where Redis
does not answer, which the code takes for the same; the referral then stays.  `hook` says whose secret Telegram uses for a bot;
a secret whose request failed is held nowhere (`"lost"`).  The INSERTs under a
unique key wait for the other transaction and fail if it commits.

**Storefront.**  `Drop` is `bust_storefront_cache`, which every change calls last,
and `CommitEdit`/`CommitSwitch` the commit after it; `Build` and `Fill` are a
visitor's read of the rows and the `set` of the copy.  The pages also show the
username of the oldest active bot.  `ChangeBot` is every change of which bot that
is: connecting, pausing, resuming and disconnecting (`bot_onboarding.py:79`, `217`,
`bots.py:118`), an administrator's suspension (`admin.py:210`, `232`), grace and back
(`webhooks.py:423`, `469`, `1407`, `metering.py:351`).  None of them drops the copies, so
`slipped` is kept apart for the business's rows and for the bot.  A third copy,
under a custom host (`landing:host:*`), is dropped with the other two, shows the same
page and is left out.  An edit of the layout
writes the whole column (`Merged`).  A change is a number, so that what is
shown can be compared with what was saved last.

**Domains.**  `StartVerify`, `LookUp` and `CommitVerify` have the DNS lookup
between them; `CommitRepoint` writes over the same row.  A verification writes
`verified` only if it differs from what was read.

**Accounts.**  A login begins a chain of sessions, of which `refresh_token`
revokes one and adds the next; `login` names the chain.  `MiniAppLogin` makes the
platform's owners administrators, who suspend accounts.

**Marketplace.**  `Room` counts the deployed agents before the new one is
inserted; `unlock_agent` knows no cap, so it may fill the places or go past them,
and `ByTrial` counts what came by trial.  `PurchaseFound` is what
`scalar_one_or_none` finds: an agent bought twice can no longer be reviewed,
as the call raises (`app/api/agents.py:524-532`).

**RateLimits.**  `Increase` and `SetExpiry` are two calls.  One key follows
another in a request (`Paths`); counts are kept up to one past the limit.

## What the runs check

| run | instance | distinct states | properties |
|---|---|---|---|
| `wallet` | 2 requests, 3 operations | 57,016 | `NeverNegative`, `CacheTellsBalance`, `ImplementsContract`, `LedgerTellsBalance` |
| `chapa` | 2 orders, 3 handlers, 2 gateway credits, 3 meetings, payments exact, a cent less, too little, unreadable | 642,333 | `CreditedOnlyIfPaid`, `CreditedOnceUnlessOverlap`, `LossBounded` |
| `chapa_once` | the same | violated | `CreditedOnce` |
| `workers` | trial: days of 2 ticks, 3 days, 8 ticks, 2 purchases; notifications: 3 rows, batches of 2, 2 workers; knowledge: 2 documents of 3 chunks, 2 indexers; limits of 1 and 2, 2 requests | 97,401 | `TrialOnlyAdvances`, `PaidAgentKept`, `OverdueIsEnded`, `ToldOnceUnlessLost`, `ReachableIsTold`, `IndexedWhole`, `SettledUnlessBlocked`, `LimitsEnd` |
| `trial_unlock` | the same | violated | `UnlockReactivates` |
| `escrow` | 3 prices, funds for 2 at a time, 2 workers, 1 purchase request | 4,502 | `TokensAddUp`, `ReleasedAfterWindow`, `ImplementsContract`, `DueIsReleased` |
| `bot_grace` | 1 message and 1 credit at a time, balance to 3 | 23,272 | `StopsHold`, `BrokeBotStops`, `FundedBotRecovers` |
| `chats` | booking: 2 rows, 2 offers, 2 taps, days of 4 hours; reminders: 2 bookings, 2 runs; conversation: 2 handlers, 1 credit, 2 months, 2 sets of terms; models: 2 models, threshold 2 | 1,271,656 | `ClashOnlyIfUnsure`, `SlotsAreFirstFree`, `RemindedInOrder`, `AnsweredOnce`, `CustomersAccount`, `DisabledIsNeverFirst` |
| `double_booking` | the same | violated | `NoDoubleBooking` |
| `services` | transfer: 3 people, 2 transfers; accounts: 2 people, 3 tokens; onboarding: 2 owners, 2 bots; store: 2 keys, 2 edits or changes of the bot, 1 visitor; domains: 2 businesses, 2 hosts, 2 tokens; marketplace: 3 agents, cap 1; 2 requests each | 1,909,774 | `OnePending`, `BothConsent`, `OneSessionPerLogin`, `SecretsAgree`, `ReferralOnce`, `NoEditLost`, `FreshUnlessSlipped`, `VerifiedIsProved`, `CapKept` |
| `first_bot` | the same | violated | `WelcomedAtFirstBot` |
| `suspension` | the same | violated | `DarkAtOnce` |

`workers`, `chats` and `services` also check the types of their modules
(`TypesOK`); those of `Wallet`, `ChapaRecharge`, `EscrowRelease` and `BotGrace`
are proved only.

What they show, in short:

* *Money.*  Balance and escrow never go below zero, whatever interleaves; but
  only the column constraint sees to it, and a request it rejects has put its
  balance into Redis already.  As long as no two requests overlap the wallet is
  an account with atomic operations (`ImplementsContract`); updates are lost only
  when they do.
  The ledger's last `balance_after` is the row's balance after every commit
  that changes the balance.  The cached balance is the row's, or the one about
  to be committed, but for four things the run names, and `bot_grace` shows
  that the wrong ones do no lasting harm.
* *Recharge.*  No ETG without a confirmed payment, and none without its price but
  where Chapa's answer does not say the amount in a readable form: such an
  order is credited unchecked (`billing.py:370`; `CHAPA_INTEGRATION_REVIEW.md:265`
  describes it).  Credits that overlap overwrite one another, whatever orders
  they are of, and each meeting costs a package at most (`LossBounded`): the
  orders are completed and the ledger has their rows, the balance lacks them.
  One order is credited twice when two deliveries overlap (**`chapa_once`**): the status is
  checked before the await of the verification and not after it.
* *Trials.*  Purchases and the monitor never undo each other's columns, a paid
  agent is switched off only by a monitor that had it listed before the
  purchase (or by a trial begun after one), and never before the last day - but
  up to a day early, as `.days` rounds down.  A purchase does not bring back
  an agent the monitor has switched off (**`trial_unlock`**), although the
  message to the owner says so.
* *Escrow.*  With any number of workers, crashes and disputes, an escrow is
  released at most once, after its window, never in dispute, and everything due
  is released in the end.  The wallets are not locked: that the buyer has paid
  for what he bought, that what is held is in his escrowed part, and that the
  creator got what the ledger says (`TokensAddUp`) holds unless two sessions held
  the rows together.
* *Bots.*  A bot stops when the wallet is empty and comes back when it is
  funded, in spite of stale keys and rollbacks.  A pause or a suspension holds
  unless a request that itself changes the status was running when it was set.
* *Appointments.*  Overlapping appointments need two requests in the window
  between check and commit, or an owner's unchecked re-confirmation; the first
  is **`double_booking`**.  What is offered is always the first free slots of
  the day.
* *Reminders.*  Once each, day before hour, unless runs overlap or are killed
  before their commit.
* *Conversations.*  Within the hour the mark lasts an update is answered at
  most once, whatever fails.  Without overlap a customer never owes, and the
  allowance used is what the business paid, also across the month's end and a
  change of terms under way; a credit and a reply that overlap lose one
  another's amount.
* *Models.*  A message that comes after a model was disabled does not try it
  first, whatever older messages still write to its health: the disabled key
  decides.  It may still be tried later in the chain, which is not filtered.
* *Notifications.*  Sent again only by the death of a worker between sending
  and commit.  Those who can be reached are reached as long as rows that cannot
  be delivered are fewer than a batch.
* *Knowledge.*  A completed document is indexed from its first word to its last
  and a deleted one not at all.  One document the database will not store
  keeps its whole batch pending.
* *Onboarding.*  Telegram and the row agree on a bot's secret unless requests for
  the bot overlap or fail.  A referral is paid once per tap, to either side.
  The welcome bonus is lost to an owner whose wallet the credit of a referral
  has created (**`first_bot`**).
* *Public pages.*  No edit is lost unless edits of the layout overlap.  What a copy
  shows of the business's rows is what is committed, unless a visitor came
  between drop and commit (**`suspension`**: a suspended page is served for up to
  five minutes) or stored late what was read early.  The bot it shows is another
  matter: no change of the active bot drops the copies, so that for up to five
  minutes they send customers to a bot that is paused or disconnected, without
  any overlap; only until such a change is the bot right.
* *Domains, sessions, marketplace.*  A verified domain's record was found, a
  login has one live session and none after the logout, and trials keep to the
  cap, unless two requests for the same row overlap.  However deployments
  overlap, the cap is exceeded by fewer trials than there are requests at a time.
* *Rate limits.*  A window ends, unless the request that began it failed between
  its two calls; then the key stays for ever and, once full, turns everyone away.
* *Transfers.*  Accepts, declines and withdrawals may overlap and fail: one
  transfer at a time, always the owner's, and nobody loses a business he has not
  offered.  Only a new transfer that overlaps another one or an accept escapes
  this: two stay pending, and a former owner's may be accepted later.

### Bounds

Two actors of each kind are the least that can race, and all properties
speak of pairs (an update and the one it overwrites, two deliveries, two taps,
two workers); three handlers in `chapa` let a third credit overwrite two that
have met, and three agents in `services` let two overlapping trials pass the
cap by one.  The proofs, where there are some, hold for any number.
`MaxOps`, `MaxInternal`, `MaxMet`, `MaxUnlocks`, `MaxTime`, `MaxSent`, `MaxBalance`,
`MaxCredits`, `MaxMonth`, `MaxNotes`, `MaxCrashes`, `MaxDocs`, `MaxAborts`,
`MaxIssued`, `MaxExpired`, `MaxTaps`, `MaxEdits`, `MaxTokens` and `MaxPurchases`
bound counters only and appear in the guards of the actions that count; `MaxEdits` counts the changes
of the bot with the edits.  Amounts are
chosen for the edges: a cost above the balance (floor at zero), a deduction
larger than the balance (constraint), a cost equal to the markup (a balance
unchanged), a free reply, a price one cent short, a price with a fractional
share and one the float misses.  Trials pass through all stages with a run both
on and within a day's boundary.  In `bot_grace` one message at a time is enough
for the gates and alerts: the credit and the changes by hand interleave with it,
and rollbacks leave in Redis what another message would leave there.  In
`escrow` purchases may overlap the workers, who may overlap each other.  In `chats`
a day has room for three short or one long slot and two are offered, so that
overlaps of different durations, the limit and the walk past a conflict occur.

A conversation passes a month's end, both policies under which the customer
may pay, and a free model.  Three notifications are more than a batch, a
document's last chunk is shorter than the others, and three tokens are enough
for a login, a rotation and a rotation of the same token by another request.
Symmetry is used in `chats` and `services`, which check no liveness, over
requests, handlers and rows that no definition tells apart.

Deadlock is not checked: everyone may be done within the bounds.

### Fairness

* `AgentTrial`, `EscrowRelease`: the scheduler starts the jobs again and again
  (weak fairness of `ListTrials`, `List`, `Finish`, `Skip`); a run may be killed
  any number of times, though not always at the same step (strong fairness of
  `LoadChild`, `HandleTrial`, `Lock`, `Release`).  The jobs work on the oldest
  first and catch exceptions per item, so an item is not starved by others.
  Nothing is assumed of customers, owners, or operators.
* `BotGrace`: customers keep writing (weak fairness of `Receive`) and requests
  do not fail at the same step for ever (strong fairness of each step; steps
  are disabled by rollbacks between).  This is an assumption about the
  environment: a bot nobody writes to keeps its status, which harms nobody.
  `CreditsCommit` is stated in the properties, not assumed of the system: a
  credit that is aborted for ever after having set the cached balance would
  keep an empty wallet's bot active.

* `Notifications`, `KnowledgeBase`: the workers poll in a loop and are restarted,
  so each of their steps is taken if it stays possible (weak fairness); they
  are killed a bounded number of times, as what is killed for ever does
  nothing.  `ReachableIsTold` supposes that readers' reachability settles.
* `RateLimits`: a request that has counted makes its second call or fails, and
  Redis expires keys (weak fairness of `SetExpiry`, `Expire`).

The other modules have no liveness property: whether Chapa delivers again, a
customer taps, Telegram accepts a message or an owner asks for a verification
is not up to this code.

## What is proved

`tlapm` checks every theorem below.  What it assumes of the constants gives them
their kinds and no more.  `WalletOperations`, `ChapaRecharge`, `AgentTrial`,
`EscrowRelease`, `BotGrace`, `Booking` and `Transfer` have a named `ASSUME`.  The
modules that are instantiated in a composition define `SoundConstants` instead,
which is a hypothesis of their theorems and an `ASSUME` of the checking module,
so that TLC evaluates both.  They say: amounts, prices, lengths and bounds are
numbers; a chunk is longer than its overlap (500 words and 50 in
`rag_service`); limits and thresholds are at least one; the models a chain names
are models; values that stand for "nothing" are none of the others.  `Accounts`
assumes nothing, `Domains` that `MaxTokens` is a number.

An invariant is seldom inductive as it stands.  For each module the proofs say
what has to be added, which is what the code relies on:

* `WalletProofs`.  `TypeCorrect`; `BalanceNeverNegative`;
  `NoLostUpdateWithoutOverlap`, that without overlap the row is the serial
  result.  The invariant adds that, without overlap, at most one request works
  on the row and what it has read *is* the row, so that writing the changed
  columns gives `After` of the row.  Non-negativity needs that the escrowed part
  read is never negative, and for the balance the constraint at `Commit`.
  `LedgerTells` follows from the same invariant: the last entry an operation
  writes carries the balance it computed from what it read.  `Implements` is the
  refinement of `WalletContract`: a commit is `Apply` of its operation, the load
  that first meets another request is `Meet`, and everything after that `Race`.
  It needs, besides, that a request at work has found its operation covered by
  the row it read (`Admitted`), which without overlap is the row it writes to.
  `CacheIsTold`: as long as nothing led the cache astray, one request at most is
  open, it and a reader under way have read the row as it is, and what it has
  put into Redis is what it will commit (`CacheInv`).
* `ChapaProofs`.  `TypeCorrect`, `NoCreditWithoutPayment` (a handler that has
  verified keeps the fact that its order is paid, enough or of unreadable amount,
  since payments never shrink), `NoDoubleCreditWithoutOverlap` (an order that
  is in progress once is pending as long as it has no credit), `LossIsBounded`
  and `CreditedOnceWhenAlone`.  The loss still to come counts: of the handlers that
  hold a balance each may write one too low, by what was committed since it read
  it; the invariant charges that to the meetings counted so far.
* `EscrowProofs`.  `TypeCorrect`, `WindowRespected` (what a worker has queued
  or locked has matured), `ShareRespected`, and `Implements`: every step of
  `EscrowRelease` is a step of `EscrowContract` or leaves its variables alone.
  This needs `Exclusive`: a locked escrow is held, not in dispute, and locked
  by one session only; one being bought does not exist yet.  `TokensConserved`
  needs `Alone`: as long as no two sessions met, the one at work has read the
  wallets as they are, and the buyer's escrowed part is the number of tokens
  held, so that the floor at zero is never reached.  Then what it writes is what
  it computed, for both wallets, also where buyer and creator are one
  (`Accounted`), and by `Exclusive` an escrow about to be paid has no payout yet.
  A sum over a set is counted
  here, token by token (`Tokens`), since sums are defined by recursion and
  cardinalities have their theorems in the library.
* `BotGraceProofs`.  `TypeCorrect`; `StopsAreKept`.  A request on its way may
  still write the status it has come to; `Quiet` says why none does: a stop is
  marked as raced, or nobody who might change the status was at work when it
  was set, and nobody has begun since.
* `WorkersProofs`, trials.  `TypeCorrect` (with it: the agent a purchase deploys
  is not there yet, which is what the unique key guarantees); `TrialAdvances`;
  `PaidKept`, whose invariant says that outside a race a trial of a bought agent
  is converted, so that the monitor cannot have listed it; `LastDay`, whose
  invariant keeps for a monitor about to deactivate that the last day has begun.
* `WorkersProofs`, notifications.  `NotificationsTyped`; `ToldOnce`.  Workers
  hold no row in common, and nothing they hold is finished (`HeldInv`: the row
  locks); a row was sent as often as it was lost, and once more if that is
  recorded or held by a worker that will record it (`ToldInv`).
* `WorkersProofs`, knowledge.  `KnowledgeTyped`; `IndexedFromFirstToLast`.  A
  pending document has one worker at most (`HoldInv`), a completed one has the
  windows of its text (`ChunkInv`), and the lemma `WindowsWhole` says what
  `chunk_text` does for every text: its windows, each beginning a stride after
  the one before, cover the text from the first word to the last and nothing
  beyond.
* `WorkersProofs`, limits.  `LimitsTyped`; `WindowsHaveAnEnd`: a counter that
  counts has its expiry, or the request that counted it first is about to set
  it, or that request has failed.  It is the safety half of `LimitsEnd`: the
  only way to be turned away for good is a failure between INCR and EXPIRE.
  `AllTyped` puts the four side by side.
* `PeopleProofs`, transfers.  `TypeCorrect`, `OneTransferAtATime`, `Consent`.
  The invariant says, as long as nothing crossed: a request that creates a
  transfer is alone with that, its user is still the owner, and it has found
  all that is pending; all accepts in progress are of one transfer, nothing else
  is pending, and its sender is the owner until the first of them commits.
  `ConsentWhenAlone` is the same without the exception.
* `PeopleProofs`, accounts.  `AccountsTyped`; `OneSession`.  Of a login that was
  not raced for one session is live at most, a request that uses it has read it
  as it is, and no other request does (`LiveInv`).
* `PeopleProofs`, onboarding.  `OnboardingTyped`; `SecretsHold`: one request
  inserts a bot, which has no row yet, and Telegram signs with that request's
  secret until the commit makes it the row's (`ConnectInv`); a connected bot has
  one request at work at most, and the row's secret is Telegram's if it has none
  (`AgreeInv`).  `ReferralPaidOnce`: of an owner whose connections never
  overlapped, what was paid, will be paid or waits was tapped (`PaidInv`), and
  the referrer is paid only together with the referred (`PairedInv`).
* `StoreProofs`, domains.  `DomainsTyped`, `VerificationIsProved` and `OneDomain`.
  Ids are drawn once (`FreshIds`); a verification that no connection overlapped
  still looks at the row it has read, and a connection that no verification
  overlapped still writes over an unverified one (`UntouchedInv`); what was
  found is proved (`FoundInv`).  Of two connections of a business that do not
  overlap the second finds the first's row (`SingleInv`).
* `StoreProofs`, marketplace.  `MarketTyped`; `Capped`.  Where no two deployments
  overlapped there is one at most, and one that will add an agent by trial has
  found room which nothing has taken since (`CapInv`).  However they overlap, a
  trial that begins has found room, and those that try beside it are the other
  requests, so that deployed and open trials together stay below the sum of cap
  and requests (`PastInv`).
* `StoreProofs`, public pages.  `StorefrontTyped`; `LayoutKept`: as long as no
  edits of the layout overlapped there is one at most, and the layout it has
  read is the one that is there (`LayoutInv`).  `CopiesFresh`: between a drop and
  its commit every copy has slipped in, and what a visitor has built since the
  last commit is what the rows say (`FreshInv`), and the same of the bot since its
  last change.  `ServicesTyped` puts the six
  services side by side.
* `ChatsProofs`, booking.  `ClashNeedsAnOverlap`.  A request holds the row it has
  inserted and no other does; at most one open insert was sure of its check, and
  a sure one overlaps no sure confirmed row; sure confirmed rows do not overlap.
  `SlotsFirstFree` and `BookingTyped` are about the loop of `compute_free_slots`:
  after round k it has found the free slots of the grid that start before its
  cursor, or has as many as it may return and passed none over (`Found`).  That
  the recursive function which records the rounds exists at all is proved first,
  for want of an induction theorem by a least round without one (`WalkExists`);
  the loop invariant follows in the same way (`FoundHolds`).  `ChatsTyped` puts
  the four modules side by side.
* `ChatsProofs`, reminders.  `RemindersTyped`; `Reminded`.  As long as runs neither
  overlapped nor were killed, what was sent is marked in the row or in the run
  that will write the mark (`MarkedInv`); an appointment whose last hour has
  been announced stays in its last hour (`LastHourInv`), so that the day's
  reminder is not due after it.
* `ChatsProofs`, models.  `RouterTyped`; `DisabledNeverFirst`.  What is barred for a
  message that still chooses is disabled (`RouterInv`); the lemma `FirstOfChain`
  says that the first of any chain is the primary model or an available one,
  and a model is available only if it is not disabled or is the emergency model.
* `ChatsProofs`, conversations.  `ConversationTyped`; `OneAnswer`, from an
  invariant that an update which is not forgotten is marked as soon as a request
  has it, is held by at most one request, and has no answer as long as that one
  may still give it (`OnceInv`); `AccountAgrees`, whose invariant says that
  without overlap the one open request has read the row as it is, will write a
  row that adds up, and charges a customer no more than the balance
  (`AccountInv`).

Four theorems are about requests that are served one at a time.  Where a
document, a comment or a test promises something that the violated runs or the
exceptions above deny, they show that overlap is all that breaks it:
`AccountWhenAlone` (the wallet is the account of `WalletContract` and never less),
`CreditedOnceWhenAlone` (the idempotence of the Chapa callback, which
`chapa_once` refutes for two handlers), `NoDoubleBookingWhenAlone` (with an owner
who sets nothing back to confirmed; `double_booking` has two handlers) and
`ConsentWhenAlone` (the two-step transfer).  Failures, rollbacks, repeated
callbacks, stale offers and expiry are all still in them.

Model-checked only: the liveness properties (`OverdueIsEnded`, `BrokeBotStops`,
 `FundedBotRecovers`, `DueIsReleased`, `ReachableIsTold`,
`SettledUnlessBlocked`, `LimitsEnd`).  They rest on fairness, and `ENABLED` is out
of the prover's reach.  Every other property of a passing run is stated by a
theorem.

Proved and not in a run: `SerialUnlessOverlap`, `NotBeforeLastDay`, `PlatformKeepsShare`, `OneDomainEach`, `WindowEnds`, the four
theorems about one request at a time, and the types of `Wallet`, `ChapaRecharge`,
`EscrowRelease` and `BotGrace`.

## Not modelled, and the plan

What is left to do, most important first:

1. the safety halves of the other liveness properties, as `WindowEnds` is that of
   `LimitsEnd`: what keeps a due escrow, an overdue trial or a document within
   some worker's reach;
2. the parts of modelled components named below.

Left out of components that are modelled in part:

* recharging: providers without a callback, packages, the rounding of the
  checkout amount;
* conversations: voice notes and pictures (calls to providers), group data,
  the texts of messages;
* booking: the dialogue before the slots, time zones, the mirror in a calendar;
* knowledge: retrieval by vector distance, which the database computes;
* marketplace: configuration and secrets of an agent, reports, listings;
* public pages: themes, generated copy, HTML, sitemaps;
* sessions: token formats, hashing, profile edits.

Not modelled: prompts, intent classification and language detection (functions
of a text, no shared state); calls to AI, storage and transcription providers
(their failures are choices of their callers); listings, statistics, the
gallery and account pages of dashboard and administration (single-row updates
and reads; what an administrator changes that others race with is in
`Wallet`, `BotGrace`, `Accounts`, `ModelRouter` and `Storefront`); menus, which keep
no state of their own.
