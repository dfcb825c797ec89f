# A verification of naulon in TLA+

naulon puts a toll in front of a web site: machines that read or cite an
article pay for it, and the price is split between the wallets of the people
the article credits. This directory holds TLA+ models of the parts of that
system in which money, single use or delivery depends on the order of things,
the TLC configurations that check them on small instances, and theorems about
them that TLAPS checks for every value of the constants.

`PROJECT.json` is the index: for each definition the lines of the source it
models, for each run its properties, for each property a mutated definition that
breaks it, and the hazards of the code with the properties that cover them.

## 1. The system

A TypeScript monorepo (`packages/`, about 42,000 lines without tests), a PHP
plugin, a Python port of the enforcement client and the SQL of the hosted
stores.

| Part | State it keeps | What it does |
|---|---|---|
| `enforce` | caches of configuration, quotes, keys, ranges; nonces; a queue of observations | decides about a request: human, free, allowed, blocked, 402; renders the 402 |
| `tollgate` | pending-leg sink, event ledger, webhook outbox, state store (codes, credentials, keys), publisher cache, rate buckets | the gate: proxy of a site, verifies and settles payments, serves; drain of deferred legs; token endpoint; hosted enforce API |
| `shared` | the stores themselves (memory, JSONL, Supabase) | attribution, webhooks, connect grants, licences, price rules, configuration |
| `attribution` | receipts | cuts each event for the ledger, pays out by wallet |
| `wayfarer`, `wayfarer-mcp` | budget, paid reads per host, held licences, memo of reads | the buying agent and its MCP server: quotes, decides, pays, concludes what became of its money |
| `dashboard` | accounts, sessions, sign-in throttle | the operator's console over the gate's stores |
| `sdk`, `extract` | none that lasts | publisher side: credits routes, RSL, crawling, checks, Merkle trees of text |
| `python`, `plugins/naulon` | as `enforce` | the enforcement client for other hosts |

How they interact, in the order of one paid read:

1. A request without payment is answered 402 with the legs the price splits into
   (`attribution.ts`, `build402.ts`): one leg for the wallet with the largest
   stake, one for each other wallet, and the operator's.
2. The buyer signs an authorization per leg (a stock x402 client signs the
   author's only) and repeats the request.
3. The gate fetches the page from the origin **before** it settles, has the
   facilitator verify all legs and settle the author's, puts the others in the
   pending-leg sink, mints a licence, keeps the event, serves the page
   (`app.ts`, `settle.ts`, `x402.ts`).
4. Drain passes, on any box, started from outside, settle the pending legs
   (`x402.ts`, `pendingLegs.ts`).
5. The event becomes webhook deliveries in an outbox that a timer sweeps
   (`dispatch.ts`), kept in a JSONL journal (`jsonl-store.ts`) or a database.
6. The attribution service cuts the event again for the ledger (`batch.ts`).

Apart from that, a site is connected once: the console saves an authorization
code, the gate's token endpoint exchanges it for a credential (`grants.ts`,
`connect/routes.ts`). And a site may run the toll inside its own app instead of
behind the gate: the middleware of `enforce` decides there who is asking and what
is due, verifies a crawler's signature against its operator's key directory, and
relays a presented payment to the gate's `POST /_naulon/verify`, which settles
it as in step 3 but serves nothing.

What is hard in it: every store call is an await, so handlers interleave at each
of them; drains, sweeps and consoles run in several processes over one store;
leases lapse while their holder still works; an answer of the facilitator may be
lost after the money moved, and a request may land after its caller gave up; the
same signed payment may be presented any number of times, at once or later;
processes die between any two steps; compaction and cleaning race with the work
they clean up after; amounts are floored floating-point shares; a buyer's tool
calls run at once over one budget and one licence store, against gates that may
quote something else each time; a console request resolves its session in one
step and acts on it in others; the site gives up on a gate that may still settle.

What makes each part correct:

| Component | Correct if |
|---|---|
| deferred settlement | books say settled only of money that moved; a leg is counted once; live claims exclude each other; a failed attempt keeps its lease |
| paid read | `unpaid` is final; money implies content; one payment buys one read; a settled read is not refused; a sale is whole or not at all |
| webhook outbox | one sender per delivery; the retry budget is kept; every delivery comes to rest |
| webhook journal | unsent work survives compaction and restarts, if no append overlaps a compaction; two sweeps of a process never send one delivery at once |
| connect grants | a code buys one credential; a replay takes it back; revoked stays revoked |
| price split | legs make the price; nobody is off by more than a unit; ledger and legs agree |
| buying agent and its MCP server | spends at most its budget over all tools; pays for no more reads of a host than its cap and those it lost; never signs above a quote of the slug; presents what it holds before it pays; drops no licence; every call returns |
| console | a session is of a live account and its present password; an administrator stays; what ended never returns |
| enforcement decision, middleware and verify | machines pay, people read free, what is refused is not sold; whoever paid is not turned away; every read is answered, unless what no timer covers is withheld |
| bot signatures | a removed key, a new key and an outage are believed for a bounded time; every request is told |
| nonce store, limiter, throttle *(planned)* | single use until expiry; budgets hold under eviction and concurrent guesses |
| cached documents of the gate | what the gate takes a host for never goes back; an outdated record is the doing of a recent failure |

`PROJECT.json` lists all components, with the reason for each that is not
modelled.

## 2. The modules

Each module models one component; an action is one handler step between two awaits,
with everything the code changes there. A store call is one action where the store
makes it atomic (a conditional UPDATE, `createIfAbsent`, one synchronous stretch of
a single-threaded process). The JSONL store does not: each of its calls reads a
file, appends to it and may rewrite it, with awaits between, which is what
`WebhookJournal` is about. `WebhookDelivery` is the outbox over a store whose calls
are atomic, as those of the in-memory and the database store are. An action that a
mutant replaces stands just after its mutated form, whose comment begins with
*Mutant*; no specification uses a mutated form.

| Module | Models | Runs / proofs |
|---|---|---|
| `LegLedger` | what the deferred settlement promises: authorize, move, book | refined by `DeferredLegs` |
| `DeferredLegs` | `pendingLegs.ts`, drain part of `x402.ts`, the facilitator as it is used | `MCDeferredLegs`, `LegsProofs` |
| `TollRead` | `settleAndServe`, `settle.ts`, `verifyAndSettle`, buyer's `paidFetch.ts` | `MCTollRead`, `PaymentProofs` |
| `WebhookDelivery` | `dispatch.ts`, the store interface, the timer | `MCWebhookDelivery`, `WebhookDeliveryProofs` |
| `WebhookJournal` | `jsonl-store.ts` | `MCWebhookJournal`, `WebhookJournalProofs` |
| `ConnectGrants` | `grants.ts`, `connect/routes.ts` | `MCConnectGrants`, `ConnectGrantsProofs` |
| `PriceSplit` | the money of `attribution.ts`, `expandCuts` of `batch.ts`, legs of `build402.ts` | `MCAuthorSplit`, `LegsProofs` |
| `AuthorSplit` | `resolvePayees` of `attribution.ts`: the payees of an article; extends `PriceSplit` | `MCAuthorSplit` |
| `BuyerSession` | `wayfarer-mcp/server.ts` (spend lock, pay_and_read, research, discover), `agent.ts`, `decide.ts`, the payment of `paidFetch.ts` | `MCBuyerSession`, `PaymentProofs` |
| `ConsoleAccounts` | `console-auth.ts`, `console-session.ts`, `console-users.ts`, `console-store.ts` | `MCConsoleAccounts`, `ConsoleAccountsProofs` |
| `InAppRead` | `agentDetect.ts`, `identity.ts`, `terms-enforcement.ts`, `decide.ts`, `middleware.ts` and the lookups of `config-source.ts`, `jwks-cache.ts`, `quote-source.ts` in `enforce`; `enforce-api/verify.ts` | `MCInAppRead`, `EnforceProofs` |
| `BotSignatures` | `botAuth.ts`: verification over the key-directory cache | `MCBotSignatures`, `EnforceProofs` |
| `PublisherResolver` | `httpPublisherResolver.ts`: publishers of a platform's hosts, cached | `MCPublisherResolver`, `PublisherResolverProofs` |

### DeferredLegs

The sink's rows are `recorded`, `settled`, `claimedUntil`; a drain pass is a program
counter with the one clock reading of the pass (`passNow`), its snapshot of pending
legs and the leg at hand. `Claim` is the conditional UPDATE with the pass's own
clock, as `x402.ts` calls it; the filter is the database's (`claimed_until < now`;
the in-memory sink also takes a lease that ends exactly now). `Broadcast` and `Land`
separate the call from its effect: `Land` is the facilitator and the token contract,
external, and `late` are requests whose caller crashed or gave up and which may
still move money. `AnswerFailed` is possible whatever the request did, because a
thrown call says nothing. `MeansMoved` never takes a refusal for "already consumed"
unless the authorization is consumed; the code matches the words of the refusal
(`x402.ts:646`), so the model assumes that no other refusal is worded like one. A
consumed authorization whose refusal is worded otherwise is an `AnswerFailed`. Sinks
without `claim` (an optional method of the interface) are not modelled.

### TollRead

One record per request: where it stands, what it presents, what was fetched,
what was reported (`outcome`), what was answered, what the buyer concludes.
`submitted` are requests whose author leg the facilitator may still land.
`SettleThrows` leaves the request in `submitted`; `SettleRefused` takes it out.
A payment may be presented by several requests; `Consumed` is the contract's
single use.

### WebhookDelivery

`row` and `lease` are the store's columns, `stage` what each sweep does with each
row it claimed, `taken` the attempt count on the sweep's own copy of the row.
Time is relative (ticks until due, ticks until the claim lapses, ticks since the
sweep read its clock), which keeps the state finite without a bound on time.
`Tick` waits for a live sweep whose claim is about to lapse: that is the
requirement `dispatch.ts` states of `CLAIM_LEASE_MS` (a lease longer than a full
batch of timeouts). Without it `OneSender` is false and the code's comment says
so. CLAIM_LIMIT is taken to exceed the rows that are due. `Revive`, `Enable` and
`Disable` are operations of the store's interface; the repository gives them to
whoever operates the store.

### WebhookJournal

The file is its last line of each id and its length. The calls of the store
interleave at their awaits, as the code lets them: a sweep's `claimDue` loads
(`ClaimLoad`) and later filters and stamps what it loaded (`ClaimDue`), so it may
claim from rows that others have written since; `recordAttempt` lets the claim go
and then appends (`RecordAttempt`, `Append`); an append that passes the limit goes
on to load, write and rename, three actions, over one temporary file that all
compactions of the process share. `claimed` is in the process's memory and a restart
forgets it. `last`, `exposed` and `revived` are history: what was last appended of
an id, whose last line landed during a compaction, and who was revived while a sweep
had it in hand.

Three things are coarser than the code: `recordAttempt` and `revive` load and act in
one step; the limit is compared with the length of the file, while the process
counts the lines it has appended or loaded, which may differ while calls are in
flight; and waiting times are left out, so a pending row is due. Torn lines and
other writers are left out.

### ConnectGrants

The keys of the state store are sets and functions of one name each
(`connect.code:` is `rows`, `connect.used:` is `used`, and so on). A request goes
through look, claim, spend, issue, record; a replay through look, read record,
look for the credential, remove it, forget its last-seen key. The sweep lists one
kind of key after the other, and checks and deletes each key in calls of their
own. Whether a request proves to hold the grant (redirect, verifier) is one flag.

### PriceSplit and AuthorSplit

`PriceSplit` cuts a price for a list of payees; its state is one 402 that was built
and paid, and the event cut again for the ledger. `AuthorSplit` says which lists
there are: it flattens credits, which nest, by a recursion that the code has too.
The two are apart because a recursive definition cannot be proved about, and the
cutting does not need one: its theorems hold for any lists of payees whose shares
make `Whole`, which `resolvePayees` checks before it returns them.

Shares are exact fractions of `Whole`. The code's shares are binary floating
point: a product that is whole and whose share has no exact binary form may be
floored one unit low, and the total of a wallet with three or more payees may come
out low. The sets of those, `low`, are chosen freely, so the properties hold
whatever the rounding does; this allows more than the rounding does, which is safe
for what passes. Contributors nest to depth two in the run. Which wallet gets
the gated leg is `PrimaryPayee`; the `input` setting of its tie-break is not
modelled, and since the totals depend on the order of the credits in floating
point, no property says that the choice does not.

### BuyerSession

`job` is what each tool call is doing, `chain` the promise chain of `withSpendLock`
with the holder first; `spent`, `paidByHost` and `discovered` are the session's
variables of the same meaning, `held` the live licences of the store.
`naulon_pay_and_read` is one action per await: origin check and store, presentation,
period, probe and `spendGate`, signing, delivery and debit, saving.
`naulon_research` is `Plan` (discovery, probes and `decide()`, which plans on the
author's leg), then one action per entry and outcome, and `Finish`, which alone
debits the session. Gates quote any toll at any probe; discovery may list any pages,
twice too; a store fault is a store that shows nothing, or a call that throws.
`quotedTotals` is keyed by slug as in the code, and the two pages of the run share a
slug, as two publishers' pages do (`licenseStore.ts:45`); of such pages the one
priced last sets the quote of both. `quoted`, the totals of all of them, is history,
and so are `paid`, the reads of each host that were signed for and sent, and `lost`,
those of them whose call then failed or threw (`FetchFails`, `BuyFails`, `Unsaved`,
`Throws`) and which the session's counter therefore never sees. Licences bound to a
key (`Bound`) are not presented by `naulon_pay_and_read`, as in the code. Prices are
small numbers without `round6`; what the basis points of `guardCeilingAtomic` allow
above a quote is `Tolerance`, a function of the total.

### ConsoleAccounts

`account` and `rows` are the users and sessions of the state file; `update` is one
action, because the store runs updates one after the other and keeps the result
only if the write lands (`WriteFails`). A request is resolved (`Resolve` reads,
`Drop` and `Touch` write later), then admitted, then acts; hashing a password is a
step of its own, before the update it belongs to. `made` is the password a row was
minted under, `raced` a sign-in verified before the password changed, `cut` an
account whose change stopped after its first write (a failed write or a restart):
those two are the only rows `RowsAreCurrent` excludes, and the code does leave
them. The audit log, the throttle and an unwritable file are left out.

### InAppRead

A caller is a record of signals and a policy a record of decisions; `Standing` folds
the two as `classifyRequester` does, and `Standings` are all the outcomes with what
the properties call the caller (`Person`, `Machine`, `Unwanted`, stated of the
signals and not of the order of the rules: what a signal alone means is the same in
both, which of several decides is not). A read first waits for the configuration
(`Begin`, `Load`): `copy` is the site's document and `fresh` its age, the reads that
find it too old share one fetch, and a failure keeps the last. It may wait for the
gate's keys and, if it is a machine's, for the price; any of these may fail or never
answer. A machine's read goes on from `priced` through `relayed` and `reading` to
its answer; `gate` is what `POST /_naulon/verify` makes of the relayed payment. A
licence token is asked about at the licence server (`AskServer`), whose headers may
come within the timer or not (`ServerAnswers`, `ServerSilent`) and whose body may
then come (`CheckLicence`) or never. `TurnedAway` is whatever stands before the
gate. The race with `VERIFY_TIMEOUT_MS` ends when the gate's headers arrive
(`HeadersCome`); the body may then be whole (`Hear`), broken (`HearStatus`) or never
come.

### BotSignatures

The cache is a sequence in order of use, each entry with the time it was stored;
`inflight` is the shared fetch of a directory, served or not. Time is a clock with
a bound; a fetch takes at most `FetchTime` (its timeout), which `Tick` waits for.
The operator rotates keys at any time. Parsing a signature and verifying it are
the choice `genuine`.

### PublisherResolver

A record is its number among those the platform published for the host; a
withdrawal is one of them, because the resolver keeps a 404 as it keeps a publisher,
and 0 is no record. `cache` and `recent` are the entries and the order of the code's
one `Map`; `inflight` is named by the request that began the fetch, and holds the
entry `refresh` was called with, so what a failure writes back is what was there
before the fetch. `Serve` is the moment the platform reads its record. `newest` and
`failed` are history. Hosts that are not hostnames are answered before any of this
and left out.

## 3. The runs

| Run | States | Shows |
|---|---|---|
| `deferred_legs` | 655,700 | all safety of two drains and two legs, and that they implement `LegLedger` |
| `webhook_delivery` | 313,332 | safety of two overlapping sweeps with faults; every pending delivery comes to rest |
| `webhook_journal` | 788,391 | with overlapping calls of the store, which rows can be lost, and that two sweeps never have one in hand |
| `connect_grants` | 2,074,920 | single use, replay and revocation against the sweep |
| `toll_read` | 36,671 | the gate's promises about money and content |
| `author_split` | 1,382 | all splits for the payees of the credits in `MCAuthorSplit`, and that their shares make the whole |
| `buyer_session` | 305,640 | budget, caps, quotes, held licences and turns of two concurrent calls |
| `console_accounts` | 2,582,714 | sessions, passwords and administrators of two concurrent requests |
| `in_app_read` | 221,196 | who pays, reads or is refused, and that a lost answer costs no buyer |
| `bot_signatures` | 664,540 | what may be believed of a key, and for how long |
| `publisher_resolver` | 4,035,900 | what a host may be taken for, and how old it may be |
| `webhook_journal_loss` | | overlapping calls of the store can lose an unsent delivery |

The last one states what comments of the repository say and the code does not
keep; `PROJECT.json` quotes the lines under "findings".

Bounds, and why they are enough:

- *DeferredLegs*: two drains are the least that race and the claim compares two
  passes; two legs with expiries 3 and 5 give a pass a second leg to be late
  with; `Lease = 1` and `MaxTime = 5` let claims lapse several times within a
  pass and before either expiry. `MaxTime` bounds the clock alone; the number of
  passes is not bounded.
- *TollRead*: two requests, two payments (one whole, one with the author leg
  only), so the same payment is presented twice or two are presented at once.
  All failures are free choices.
- *WebhookDelivery*: two sweeps that send one at a time (`Concurrency = 1`), so a
  claimed row waits for another's attempt; two deliveries, two attempts
  (`Backoff = <<1>>`), a lease of one tick, `MaxCrashes = 1`, `MaxRevives = 1`. A
  crash is a dead sweep, a dead dispatch or one store call that throws.
  `Threshold = 2` lets the counter disable the endpoint while deliveries are
  pending. Safety for any numbers of these is proved.
- *WebhookJournal*: two deliveries, two sweeps and the settle path, compaction after
  two lines, `MaxRecords = 3` attempts and revivals: compactions
  overlap appends, claims and each other, and restarts fall between any two steps.
  The run is symmetric in sweeps and deliveries. The properties are proved for any.
- *ConnectGrants*: two codes and two requests, so that a code may be raced,
  replayed, or swept while the other is saved; `Patience = 1` bounds a request,
  `TTL = 3 > 2 * Patience` is what `OneCredentialPerCode` needs: with a slower
  request a marker is swept between a look and a claim and the code sells twice.
  Nothing in the code enforces this; CODE_TTL_MS is far longer than a request.
  `MaxTime = 4` passes one TTL and one sweep after it.
- *AuthorSplit*: credits of one to three contributors out of seven, and four authors
  whose two wallets tie, the case in which the order of the credits decides a total
  in floating point; prices 1, 2, 3, 4 and 12 micro-units, around the number of
  payees, where remainders are. The properties are proved for any.
- *BuyerSession*: two calls are the least that race; `MaxCalls = 2` makes them a pay
  and a research, two of each, in either order. One page at the gate and one
  elsewhere under the same slug, tolls of 1 with a total of 1 to 3, a ceiling of 3
  and a cap of 2: the ceiling and the cap are both reached, and a toll may move up
  between probe and payment, within the tolerance (1 for a total of 2 or 3) and
  beyond it. `MaxListed = 2` allows a page listed twice. `Finds` lets a discovery
  find nothing or both hosts.
- *ConsoleAccounts*: two usernames, two requests, two tokens beyond the seeds, one
  password change; a session is idle after two ticks and over after three, so both
  ends happen. `MaxTokens`, `MaxChanges` and `MaxTime` bound the history alone.
- *InAppRead*: two reads and one payment, so it may be presented twice; all mixes
  of signals under all policies, folded by what they decide, which is all the rest
  of the model sees. Two reads are enough to share a fetch of the configuration.
- *BotSignatures*: two directories and a cache of one, three requests, two of one
  operator with an old and a new key; keys are cached for one tick, failures for
  none, `MaxTime = 3` lets an entry age past its life while it is in use.
- *PublisherResolver*: two hosts and one entry, so each can evict the other during
  its fetch; two requests, so a fetch is shared or two run; `Ttl = 2`,
  `FailureTtl = 1`, `FetchTime = 1` and `MaxTime = 5` let a record be kept by a
  failure and expire again; two records per host. The run is symmetric in requests
  and hosts.

Deadlock is not checked: requests end, clocks stop at their bound, and every
system here may rest.

Fairness is used in four runs. `WebhookDelivery`: time passes; the timer of
`startWebhookSweep` keeps starting sweeps whatever became of the last
(`setInterval`, errors caught); and every attempt goes on, since a send is answered
or times out and store calls return. `BuyerSession`: a call that was made goes on,
one action or another, since requests are answered, cut or given up by the HTTP
client; nobody is obliged to make a call. `InAppRead`: the site's own steps are
taken, its timers among them; neither the gate, the licence server nor the network
owes anything: a lookup need not be answered, and a body that has begun need not
end. `BotSignatures`: a fetch lands or fails, because `fetchDirectory` has a
timeout. Nothing is assumed of the operator, of dispatches or of crashes. No
liveness is claimed of drains: they are started from outside.

## 4. What is proved

Every safety invariant and every action property of the passing runs, and the
refinement, is stated by a theorem. What remains with TLC is at the end of this
section. A proof module holds the proofs of the components it names.

`LegsProofs`, first for `DeferredLegs`, from `LegsAssumption` (expiries and lease
are naturals, scopes are sets of legs), for any number of legs, boxes and scopes:

- `Inductive`: the invariant `IInv` holds initially and is kept by every step. It
  is `TypeOK` and the two invariants of the runs, `BooksMatchMoney` and
  `CountedOnce`, strengthened by
  - `AttemptHoldsClaim`: a drain at an attempt has a leg the sink knows, whose
    row is claimed at least until the end of that drain's lease;
  - `ClaimsApart`: two drains at one leg read their clocks more than a lease
    apart. Exclusion is not inductive by itself: it holds because the later pass
    could claim only what its own, later clock found lapsed;
  - `AnswersTrue`: an answer that means "moved" is about money that has moved.
- `TypeCorrect`, `BooksAreTrue`, `CountsOnce`, `LiveClaimsAreExclusive`: the
  invariants. `CountsOnce` rests on the compare-and-set of `markSettled`,
  `LiveClaimsAreExclusive` on `ClaimsApart`.
- `LeaseIsKept`: the action property, which no run repeats, from the guard of
  `Claim` and from `AttemptHoldsClaim`, by which a pass's clock is never ahead of
  the time.
- `Implementation`: `Spec => ImplementsLedger`, the refinement of `LegLedger`. Each
  action maps to one of the ledger's or to a stutter; `MarkSettled` maps to
  `Book` only thanks to `AnswersTrue`, `Land` and `LandLate` to `Move`.

`LegsProofs`, then for `PriceSplit`, from `SplitAssumption` (a list of payees is not
empty and its shares make `Whole`), for any lists, prices and `Whole`: `NoDust`,
`NearShare` and `LedgerAgrees`. The state has one step, so the work is in the
operators:

- Sums. The library adds up with a fold, and induction over finite sets is a theorem
  with an operator parameter. `SmallestSubset` replaces it: if a statement fails of
  some subset of a finite set, it fails of one below which it holds, because strict
  inclusion is well founded. From it, the fold adds in any order (`AddersAgree`,
  `SumTake`), and so `SumPlus`, `SumUnion`, `SumBounded`, `SumByKey` (adding by
  wallet adds up the same) and `SumRenamed`.
- `FloorNear` and `LeftBounded`: a floor, low or not, is at most a unit below its
  share, so what is left to deal is between nothing and one unit for each payee.
- `Ranked`: the places in the sorted floors are each place once. So dealing round
  and round gives each of the first so many places one unit, no more
  (`FirstPlaces`), and is the same as dealing once: `CutAlike`, that `SplitMicro`
  and `ExpandCuts` agree. `CutsMakePrice` and `LegsKeepMoney` then give `NoDust`,
  the latter with the wallets that get nothing left out and with the primary among
  those that are paid.

`PaymentProofs`, first for `TollRead`, from `TollAssumption`, for any payments and
requests: `IInv` is `TypeOK` with `Coherent` (how far a request is, for what it
has), `Earned` (a request whose leg is or may be moving has its content and its full
signature), `Fetched` and `LandsOnce`. From it `UnpaidIsSafe`, `PaidForContent`,
`PaymentsBuyOnce`, `NoRefusalOnceSettled` and `SalesAreWhole`, the last of which no
run repeats.

`PaymentProofs`, then for `BuyerSession`, from `BuyerAssumption`, for any pages,
hosts, tolls, budgets and number of concurrent calls. None of its invariants is
inductive by itself, since each speaks of what a call checked several awaits ago.
`BInv` adds that whoever is past its turn holds the lock (`Turns`), so that what it
read of the session is still so; what each stage of `naulon_pay_and_read` has
checked (`PageJob`); and what the plan of a run fits under, and how far the run is
within it (`RunJob`). The cap is one sum over both tools: `TakenFits` proves that
what `decide()` takes of a host fits beside what the session has paid there; and
`Tallied` ties the session's counter to the money: no more reads were signed for and
sent than it has counted, the call at work has in hand and are `lost`. From `BInv`
follow `CeilingIsKept`, `CapIsKept`, `HeldIsPresented`, `LicencesAreKept` and
`QuoteIsKept`, whatever slugs the pages have.

`ConsoleAccountsProofs`, from `ConsoleAssumption`, for any accounts, tokens and
number of requests. `RowsAreCurrent` is not inductive by itself: what a request
read in an earlier step (a principal, a verified password) decides what it writes
in a later one, so the invariant also says what each stage of a request knows and
how old it may be. `SessionsAreCurrent` follows; `AnAdminStays` and `EndedStayEnded`
are action properties, from the guards inside the updates and from tokens that are
never minted twice.

`EnforceProofs`, first for `InAppRead`, from `InAppAssumption`, for any callers,
policies, reads and payments. `StandingsSound` proves of every mix of signals and
every policy that the order of the rules gives people, machines and the unwanted
what they must get; `AtSite` and `AtGate` tie a read's answer to its standing, to
the gate's answer and to the money. From them `PaidNotRefused`, `MachinesPay`,
`PeopleRead` and `NothingRefusedIsSold`.

`EnforceProofs`, then for `BotSignatures`, from `BotAssumption`, for any
directories, requests, lifetimes and capacity. The properties are about when
something was true, so `KInv` dates what the cache and the fetches hold: a key in an
entry is published still or was removed no earlier than one fetch before the entry
was stored, and an empty entry is no younger than its directory's last failure
(`EntryTrue`); what a running fetch was served is what is published, but for keys
that changed since it was sent, and none outlasts its timeout (`FetchTrue`); a
request that waits has a fetch that runs (`WaitTrue`). From it `RemovedKeysLapse`,
`PublishedKeysKnown` and `OutagesLapse`; besides, `CacheBounded`. That a hit does
not renew an entry's time is what the first rests on: using an entry moves it in the
sequence and changes nothing else of it.

`WebhookDeliveryProofs`, from `DeliveryAssumption`, for any endpoints, events,
sweeps, backoff and lease. `OneSender` alone is not inductive: that a claim is not
given twice rests on the live lease of whoever holds it (`ClaimHeld`), and that
attempts count up rests on the copy the sweep took still being the row's count.
`Tick` keeps both because no live sweep outruns its lease, which the module states
as the guard of time and `dispatch.ts` as a comment.

`WebhookJournalProofs`, from `JournalAssumption`, for any number of deliveries,
sweeps and lengths of the file, however calls overlap. For `LossIsOfCompaction` the
invariant says of every row that no append has touched since a compaction began that
its snapshot (`SnapshotTells`) and the shared file (`TmpTells`) have it as the
journal does, or have let a delivered one go: so the rename, whose ever it is, puts
back what was there. For `OneSweepAlways`: what a sweep has in hand is claimed,
unless it was revived meanwhile, and a claim filters by the claims of now, whatever
it loaded before.

`ConnectGrantsProofs`, from `GrantsAssumption`: `RevokedForGood` for any number of
consoles, from credentials that are named by requests past their minting
(`MintedLate`). `SingleUse` under two more hypotheses, which are what single use
rests on in the code: `OneSweepAtATime`, since two sweeps may each delete a marker
of one code, the second one a fresh marker, and `MarkersOutlive`, since a request
that saw the code's row before the first buyer spent it may still claim after that
buyer's marker is swept. The argument: a winner's marker stands until its time is up
(`MarkerStands`), whoever still claims a sold code began soon after its winner
(`NoLateClaim`), and so claims while the marker stands. `ReplayRevokes`, under the
same hypotheses: the record of an exchange that was answered stands as long as its
marker does (`RecordStands`), the sweep dooming only records whose code is spent and
whose marker is gone (`SweptSpent`); so the replay finds the record, which names a
credential of its own code (`RecordNamed`, `TargetNamed`), and takes it (`Taken`).

`PublisherResolverProofs`, from `ResolverAssumption`, for any hosts, requests,
lifetimes and capacity. That an answer never goes back is not inductive by itself: a
fetch may land long after what it saw was replaced. `IInv` adds that one fetch per
host runs (`SingleFlight`), that nothing but that fetch changes what the gate has
had of the host, so its answer and the entry it holds are the newest (`FlightHolds`,
`FlightBrings`), and that those who wait for it asked for its host (`Awaited`). From
these `NeverGoesBack`; `OutdatedByFailureAlone` from `EntryAge`, which dates an
entry's end by when its record was replaced or when a fetch failed. Neither depends
on which entry is evicted.

The proofs have a lemma per conjunct of the invariant or per group of actions, and
a step per action.

Model-checked only:

- liveness (`EveryDeliveryRests`, `EveryCallReturns`, `EveryReadAnswered`,
  `EveryRequestTold`), because fairness and ENABLED are out of the prover's reach;
- what `ResolvePayees` makes of credits, because it recurses over data: that shares
  make `Whole` is an assumption of the theorems, which TLC evaluates for every
  credit of the run.


## 5. Limits of what the code promises

What the models show the code does *not* promise, where a property had to stop:

- Two boxes may have one authorization at the facilitator at once when an attempt
  outlives its lease (`x402.ts:737`; the comment at `pendingLegs.ts:241` says they
  cannot). No money moves twice and none is counted twice.
- A replay of a connect code that reads before the first exchange is recorded
  (`routes.ts:83`) revokes nothing. The sweep of a marker is not conditional on the
  marker it looked at (`sweepConnect`): single use needs sweeps that do not overlap,
  and requests shorter than half a code's life.
- A settle that throws answers 402, and the buyer's client takes every 402 for
  proof that nothing moved (`paidFetch.ts:80`).
- Which wallet gets the gated leg may depend on the order of the credits, by
  floating point (`attribution.ts:139`).
- The outbox over the JSONL store may send a delivery twice though no sweep dies:
  `recordAttempt` lets the claim go at `jsonl-store.ts:237`, before its line is in
  the file, and a sweep that claims in between takes the row, still pending in what
  it loaded. `types.ts:134` says that the rows are claimed "atomically". The two
  sweeps send one after the other, which is what `OneSweepAtATime` leaves. And a
  compaction that an append overlaps may bring an older line back: a delivered row
  is pending again, and sent again.
- Quotes are kept by slug (`agent.ts:393`, `506`): of two pages of one run that
  share a slug, either may be paid for up to the quote of the one that was priced
  last, though the comment at `agent.ts:378` speaks of the total "each candidate was
  quoted at". `PaysAtMostTheQuote` says what is left: at most a quote of the slug,
  and a page's own if it shares its slug with no other.
- The per-host cap counts reads that were debited: those of a run that throws after
  it paid (`server.ts:2011`), and those whose payment was sent and whose answer was
  lost, count for nothing, so the reads paid for may pass the "Max paid reads per
  publisher per session" of the package's README by as many. `CapIsShared` adds them
  to the cap.
- A research run that throws after a paid read never debits the session
  (`server.ts:2011`); `settlement_ambiguous` debits nothing either; a page listed
  twice is bought twice; a re-read cut short in `naulon_pay_and_read` goes on to
  pay; two server processes that share a licence file overwrite each other
  (`licenseStore.ts:185`); a licence bound to the buyer's key is not presented
  before paying (`server.ts:1457`).
- A sign-in verified before a password change mints its session after it; a change
  cut between its writes leaves the old sessions; two setups at once make two
  administrators.
- A gate that sends its headers and withholds the body holds the read
  (`middleware.ts:830`): the timer covers the headers alone, though the comment at
  line 807 speaks of a request never held open. A licence server that does the same
  holds it too (`sdk/src/rsl/olp.ts:354`), though the comment at line 328 says it
  must not.
- The lookups of configuration, keys and price have no timeout
  (`config-source.ts:290`, `jwks-cache.ts:43`, `quote-source.ts:112`): a control
  plane that hangs holds every read that needs one, though `config-source.ts:255`
  says "Never block a reader"; a failure does not.
- A platform's host with no last good record is to be asked again
  `FAILURE_TTL_MS` after a failure (`httpPublisherResolver.ts:41`); at the second
  failure in a row `refresh` finds the first one's entry in hand and keeps it for
  the whole lifetime (line 135).
- A webhook delivery that comes due while its endpoint is off is failed for good,
  which revival does not take; a dispatch that dies between two enqueues is not
  repeated.

## 6. Not modelled

Cryptography and parsing (signatures, tokens, HTTP messages, RSL, HTML);
rendering (402 bodies, console pages, reports); networking; configuration; the
Python and PHP ports of the enforcement client; the memo relay, which the gate no
longer uses. `PROJECT.json` gives the reason per component.

## 7. Plan

Modules, in this order:

1. `NonceStore`: single use until expiry, on one instance and on several.
2. `TokenBucket` and `SignInThrottle`: refill, eviction at the limit, guesses made
   at once.
3. The caches that remain: the licence keys, crawler ranges, the observation
   queue.
4. `GateDrain`: composition of `TollRead` and `DeferredLegs`, so that a payment
   presented again meets a leg already claimed or settled, against one ledger of
   the buyer's money.

Proofs: the refinement of `GateDrain`.
