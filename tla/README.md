# Amanat Deal: a verification development

Amanat Deal is an escrow-style service: two people agree on a deal, the buyer's
money is held by a (mock) escrow, the seller ships, the buyer inspects, and the
money is released by the buyer's confirmation or when the inspection window runs
out. The backend is a NestJS API (`src/apps/api`) over one PostgreSQL database
(Prisma), deployed as serverless functions; a Next.js web client and an admin
shell call it.

This directory holds TLA+ modules of that system, the TLC configurations that
check them and proofs checked by TLAPS. Paths below are relative to
`src/apps/api/src/modules/` unless they begin with `src/`.

## 1. The system

| Component | State | Operations | Talks to | What is hard |
|---|---|---|---|---|
| **Deal state machine** `deals/deal-state-machine.ts` | none | `assertCanTransition` | called in every deal transaction | the read it asserts may be stale at the write |
| **Deal flow** `deals/deals.service.ts`, guards in `deals/deals.controller.ts`, `deals/deal-access.service.ts` | rows of `Deal`, `Payment`, `Delivery`, `DealEvent`, the SYSTEM `DisputeMessage` | create, accept, mock-payment, shipment, mark-delivered (two transactions), confirm-receipt, report-problem | evidence gate, inspection timeout | READ COMMITTED transactions that read, assert, then update by id with no condition; crash between two transactions |
| **Inspection timeout** `deals/inspection-automation.service.ts` | none of its own | `completeIfDue` (conditional update), the daily sweep, the sweep of a user's deals, reconciling reads | the same rows | races with confirm and report; a silent buyer; a limited batch with failing members |
| **Protection checklist** `evidence/protection-checklist.ts` | none | `buildProtectionChecklist`, `missingRequiredEvidence` | gates of shipment and receipt, evidence panel | three views of one table must agree; one party must not block the other |
| **Invitations** `deals/secure-invitations.service.ts`, `deals/deal-invitations.controller.ts` | `DealInvitation`, the deal's party slots and status | bind-and-issue, reissue, revoke, claim | deal flow (claim moves the deal to WAITING_PAYMENT) | checks on rows read outside, or before, the write |
| **Disputes** `disputes/` | `DisputeMessage`, `DisputeAssistance` | message, proposal, respond, request-assistance | deal status gates them; dispute panel | read-check-insert without a lock: double answers |
| **Evidence and storage** `evidence/evidence.service.ts`, `storage/` | `EvidenceFile`, objects in the store | upload, prepare, finalize | object store; evidence panel | two stores, no common transaction; lost answers, repeated finalize |
| **Phone auth and sessions** `auth/` | `PhoneOtpChallenge`, `UserSession`, `User` | request-code, verify-code, logout, session guard | OTP gateway | attempts counted on stale reads; late failure of a delivery against a newer code |
| **Notifications** `notifications/` | cursor in a remote service; a per-process flag | `dispatch` | remote notification service | a batch that dies between post and cursor; events that commit late; several instances |
| **Fees and settlement amounts** `deals.service.ts` (`calculateFee`), `disputes.service.ts` (`resolveProposalAmount`) | none | pure | create, proposals | rounding and bounds |
| **Web pages and panels** `src/apps/web/app/deal/[id]/` | what was last loaded; the submission in progress | buttons, forms, uploads | the API through `src/apps/web/app/api/backend` | tables of their own beside the server's |
| Health, Prisma wiring, other web pages, admin | none | configuration, rendering | API | no state of the system |

Everything the components share is the database. No handler takes a lock or asks
for a stronger isolation level, so *the transaction is READ COMMITTED everywhere*:
what a handler read can be out of date when it writes. The properties that make
the system correct are therefore relations between rows that several concurrent
handlers write:

- **deal flow**: the status, the audit trail and the money agree; a completed
  deal has paid the seller and holds nothing; no status past payment without a
  payment; every status change is a legal transition from a status the deal has
  had; a release is caused by the buyer or by a window that was opened and ran
  out; both parties accept before money is asked for; the two evidence gates.
- **timeout**: every inspection ends; the window is as long as agreed, whichever calls
  overlap; a deal
  expires once and not early, whichever sweeps overlap; a sweep that reports no
  more has left none due; a deal whose completion fails does not stop the others.
- **checklist**: a gate depends on its owner's files alone; the panel tells a party
  the gate as the server enforces it.
- **invitations**: the deal is joined as a whole or not at all, by someone the
  creator invited; the last link is the only live one and a revoked one is dead (with
  one call at a time); a late claim leaves the money with its parties.
- **disputes**: an answer is the other party's, to an earlier proposal and on its
  terms; after an agreement or an answer only requests that overlapped it can still
  change anything; every row has its event.
- **evidence**: every record names a stored object and has the hash of what was put
  there when it was read; a submission that was answered is recorded; one record per
  object unless two finalizes overlap; strays come from failures only.
- **auth**: one login per code unless two verifications overlap; wrong guesses are
  limited; a failed delivery cleans up after itself and nothing else; a session once
  revoked stays revoked.
- **notifications**: the cursor passes nothing that is not told; everyone is told of
  everything in the end.
- **fees**: within their bounds, monotone, exact to half a tenge, higher on the
  EXTENDED plan.
- **web pages**: what is offered is what the server takes.

The concrete hazards, line by line, are the `hazards` of `PROJECT.json`; each
names the properties that cover it, or says why none does.

## 2. The modules

| Module | Models | Kind |
|---|---|---|
| `DealStateMachine` | the status enum, `allowedTransitions`, `assertCanTransition` | pure |
| `ProtectionChecklist` | the rules, the checklist, the two gates, what the evidence panel shows of them | pure |
| `Fees` | `calculateFee` | pure |
| `MCProtectionChecklist` | all sets of files, one upload at a time, and all pairs of amounts | for TLC |
| `DealLifecycle` | what the API promises about one deal | abstract specification |
| `DealFlow` | one deal under concurrent requests, the timeout, uploads, crashes | core model |
| `DealPage` | the buttons of the deal page beside what the API takes | extends `DealFlow` |
| `MCDealFlow` | symmetry, for `DealFlow` with its page | for TLC |
| `InspectionSweep`, `MCInspectionSweep` | overlapping batches over several deals | component model |
| `Invitations`, `MCInvitations` | issue, claim, reissue, revoke, expiry, crashes; one call at a time or several | component model |
| `DealSystem`, `MCDealSystem` | `Invitations` and `DealFlow` over the same deal and journal | composition |
| `Disputes`, `MCDisputes` | the dispute channel, its assistance and its panel | component model |
| `Evidence`, `MCEvidence` | a file on its way from a page to the store and the record | component model |
| `PhoneAuth`, `MCPhoneAuth` | the codes of one phone and its sessions | component model |
| `Notify`, `MCNotify` | dispatchers over one remote cursor | component model |
| `DealFlowProofs`, `InvitationsProofs`, `ProtectionChecklistProofs`, `DisputesProofs`, `EvidenceProofs`, `PhoneAuthProofs`, `NotifyProofs`, `InspectionSweepProofs` | theorems | TLAPS |

Faulty variants ("Faulty variant: ...") stand before some definitions. They are
plausible bugs of the code; no action of `Next` uses one. They are there to show
that each property fails when its definition is broken that way.

A few fields and variables are marked "no column" or "no data": they remember what
had committed when a request read (`seen`), or which pairs came too late for a batch
(`late`). No guard reads them; they let a property say *unless it overlapped*.

### DealFlow and the code

Variables are tables. `deal` is the row (`status`, `deliveredAt`,
`inspectionEndsAt`, and in `acceptedBy` which of `acceptedBySellerAt`,
`acceptedByBuyerAt` is not NULL); `terms` is what creation fixed. `payments` and
`deliveries` count rows per status, since the handlers treat the rows of a status
alike (`updateMany where dealId, status`). `journal` is the `DealEvent` table
restricted to the events that change the status, in commit order; `notices` counts
the SYSTEM dispute messages of `reportProblem`; `evidence` holds the files that can
satisfy a required item. `req[w]` is the program counter and the local variables
of the HTTP request that worker `w` serves.

| Code | Actions |
|---|---|
| `accept` | `BeginAccept`, `Accept` |
| `mockPayment` (two status changes and the payment, one commit) | `BeginMockPayment`, `MockPayment` |
| `markShipped` | `BeginMarkShipped`, `MarkShipped` |
| `markDelivered`, first transaction | `BeginMarkDelivered`, `MarkDelivered` |
| `markDelivered`, the deadline computed between the transactions | `DateInspection` |
| `markDelivered`, second transaction | `BeginInspection`, `StartInspection` |
| `confirm-receipt`: reconcile, gate, `complete` | `Reconcile` (or `ReadDeal` if due), `BeginComplete`, `Complete` |
| `report-problem`: reconcile, `reportProblem` | `Reconcile` (or `ReadDeal`), `BeginReportProblem`, `ReportProblem` |
| `GET deals`, `deals/:id`, `deals/:id/events` | `ReadDeal` |
| the sweep, for this deal | `CronSweep` |
| an evidence upload | `UploadEvidence` |

Modelling decisions a reader should know:

- **A transaction is two steps.** `Hold` is `findUnique` with
  `assertCanTransition`; the commit writes everything. At READ COMMITTED nothing
  else of the transaction is visible in between, and the `UPDATE ... WHERE id`
  lands on whatever has been committed meanwhile. Each commit writes the row's
  status and the event with the `from` that was *read*.
- **deliveredAt is older than its transaction.** mark-delivered takes it when the request
  comes in, so `BeginMarkDelivered` holds any time up to now.
- **completeIfDue is one step.** Its `updateMany` repeats the condition (status
  INSPECTION and deadline passed) in the statement that writes; PostgreSQL
  re-evaluates it on the locked row, so it is a compare-and-set.
- **A refused request is not a step.** A request that fails its first check
  changes nothing. One that fails later, or whose process dies, ends by `Crash`,
  which keeps what was committed and loses the rest.
- **The evidence gate and the read of the transaction are one step.** The gate
  reads before the transaction, but evidence is never deleted, so a gate passed
  then is passed at the later read as well (lemma `GateStaysOpen`). For the
  same reason of monotonicity the status check of `accept` before its transaction
  adds nothing to the one inside it.
- **Origins.** `joined` is a deal that the secure `claim` brought to
  WAITING_PAYMENT; `unaccepted` one that waits in WAITING_COUNTERPARTY with both
  parties on it and needs `accept`, as rows of earlier releases do, including pilot
  rows without a `creatorRole` (the constant `NoRole`).
- **Left out**: `createdAt`, `shippedAt`, `completedAt`, `fundsSecuredAt` (no
  code reads them to decide anything), event payloads, ids, amounts and tracking
  data. The clock is one clock in ticks; skew between server instances is ignored.

`DealPage` adds what the page offers in a status (`roleAction`, `canReportProblem`) and
what the API takes (`requireRole` of the controller, the target's transition). A page
shows what it loaded and posts; the API answers by what it reads, so the page adds no
step and its staleness no behaviour.

### DealLifecycle, the abstract specification

Three kinds of move: `Fund`, `Complete`, any other. Each goes along the table from
a status *the deal has had* (`held`), not from the one it has: that is the strongest
promise the unconditional updates keep. `Complete` needs money, now or released
earlier, and releases all of it; nothing else touches released money. `DealFlow`
implements it under `status <- deal.status`, `held <- ` the targets of the journal,
`secured` and `released` the payment rows. A funding commit is one abstract `Fund`,
reads and clock ticks are stutters.

### InspectionSweep and the code

`DealFlow` has everything one completion does to one deal; this module has many deals
and only their status and deadline. `sweep[s]` is a run of the loop: its date, the
candidates not yet tried, and the counters of its report.

| Code | Actions |
|---|---|
| `completeExpiredInspections`, `reconcileUser`: `findMany`, oldest first, `take` | `Begin` |
| the loop: `completeIfDue`, or a failure that is counted | `completeIfDue`, `Fail` |
| the report `failed`, `hasMore` | `Report` |
| a parallel confirm or report | `PartyEnds` |
| a late second transaction of mark-delivered | `InspectAgain` |
| the function is killed | `Die` |

Deals with the same deadline come in any order (`Oldest`). `Broken` deals fail each
time, as a row that violates a constraint would.

### Invitations and the code

`party` is `sellerId` and `buyerId`; `invitations` the `DealInvitation` rows in order
of creation (`claimedAt` and `revokedAt` as facts, expiry as a flag that time sets);
`journal` the status-changing events after creation, `log` the number of the others;
`call[c]` a call in flight.

| Code | Actions |
|---|---|
| second transaction of deal creation | `bindCreatorAndIssue`; a crash before it is that it never happens |
| `claim` (by token or by code: the same row) | `BeginClaim`, `Claim` |
| `reissue`: deal read outside, then `updateMany`, create, event | `BeginReissue`, `ScanLive`, `Reissue` |
| `revoke`: read, `updateMany`, event, no transaction | `BeginRevoke`, `Revoke`, `RecordRevoke` |

- The updates of one claim are one commit. Row locks order two claims, and a claim
  and a revocation, of the same row; two claims that lock each other's invitations
  deadlock and PostgreSQL aborts one, which is `Crash`.
- `ScanLive` is a step of its own: the `updateMany` of a reissue cannot revoke a row
  that a second reissue inserts after its snapshot, and re-evaluates its condition on
  the rows that it waited for. So two reissues can leave two live invitations.
- Prisma reads the invitation and its deal in two statements; since the status leaves
  WAITING_COUNTERPARTY for good, reading both at once refuses no less.
- The unique phone of a `User` stands for him, so "not one's own number" is
  "not the creator".

`MCInvitations` adds a flag `serial`, chosen at the start: a serial behaviour makes one
call at a time. `SerialLinks` and `RevokedIsNeverClaimed` are about those only, since
with two calls the code does not keep them.

### DealSystem

`DealSystem` extends `DealFlow` and instantiates `Invitations` over the same `deal` and
`journal`. Each side's steps leave the other's own tables alone. A request needs its
user on the deal (`roleForUser`); so before the claim only the creator can call, and
the flow begins where the claim put the deal. A claim in flight may commit at any
later time, which the run uses.

The composition is related to both of its parts. It implements `DealLifecycle` as
`DealFlow` does, the late claim being one more move. And it implements `Invitations`
(`ImplementsInvitations`) under `deal <- seenDeal`, which tells only whether the deal
waits for its counterparty and who has accepted it, and `journal <- seenJournal`, the
events of joining: what the flow does is a stutter there, so that a deal is joined by
claims alone and what holds of the invitations by themselves holds beside the flow.

### Disputes and the code

`room` is the deal's `DisputeMessage` rows, `assistance` its `DisputeAssistance` row,
`log` counts the events. Each operation reads without a transaction and then commits one
transaction of inserts.

| Code | Actions |
|---|---|
| `message`, `proposal`, `respond`: the reads and checks | `BeginMessage`, `BeginProposal`, `BeginRespond` |
| an acceptance's `updateMany` of the assistance, before its commit | `SettleAssistance` |
| the commit: row, event, and the assistance that an acceptance ends | `Write` |
| `requestAssistance`: reads, insert under the unique `dealId` | `BeginRequestAssistance`, `RequestAssistance` |
| a refused insert, a dying request | `Fail` |
| the deal flow, into and out of the dispute at any moment, as its lost updates allow | `DealMoves` |

The `updateMany` of an acceptance closes what is committed and open when it runs: an
assistance that is inserted between it and the commit stays open beside the agreement
(`swept`, no column, is the length of the room then). It locks the row it closes, so a
second acceptance waits for the first one's commit.

The room only grows, so what a read has once found it finds ever after; one step stands
for a request's reads. The panel's `canRespond`, `proposalForm` and `assistanceButton`
are computed from the loaded messages as `DisputePanel.tsx` does it.

### Evidence and the code

`store` has for each key handed out what was put there, in order: the last put is the
object. `files` is the `EvidenceFile` rows, `page[p]` a panel's submission, `call[c]` an
API call, `mode` the provider.

| Code | Actions |
|---|---|
| `prepareUpload`, the panel's submit | `Submit` |
| the browser puts the object into the store | `PutObject` |
| the key of a plan is put again, with any file | `PutAgain` |
| the panel (or a client, again) posts `finalize` or the file | `Post` |
| `finalizeUpload`: look for the key, `verifyDirectUpload`, record | `Look`, `verifyDirectUpload`, `createEvidenceRecord` |
| `upload`: `save`, record | `save`, `createEvidenceRecord` |
| an answer lost on the way (proxy 502, page closed) | `LoseAnswer` |
| a call that fails or dies | `Die` |

`prepareDirectUpload` signs the key, the time and the type, but not `overwrite: false`,
which `save` sends. So the model lets the key of a plan be put at any moment after it was
signed: before the read-back, between it and the record, and after the record. The hash
is then of the put that was read (`version`, no column, remembers which), and of the
object itself only as long as nobody puts there again; under a key of `save` always. An
answer can be for another file than the submitted one only if that file had been put by
another use of the plan (`panel`, no data, tells the submission's own put).

### PhoneAuth and the code

`challenge` is the phone's `PhoneOtpChallenge` row (the phone is its key), `sessions` the
`UserSession` rows; codes are numbered in the order in which they are made.

| Code | Actions |
|---|---|
| `requestCode`: read, upsert, deliver, catch | `BeginRequest`, `UpsertChallenge`, `Delivered` or `DeliveryFails` and `CleanUp` |
| `verifyCode`: read and checks, a wrong guess | `BeginVerify`, `Mismatch` |
| `verifyCode`: a right guess, then `issueSession` | `Consume`, `issueSession` |
| `requireUser`: read, then `lastSeenAt` | `BeginRequireUser`, `Touch` |
| `logout` | `logout` |

### Notify and the code

`journal` is the set of committed positions (an event with a smaller position may commit
later than one with a larger), `told` what the remote took, `batch[i]` the run in
process `i`. Positions stand for the pair of time and id that orders the events.

| Code | Actions |
|---|---|
| `dispatch`: running flag, fetch the cursor | `FetchCursor` |
| `findMany` after the cursor, `take` | `ReadRows` |
| the loop: `Promise.all` of the posts of one event | `Process`, `PostFails` |
| the time limit | `Deadline` |
| move the cursor, or reset it when there was nothing | `MoveCursor`, `ResetCursor` |
| commits of the deal flow, a party bound to the deal | `Commit`, `Join` |
| a failed fetch or move, a process that dies | `Die` |

External, modelled from the calls: the remote takes an event for a recipient once and
moves its cursor only from the position that the caller fetched.

## 3. The runs

| Run | Question | Instance | Shows |
|---|---|---|---|
| `deal_flow_races` | do money, rows, trail, status and window agree under races and crashes? | 2 requests + sweep, BASIC, joined and unaccepted | type, seven safety invariants, refinement of `DealLifecycle` |
| `deal_flow_protected` | gates, acceptance, page | 1 request + sweep + uploads, both plans, GOODS and OTHER, every creator | three invariants |
| `deal_flow_liveness` | does inspection end with no user acting? | 2 requests, fair sweep and clock | `InspectionEnds` |
| `checklist_gates` | do the three views of the checklist agree; are fees in order? | all sets of 14 files, 5 categories, 2 plans, 6 amounts | three invariants |
| `invitation_races` | is joining atomic and invited; which link works when calls do not overlap? | 2 calls, 2 people to invite, up to 4 invitations | three invariants, one action property |
| `deal_system` | does a late claim break the flow? | 2 joining calls, 1 flow request, sweep, uploads, EXTENDED | two invariants, refinement of `Invitations` |
| `disputes` | whose agreement is it, and what does it end? | 2 requests, 2 settlement types, amounts none, 0, whole, more | four invariants, no deadlock |
| `evidence` | do object, record and answer agree? | 2 pages, 2 calls, 2 contents, both providers, 2 keys, puts repeated, 2 faults | four invariants |
| `phone_auth` | limits of a code, life of a session | 2 calls, 2 codes, 2 guesses allowed | three invariants, one action property |
| `notify` | is anything skipped, is everything told? | 2 instances, 3 events of which 2 with text, batches of 2, 2 faults | one invariant, `EveryPartyIsTold` |
| `inspection_sweep` | when and whether a deal is completed | 3 deals, one always failing, cron and a user's sweep, limit 2 | one invariant, one action property, `DueDealsComplete`, no deadlock |
| `problem_overwritten` | a sentence of the docs that the code does not keep | 2 requests | see section 6 |

**Bounds of the deal flow.** `Workers`: two concurrent requests produce every lost
update between a read and a write of one row (a third adds only another writer of the
same kind, and the proofs cover any number); the sweep and the reading handlers come on
top, since they are atomic. `MaxEvents` bounds the audit trail: no transaction begins on
a trail of that length. The whole happy path of an unaccepted deal has 8 events, so 9
leaves room for one racing write at every point of it, and 7 in the liveness run reaches
inspection from `joined` and a second mark-delivered. `MaxTime` bounds the clock, except
that it always reaches a deadline that has been set; three ticks let a request be
dated before, at and after another's deadline. `InspectionHours` is 1 tick, the
least the code's positive `inspectionHours` allows. GOODS has items that only EXTENDED
has, OTHER has none; the other categories are covered, all of them, by
`checklist_gates`. There kinds come in two spellings, because the code compares after
`toUpperCase`, and the amounts are those around which the minimum fee (25000 at 2
percent), the maximum fee (666667 at 3 percent, 1000000 at 2) and a rounding begin.

**Bounds of the others.** *Invitations*: `MaxInvitations` bounds the invitations at
which a reissue may begin; 3 with two calls gives up to four, two of them live at once.
`MaxRevocations` bounds the repeated revocations of a deal that stays open; in
`deal_system` it is 0, since a revocation touches nothing that the flow reads.
`MaxEvents` is 11 there: joined, paid, joined again by a late claim, paid again, shipped,
delivered, inspected and completed. *Disputes*: a room of three and the two requests in
flight is a proposal, its overlapping answers and what comes after; an amount of 1 has
its boundary on every side. *Evidence*: two keys are two submissions, of two parties or one after
the other's failure, and a finalize can be repeated on each; a key can be put again up to
its second put, before or after it is hashed or recorded; two faults are a lost answer
and a death after it. *PhoneAuth*: two codes are an
old and a new one; with a resend interval of 1 and a life of 2 the new one is made while
the old one lives; a limit of 2 is exceeded by the overlapping guess. *Notify*: three
events in batches of two need a second batch and a reset; the middle event has no text;
two faults are one failed post and one death, in any order. *InspectionSweep*: a limit
of 2 with one broken deal leaves one place for the two others, so batches are full,
partly failing and empty.

`CHECK_DEADLOCK FALSE` where the bounds or the end of the system's life stop it: a deal
that has been completed is meant to stop, and a bounded clock, trail or number of keys
stops the rest. `disputes` and `inspection_sweep` check for deadlock.

**Fairness.** `WF(CronSweep)`: the deployment calls the sweep daily
(`src/apps/api/vercel.json`), and a call that fails is followed by the next day's.
`WF(Tick)`: time passes. `WF(Continue \/ Commit)` per worker: the server goes on
with a request it holds, unless it crashes, which it may at every step. No user
action is fair; `InspectionEnds` holds for the silent buyer. In `InspectionSweep` the
sweep of all deals that is in the end not killed begins again and goes on
(`WF(Begin)`, `WF(Step)`), the same daily call; the user's sweep may die each time
and is not fair. In `Notify` each instance is called again and goes on (`WF(Step)`); failures are
bounded, so they stop, and that is the assumption: with an event whose post always
fails nothing behind it is told (a hazard of the code, kept in the list). Commits,
joins and deadlines are not fair. The journal of the run is finite; one that keeps growing
faster than the batches would put off the cursor's reset, and with it what was committed late.

**The inspection window.** `InspectionWindowIsWhole` is checked with two requests in
flight. Two mark-delivered calls overlap only if both read the deal SHIPPED; whichever
of them records the delivery last took its time before the other computed a deadline,
so either deadline leaves the whole window after either delivery. What does shorten the
window is a late shipment: one that read the deal before it was shipped commits after the
delivery and sets it back to SHIPPED, the delivery is marked again, and the first call's
deadline can still be written last. The property excepts the deals whose trail shows that
(`Reshipped`), and only those; without the exception TLC finds it violated on the same
instance. It is a hazard of the code, told in section 6.

## 4. What is proved

For every value of the constants that satisfies the assumptions (any number of
concurrent requests, users, pages, instances and sweeps, any bound, window, limit and
amount):

| Theorem | Says |
|---|---|
| **DealFlowProofs** `TypeCorrect` | `Spec => []TypeOK` |
| `CompletedPaysOutAlways` | a completed deal has released a payment and holds none |
| `FundsBackTheDealAlways` | no status past payment without a payment row |
| `AuditTrailEndsAtStatusAlways` | the trail ends at the row's status |
| `EveryEventIsGroundedAlways` | every event is a legal transition from a status the deal had had |
| `RowsMatchAuditTrailAlways` | payments, deliveries and notices are as many as their events |
| `ReleaseHasCauseAlways` | every release is the buyer's, or follows the opening of its window |
| `EvidenceGatesAlways` | nothing shipped or confirmed without the evidence of its gate |
| `BothAcceptBeforeMoneyAlways` | both parties have accepted past WAITING_COUNTERPARTY |
| `FlowImplementsLifecycle` | `Spec => Lifecycle!Spec` |
| `InspectionWindowIsWholeAlways` | the buyer has the whole window, however requests overlap, unless a late shipment set the delivered deal back |
| `PageAgreesWithServerAlways` | the page offers a party what the API would take |
| **DealFlowProofs**, the system: `SystemTypeCorrect` | the deal's rows keep their types beside the claims |
| `MoneyHasBothPartiesAlways` | money only with both parties bound and agreed |
| `PaidTwiceIsReleasedTwiceAlways` | what was paid, once or again, is released at the completion |
| `FlowKeptWhileJoining` | eight of the promises above, on a deal that is still being joined |
| `JoinedAltogetherInSystem` | the deal is joined as a whole, with the flow running beside |
| `CounterpartyWasInvitedInSystem` | whoever has the second seat claimed an invitation that named him |
| `SystemImplementsLifecycle` | `SystemSpec => Lifecycle!Spec` |
| `SystemImplementsInvitations` | `SystemSpec => SeenJoining!Spec`: to the invitations the flow is a stutter |
| **InvitationsProofs** `InvitationsTypeCorrect` | types of the invitation tables |
| `JoinedAltogetherAlways` | a deal leaves WAITING_COUNTERPARTY iff its second user is bound; then both have accepted and the creator is bound |
| `CounterpartyWasInvitedAlways` | the counterparty claimed an invitation addressed to him, and is not the creator |
| `SerialLinksAlways` | one call at a time: the last link sent is the only live one, and none outlives the joining |
| `RevokedStaysDead` | one call at a time: no step claims a revoked invitation |
| **ProtectionChecklistProofs** `GatesAreOwners` | a gate depends on its owner's files alone, for every set of files |
| `PanelTellsTheGateAlways` | panel, complete flag and gates agree, for every set of files |
| `FeesAreOrderedAlways` | fees are bounded, monotone and exact, for all amounts and percentages |
| **DisputesProofs** `DisputesTypeCorrect` | types of the channel |
| `AgreementIsMutualAlways` | answers are the other party's, on the terms proposed |
| `SettlementClosesTheRoomAlways` | only overlapping requests still write after an agreement |
| `ChannelIsAuditedAlways` | every message and assistance has its event, every event its row |
| `PanelAgreesWithServerAlways` | a panel just loaded offers what the server takes |
| **EvidenceProofs** `EvidenceTypeCorrect` | types of pages, calls and rows |
| `RecordsHaveTheirObjectsAlways` | every record has its object, the hash of what was put there, and its event |
| `AnsweredIsRecordedAlways` | what was answered is on record, with its own file unless its plan was used otherwise |
| `OneRecordPerObjectAlways` | two records of an object only from overlapping finalizes |
| `OrphansComeFromFaultsAlways` | never more stray objects than faults |
| **PhoneAuthProofs** `PhoneAuthTypeCorrect` | types of the challenge and sessions |
| `CleanupHitsItsOwnCodeAlways` | a failed delivery expires its own code only |
| `OneLoginPerCodeAlways` | two logins of a code only from overlapping verifications |
| `AttemptsAreLimitedAlways` | wrong guesses exceed the limit by no more than those in flight |
| `RevokedStaysRevokedAlways` | a revoked session stays revoked |
| **NotifyProofs** `NotifyTypeCorrect` | types of the cursor and batches |
| `BehindTheCursorIsToldAlways` | the cursor passes nothing untold that was there in time |
| **InspectionSweepProofs** `InspectionSweepTypeCorrect` | types of deals and sweeps |
| `NoMoreMeansDoneAlways` | a clean report leaves no due deal behind |
| `ExpiresOnceAndNotEarlyAlways` | a deal expires once, and not before its deadline |

**Assumptions**, all evaluated by TLC in the runs. DealFlow: `PlansAssumption`,
`CategoriesAssumption`, `CreatorsAssumption`, `OriginsAssumption` (the constants are
subsets of the enums), `TimeAssumption` (naturals; the window is positive; NULL is no
number), `NoRoleAssumption`, `EscrowAssumption`. Invitations: `UsersAssumption` (the
creator is a user, NULL is none), `BoundsAssumption`; DealSystem: the same two as
`SystemUsersAssumption` and `SystemBoundsAssumption`. Fees: `PercentAssumption`,
`FeeAssumption` (naturals, the minimum no more than the maximum), `AmountsAssumption`.
Disputes: `SettlementsAssumption`, `AmountAssumption` (a positive amount),
`InputsAssumption`, `MaxMessagesAssumption`. Evidence: `NoneAssumption`,
`BoundsAssumption`. PhoneAuth: `CallersAssumption` (finitely many, since they are
counted), `PeriodsAssumption`, `BoundsAssumption`. Notify: `EventsAssumption` (positions
are positive), `TakeAssumption`. InspectionSweep: `DealsAssumption` (finitely many deals),
`NumbersAssumption`.

*DealFlow.* `TypeOK` is inductive by itself. The money invariants are not: a
request that read INSPECTION before the money was there could complete the deal with
none. `MoneyInv` adds `HoldsFunded`: a request that holds a status behind a payment
finds a payment row, then and at its commit, because payment rows are never deleted
(secured plus released never falls). With it, every commit that writes a funded
status has the money behind it, and a commit to COMPLETED releases all of it. The
trail invariants need `TrailInv` with `HoldsGrounded`: the status that a request
holds is one the journal has, and the transition it will write was asserted
legal from it; the journal only grows, so both survive whatever is committed
in between. The refinement uses both: the held status gives `Reachable`, the
money gives the conjunct of `Complete`. The others follow the same plan, *what a request
read is still true when it commits, because it can only become more so*: acceptances
are never taken back (`HoldsAccepted`), files never deleted (`HoldsOpen`, with
`GateStaysOpen`). `ReleaseHasCause` needs that the last event opened the window while
the deal is in inspection (`WindowIsLast`), which holds because every commit moves
status and trail together and the timeout is conditional. The rows are compared with the
trail by counting: an appended event counts once under its type (`CountAppend`), and
each commit adds its operation's events and rows (`CommitCounts`).

*The inspection window.* `WindowInv` says of every deadline, on the row or on its way
there (`DeadlinesLeave`), that it leaves the whole window after the delivery on the row and
after each delivery that a request is about to record over it (`Leaves`). Recording one of
those then shortens nothing, and a deadline computed now is late enough for all of them,
because none lies after now (`CarriesDates`). Only a request that comes to deliver the deal
while a deadline exists would break it: it has read SHIPPED, which the trail shows to be a
shipment (`ShippedIsRecorded`) after a recorded delivery (`RowIsDated`), the exception
(`FirstDelivery`). `PageAgreesWithServerAlways` is a fact about each status, and of those that the
flow leaves a deal in only (`StatusInFlow`). DRAFT, FUNDS_SECURED, CANCELLED, EXPIRED and
WAITING_LEGAL_RESOLUTION, in which no commit leaves it, have no button for anybody.

*The system.* A step of the flow is a step of `DealFlow`, and all that a step of the
invitations does to its tables is the commit of a claim (`Joins`). That commit keeps the
flow's invariant: it is a legal event, from a status which the trail has held
(`"WAITING_COUNTERPARTY" \in Held`, for ever). So `FlowInv`, the conjunction of what was
inductive for the flow, is inductive for the system, and with it come its promises and
the refinement of the lifecycle. Who the parties are is `PartiesInv`: a deal that waits
has an empty seat, any other has both parties; a request in flight was made on a joined
deal (`HoldsJoined`), therefore none of them is a separate acceptance, and a call in
flight carries a real user (`CallCarries`). Money then has both parties because only a
request funds. For the refinement of `Invitations` the flow never leaves
WAITING_COUNTERPARTY nor returns to it and changes no acceptance (`FlowIsUnseen`), and
the steps of the invitations depend on the row only by what `seenDeal` keeps
(`JoiningIsSeen`). `CounterpartyWasInvitedInSystem` then needs no proof about the flow:
`InvitationsProofs` is instantiated under the same mapping (`Seen`), and its theorem is
one about the system.

*Invitations.* The two properties and the types are inductive only together, in
`JoinInv`: a commit relies on what its call read. `CarriesItsUser` says what a call in
flight still knows (a claim's invitation is addressed to its user, whatever happened
since), and an invitation exists only after the creator was bound, is never addressed
to him and is claimed by its recipient only; recipients and claimants of existing
rows are changed by no other action. With one call at a time (`serial`), what a call
has read still holds when it commits (`ReadsHold`): the invitation of a claim is live,
the seat is empty, and a reissue has seen every live invitation. That is `SerialInv`,
from which both serial properties follow; with two calls it is `ReadsHold` that fails.

*Checklist and fees.* Every rule guards the gate of its own role (`RuleOwner`), which
gives both statements about gates. The fee follows from facts about the rounded share
(within a half, monotone in the amount and in the percentage) that survive
clamping between two bounds.

*Disputes.* `IInv` says what each row of the room is (`RowStands`) and what a request in
flight carries (`Carries`): the proposal it answers is in the room, is another party's,
and if anything has ended its right to write, that came after it had read. The
room only grows, so a row once right stays right (`RowStandsOn`), and the commit turns
what is carried into a row. The audit trail is compared with the rows by counting, as
in the deal flow. The panel takes any row that names a proposal for its answer, where
the server looks for answers only; they agree because nothing else names one
(`OnlyAnswersName`).

*Evidence.* Keys are handed out once, and every stage of a submission owns its key:
`KeysApart` (no two of them share one), `PageStands`, `CallStands` (what a call has hashed
is the put it remembers). The puts under a key only grow, and with them stay the put that a
row or a call hashed (`HashStands`, `RowsOutlast`, `CallOutlasts`), whoever puts there again.
The strays are counted against the faults step by step: a step that is no fault makes none
(`SubmitStrays`, `PostStrays` and their like), and a fault makes at most one,
because a submission and a call each have a single key in progress. The count is of keys
with no record and nothing in progress, with an object or without, so a repeated put does
not change it (`AgainStrays`).

*PhoneAuth.* A code is made once. `CallStands` ties every call to the code it read or
made, `CodesApart` keeps two deliveries apart, `ChallengeStands` says what the
row is for its code. The attempts are bounded by counting the guesses in flight: a call
that begins to guess has read a count below the limit, and the count never falls for
the same code.

*Notify.* `BatchStands`: whatever a batch has reached between where its cursor was
fetched and where it stands is told, late, or among the rows it has still to post. The
cursor moves only from where it was fetched, so what lies behind the new position lies
behind the old one or was reached by this batch. `FirstIsLowest` is the fact about
`take`: what is left out of a batch comes after everything in it.

*InspectionSweep.* `SweepStands`, by `Covers`: unless the batch was full or something failed, the
candidates left cover everything in the sweep's scope that is due at its date. A batch that is not
full holds all of them (`NotFullIsAll`), and no step makes a deal due at a date that is
past: an inspection that starts again ends later.

*Only model-checked.* The liveness properties `InspectionEnds`, `EveryPartyIsTold` and
`DueDealsComplete`: liveness under fairness and ENABLED are out of the prover's reach,
as is induction over data. Every safety property and action property of the passing
runs is a theorem.

## 5. The plan

Done: the deal flow with its lifecycle, page and sweep; the checklist and the fees;
invitations and their composition with the flow; disputes, evidence, phone login,
notifications; a proof module for each component. The order was the weight of what can
go wrong: money and status first, then who the parties are, then the rights that a
dispute and its evidence give, then login and notices.

The composition is proved as well: what each part promises by itself it keeps beside the
other.

Left: `InspectionSweep` related to `DealFlow`, of which it repeats `completeIfDue` on each
of several deals; and the rest of the hazards that no property covers. Disputes need no
composition: they read of the deal only whether it is in a dispute, and `DealMoves` lets
it come and go at any moment.

## 6. Where the code and its documents part

One of these is a run, `problem_overwritten`: mark-delivered's second transaction has read
DELIVERED, a problem is reported and committed, the transaction overwrites it with
INSPECTION, and the timeout then completes the deal and releases the money. The trail of the
counterexample ends `delivery.delivered`, `problem.reported`, `inspection.started`,
`inspection.expired`, where docs/deal-state-machine.md:31 allows automatic completion only
after DELIVERED or INSPECTION and in the absence of a problem (`findings` in
`PROJECT.json`). The property is about order: a report that commits after the timeout has
completed the deal does not violate it. A shipment that had read the deal before the
report overwrites it in the same way, earlier in the deal's life.

Others were met while modelling and follow from the same models, but have no run:

- confirm-receipt completes a deal with a reported problem: the table has COMPLETED after
  PROBLEM_REPORTED, the page shows no button for it, and the documents contradict each
  other on it;
- a report that read INSPECTION writes over COMPLETED (the money stays released);
- a shipment that read WAITING_SHIPMENT writes SHIPPED over a delivered deal; delivered
  again, it can keep the deadline of the first delivery, which is too early for the second;
- the signed plan of a direct upload does not forbid overwriting (`save` does): an object
  put again under it while it is valid no longer matches the recorded hash, and nothing in
  the API compares the two again;
- an assistance inserted while an acceptance is committing stays open beside the agreement;
- a crash between the transactions of mark-delivered leaves the deal DELIVERED, with no
  deadline; the repeated call and confirm-receipt are refused, only a problem report
  moves it on;
- claims of two invitations, both read before either commits, bind one user and then
  another;
- a claim whose invitation is revoked between its read and its commit succeeds
  (docs/auth.md:52; with one call at a time `RevokedIsNeverClaimed` holds);
- a late claim sends a paid or completed deal back to WAITING_PAYMENT, although the
  table leads there from WAITING_COUNTERPARTY only;
- a revocation and its event are two statements with no transaction
  (docs/deal-state-machine.md:33);
- the claim itself moves the deal to WAITING_PAYMENT, where docs/deal-state-machine.md:16
  has it wait for an explicit acceptance; so the separate `accept` is reached only by
  rows older than that;
- the controller calls `mockPayment` without the actor, so the funding events are the
  SYSTEM's (docs/api.md:13);
- on a row without `creatorRole` the seller's accept passes and is stamped as the
  buyer's (docs/api.md:25); the page has no button for it;
- without the mock escrow the payment button is shown and always refused;
- after an agreement the dispute panel hides the reject button, while the server still
  takes a rejection; the form lets a partial refund without an amount through, which
  the server then refuses;
- a GET of the assistance of a deal that has none answers with an empty body, which the
  web proxy reports as 502; the panel takes it for none;
- a verification that read an old code consumes whatever code the phone has by then.

## 7. What is not modelled

Health and Prisma wiring (configuration and connections), migrations, the admin shell
(static), and of the web application the pages that render lists or post one form
(start page, deal creation, login, account): no state of the system. The legacy e-mail
registration and login, switched off in production by default, are one insert and one
read. The invitation methods of `deals.service.ts` that no controller calls. `status` and
`connect` of the notifications, which pass through to the remote and keep nothing. Time
zones, clock skew between instances, and coinciding random codes and tokens.

## 8. Running

    tlc -workers 2 -config deal_flow_races.cfg MCDealFlow
    tlapm DealFlowProofs.tla

Every `.cfg` names its module in the `runs` of `PROJECT.json`.
