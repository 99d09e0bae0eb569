# A7la app API: a TLA+ verification project

The repository is a NestJS server over Prisma 5.19 and MySQL: a marketplace with
customers, vendors and their branches, delivery men, wallets, loyalty points,
withdrawals, plans, one-time codes, sessions and a chat. All paths below are
relative to the repository (`src/...` stands for `src/src/...` in
`PROJECT.json`, whose paths start at the checkout).

Almost every operation is an HTTP handler that awaits several database calls.
One Node process interleaves all handlers at their awaits, several processes
may share the database, and MySQL runs at REPEATABLE READ. So the hard part of
this system is what happens *between* two statements: another request, a cron
job, a restart. The models keep exactly those points and abstract the data.

## 1. Inventory

| Component | State | Operations | Interacts with |
|---|---|---|---|
| Customer points, wallet, ledger (`_modules/transaction`, `_modules/wallet`, `business/_modules/fund`) | `Customer.earningPoints`, `Customer.wallet`; tables `transactions`, `loyalty_point`, `fund` | `convertPoints`, `addFund`, `FundService.create`; reports | settings (limit and price of points) |
| Store and delivery wallets, withdrawals (`business/_modules/withdraw`) | `wallet.currentBalance`, `wallet.pendingWithdraw`, `Withdraw.status` | `create`, `update` (the administrator's decision) | branches create a wallet |
| Delivery men (`user/_roles/deliveryman`) | `Delivery.verified`, `status`, `online` | `verifyDelivery`, profile updates | codes, wallets |
| Registration codes (`authentication/_modules/otp/guest-otp.service.ts`) | table `register_otps` | `generateNewNumberOTP`, `verifyNewPhoneAndReturnToken` | customers, stores, delivery men, logins, SMS |
| Account codes (`user-otp.service.ts`) | table `otps` | generate, verify, cron | none: its controllers are commented out |
| Plans and subscriptions (`business/_modules/plan`) | `Subscription`, `Store.planId` | `subscribe`, `renew`, midnight cron | stores (the store that subscribes, and its family's plan) |
| Sessions and tokens (`authentication/services`) | table `sessions` | logins, `logout`, `forgetPassword`, `resetPassword`, two crons, token strategy | users, chat (socket ids) |
| Chat: conversations (`chat/services/chat.service.ts`) | tables `conversation`, `user_conversation` | `createConversationWithDto`, `findConversationByOrderId` | users, orders (settled elsewhere) |
| Chat: messages (`chat.service.ts`, `chat.gatway.ts`) | table `message`, socket rooms | `createMessage`, `notifyOtherParticipants`, `findMessages` | conversations, presence |
| Presence (`connection.service.ts`, `ws.guard.ts`, the chat and location gateways) | `sessions.socketId`, `Delivery.online`, a map of sockets per gateway | connect, disconnect, the guard on every message | sessions, delivery men, messages |
| Stores and branches (`store/`) | `Store` rows of a main store and its branches | `createStore`, `createBranch`, `verifyStore`, `updateStore`, closed-flag and clean-up crons, favourites | codes, wallets, zones, vendors |
| Schedules, coupons (`store/_modules/schedule`, `storeCoupons`) | `StoreSchedule`; coupons and their uses | `createSchedule`, `isStoreClosed`, `storeCoupons` | stores |
| Users, roles, settings (`user/`, `authorization/`, `settings/`) | user tables, roles and permissions, settings rows | create/update/delete, uniqueness checks, providers at start-up | sessions |
| Zones, banks, modules, statistics, media, mail, SMS, push | rows, files | single statements, reads, I/O | – |

Behaviours that are hard, by component:

* **Customer money**: `convertPoints` writes absolute values computed from a read
  several awaits earlier, twice; `createTransaction` builds a balance on the last
  visible row; statements inside a `$transaction` callback use `this.prisma` and
  commit on their own; two `addFund` transactions deadlock on a customer row; any
  statement may fail. *Correct when*: points never go negative, no amount
  is counted twice, what is lost is lost only by a stale write, the ledger
  builds on committed rows only and effects keep their order.
* **Withdrawals**: the balance check is a snapshot read; a decision may be repeated
  and does not look at the previous status; `OR` with a null id selects the wallets
  of a whole class. *Correct when*: money moves between the two columns and nowhere
  else, and an overdraft needs a check that no longer held.
* **Registration codes**: three statements without a transaction, a counter, a
  refreshed date, an SMS. *Correct when*: the SMS limit holds under overlap, an
  accepted code is fresh and gone afterwards.
* **Plans**: reads, then a transaction whose last query is refused by Prisma for the
  only stores that reach it. *Correct when*: what `checkSubscribe` lets pass is stored
  (it is not: nothing ever is).
* **Accounts and sessions**: delete-then-create single session, a code used up before the
  status is written, a face login that never looks at the status. *Correct when*: a face
  login leaves no older session that it could have seen, access sessions belong to verified
  customers, and a customer without a code is explained by a call that was cut off.
* **Conversations**: find-then-create, in two statements for an order. *Correct when*:
  a second conversation of a pair needs an overlap, an empty one is about to be
  filled or was interrupted, an answer concerns the caller.
* **Presence**: handlers of one socket that overlap with its own disconnection, several
  sockets of one session and one user, socket ids that are never cleared, columns that
  survive a restart and maps that do not. *Correct when*: a notification goes to the
  account it is for, and every wrong flag or forgotten socket has a known cause.
* **Messages**: created as read, marked unread after the notification, marked read by an
  update that sees more than was returned. *Correct when*: only its receiver's fetch makes
  an unread message read, and one that was read and is unread again was being notified.
* **Stores**: multi-statement updates of a main store and its branches without a
  transaction, check-then-insert of names and schedules, overlapping crons. *Correct when*:
  copies differ, names and hours collide and flags are wrong only with a known cause.
* **Roles, users**: one statement of a transaction sent on another connection.

`PROJECT.json` lists every hazard at its line, with the properties that cover it or
the reason none does yet.

## 2. Modules

```
Passbook <--refines-- CustomerLedger <--extends-- ConversionPool
                          ^                            ^- MCConversionPool
                          |- MCCustomerLedger          '- CustomerLedgerProofs
WithdrawWallet <- MCWithdrawWallet, WithdrawWalletProofs
SumTheorems    <- CustomerLedgerProofs, WithdrawWalletProofs
RegisterOtp    <- MCRegisterOtp, RegisterOtpProofs
SessionControl <--refines-- Accounts <- MCAccounts, AccountsProofs
ChatPresence   <- MCChatPresence, ChatPresenceProofs
Conversations  <--extends-- ChatMessages --refines--> Mailbox
   ^- MCConversations          ^- MCChatMessages
                               '- ConversationsProofs
StoreFamilies  <- MCStoreFamilies, StoreFamiliesProofs
```

### CustomerLedger

A request is a process with a program counter `pc`; what it asks for (`req`) is
chosen in `Init`. One action is the code up to the next await that another request
can observe:

| Action | Code |
|---|---|
| `Arrive` | the controller, the setting and the limit (`transaction.service.ts:187-195`) |
| `ConvertRead`, `ConvertDeduct` | the read with the check, and the absolute update (`:196-220`) |
| `ConvertLoyalty`, `ReadLast`, `InsertRow`, `ConvertSettle` | `createTransactionAndLoyaltyPoint` and the `createTransaction` it calls (`:39-53`, `:267-299`); the first two commit on their own connection |
| `FundCreate` | `fund.create`, then `createTransaction` (`fund.service.ts:14-27`) |
| `ReadLast`, `InsertRow`, `AddFundCredit` | the transaction of `addFund` (`wallet.service.ts:13-38`) |
| `AddFundVictim`, `Fail` | MySQL's deadlock victim; a restart or a lost connection |

The setting `customerLoyaltyPoints` is stored with data type BOOLEAN, so the limit a
number of points is compared with is 0 or 1 (`Limit`). `now` is the millisecond
clock behind `createdAt`: rows of one millisecond tie and `findFirst` may return any
of them. `applied`, `stale` and `saw` are auxiliary: the requests whose change of the
customer is committed, the customers whose row was overwritten, and the rows a request's
`findFirst` could see. No action reads them. What was converted and credited are sums over
`applied` (`Converted`, `Credited`). `points` and `amount` of the bodies are any integers:
the DTOs ask for a number, not for a positive one.

### Passbook

The abstract specification of a customer's statement: entries are only added, each on the
balance of an entry of the same customer or on zero, and an entry that pays does so when
it appears. `Statement` in CustomerLedger maps to it: `book` is the committed part of the
table without dates, `paid` the `addFund` rows whose increment is in the wallet.
`ImplementsPassbook` is checked by the run `ledger` and proved (`LedgerIsPassbook`). It
covers the atomicity of `addFund` (theorem `AddFundIsAtomic`), which has no run of its own.

### ConversionPool

CustomerLedger with the connections its statements run on. `outer[r]` is the
`$transaction` that `createTransactionAndLoyaltyPoint` opens (`transaction.service.ts:289`)
and holds while the calls inside it, on `this.prisma`, ask the pool for more.

| Action | Code |
|---|---|
| `BeginOuter` | the start of that transaction, which needs a connection |
| `PoolStep` | a step of CustomerLedger; it needs a free connection unless the handler's own transaction holds one |
| `Starve` | `pool_timeout` of a statement or `maxWait` of a transaction: the call throws |
| `CloseOuter`, `UseClosed` | the transaction's `timeout`, after which its own statement throws |
| `Throw` | any other failure |

`PoolIsLedger` proves that every behaviour of it is one of CustomerLedger, so the safety
theorems hold with any pool.

### WithdrawWallet

`CanWithdraw` is the snapshot read of `create`, `CreateWithdraw` its updates up to
the commit (their row locks hide everything between them), `FailCreate` the
rollback. `UpdateWithdraw` is `update`, one action, since it reads only columns that
never change. `Selected` is the set of wallets that `OR: [{ storeId }, {
deliveryManId }]` matches when the withdrawal row holds null for the other id: every
wallet of the owner's class. `unchecked` and `irregular` are auxiliary.

Wallets of delivery men are rows that exist from the start or do not:
`verifyDelivery`, the only code that would create one, first runs
`findUnique({ ..., select: { Delivery: true } })` on model `Delivery`, which has no
such field (`prisma/schema/user.prisma:118-153`); Prisma refuses the query, and
nothing after it is reached. Nothing in this repository credits a wallet either (the
orders are settled elsewhere), so the balances are given by `Balances`.

### RegisterOtp

`GenRead`, `GenUpsert`, `GenSend` are the three awaits of `generateNewNumberOTP`,
`VerifyRead` and `VerifyDelete` the two of `verifyNewPhoneAndReturnToken`, `GenFail`
and `VerifyFail` end either between two of them (a restart, or two upserts that both
create the row and meet at the unique index). `VerifyAsk` is what comes before the first
of them: the cutoff is computed from `Date.now()` when the query is built, so a lookup that
has to wait accepts a code that is older than the window by then (`asked`: how long ago the
cutoff was computed). `AcceptedFresh` is about the age at the cutoff. `Tick` lets time pass
anywhere, as long as no lookup has waited for more than `Delay`. Times are kept as ages
which saturate one past `Window + Delay`, so the clock needs no other bound.
`generatedTimes` starts at its default 0 on creation, so three SMS are sent for a row
before `TOO_MANY`.

### Accounts

A call is a request; its `pc` names the await it is at. `kind` is the route: `register`,
`login`, `face`, `forget`, `verify`, `enable`, `logout`. A session is named by the call that
made it, and `made` is its position among all of them. RegisterOtp models the codes
themselves; here a phone has one or none (`coded`).

| Action | Code |
|---|---|
| `Register`, `StoreCode` | `customer.controller.ts`: the customer is created, then the code |
| `Verify`, `VerifyDelete`, `VerifyActivate` | the code is looked for and deleted, then the status of the id in the body written (`base.authentication.service.ts`) |
| `Login`, `ForgetPassword`, `LoginWithFaceId`, `FaceClear`, `CreateSession`, `ForgetSend` | the checks, `deleteMany` of a face login, the row in `sessions`, and the SMS |
| `EnableFaceId`, `EnableWrite`, `Logout`, `LogoutDelete` | a session's token is checked by the strategy (`Authorised`), then the write |
| `DeleteExpired`, `Fail` | the two crons of `TokenService`; a restart or a lost connection |

**SessionControl** is what access control promises a customer: who is verified stays so, a
session is granted to a verified account and is the youngest, and sessions end, for good, by
their own customer or by age. `Control` maps Accounts to it: `VerifiedAccounts`, the access
sessions in the table with their accounts, and the position each was made at.

A phone in `Shared` is also used by a store or a courier, whose verification may use up the
code of a customer. `saw` is auxiliary: who was running when a call began.

### StoreFamilies

`store` holds the rows of main stores and branches. `name` stands for the columns that
`updateStore` copies to the family and nothing else edits. `call` is chosen in `Init`; one
action is a database call, or a transaction up to its commit where its rows are not visible
before.

| Action | Code |
|---|---|
| `CreateCheck`, `CreateInsert`, `CreateCommit` | `validateUnique`; the transaction that inserts a main store (its id is taken at once, `lastId`) and its first branch |
| `BranchRead`, `BranchCommit` | `createBranch`: the copy of what `FindMainStore` read |
| `UpdateCheck`, `UpdateRow`, `UpdateRead`, `UpdateSpread` | `validateUnique` and the three statements of `updateStore`; `Targets` is the filter with `mainStoreId \| id` |
| `DeleteStore`, `DeleteBranch`, `Purge` | soft deletes; `deleteNotVerifiedStores`, which concerns every store as `verified` is never set |
| `ScheduleCheck`, `ScheduleInsert`, `Unschedule` | `createSchedule`: the overlap check, then the insert |
| `SubscribeRead`, `SubscribeCommit` | `checkSubscribe`, then the transaction of `subscribe`, which Prisma refuses for a null id |
| `CloseRead`, `CloseWrite`, `CloseEnd` | `checkClosedStores`: one read, then a statement per branch |
| `FailCall` | a restart or a failed statement |

`PATCH /store/:id` takes any id: an update has the store it is about (`id`) and that of the
vendor who calls (`from`, 0 for an administrator). `validateUnique` accepts the name of the
main store of `from` (`Own`), so a vendor can give another family the own name (`Foreign`).

`crossed`, `repeated`, `apart` and `toggled` are auxiliary. They mark what the properties
except: calls that overlapped, rows whose name another family may have, rows given a status
that part of the family did not get, branches closed after a pass read their flag. `last` is
auxiliary too: the turn of `checkClosedStores` that last wrote the flag of a row.

### ChatPresence

A socket has two handlers that may be under way, `pc["connect"][s]` and
`pc["message"][s]`, and `disc[s]` for `handleDisconnect`. The framework does not await
`handleConnection`, so all three interleave.

| Action | Code |
|---|---|
| `Open`, `Message`, `Close` | the client; the handlers behind the guard of a message change none of this state |
| `GuardRead`, `GuardRefuse`, `GuardWrite`, `GuardIdentify`, `GuardFail` | `WsJwtGuard.canActivate` (`ws.guard.ts:8-45`): the session is read, its `socketId` written when it differs, then `client.user` set |
| `AddClient`, `Register`, `AddClientFail` | `addClient` (`connection.service.ts:13-30`) and the error path of `handleConnection` |
| `Disconnect` (in `Close` and a refusal), `RemoveClient`, `Unregister`, `RemoveFail` | `removeClient` (`:32-58`); it reads `client.user` before its first await, and throws when it is not set by then |
| `DeleteSession`, `Expire`, `Restart` | logout and clean-up, the token's lifetime, the process |

`Reached(a)` is `getClients`: which sockets a notification of account `a` may go to.
`ChatModule` and `DeliveryModule` each provide a `ConnectionService`, so there are two
maps; `registered` is their union and `Reached` keeps the chat's part. A message of
the location socket takes the session's `socketId` from the chat socket. The guard of
one message per socket at a time is modelled. `late` is auxiliary. `Settled(s)` says that the
handlers of a socket have ended without an error.

### Conversations

`PostFind`, `PostCreate` are `createConversationWithDto` (a nested create is one
transaction); `OrderFind`, `OrderCreate`, `OrderFill` are `findConversationByOrderId`,
whose conversation and members are two statements. `OrderMatches` is the `where` as it
stands: both alternatives ask for the caller with role CUSTOMER, so a courier's lookup
never finds the conversation it made and makes another one at every call.
`DuplicateOnlyFromOverlap` therefore excepts couriers (`FindsItsOwn`). A conversation is
named by the request that makes it. `seen` is auxiliary.

### ChatMessages

Extends Conversations with messages and fetches. `CreateMessage` inserts a message as read;
`LookFor` looks for one participant's socket, which is free to be in the room or not (that
is ChatPresence's state), and `MarkMessageAsUnRead` follows if it is not; `FindMessages`
reads, `MarkRead` updates whatever is there by then. `CutOff` is a restart between them.
`ChatNext` is a step of either module; `ConversationsUnaffected` proves that messages leave
the conversations alone.

**Mailbox** is what the chat promises its users: the members of an open conversation are
fixed, a message keeps its conversation and receiver, becomes unread only while it is being
delivered and read only when its receiver asked for its conversation. `Box` maps ChatMessages
to it: a conversation is open once it has members, so the gap between an order's two
statements is not seen, and `Delivering` are the messages whose sender still notifies.

### Abstractions common to all

* Ids, phones and codes are model values or members of small sets. Decimal amounts
  are integers; the columns the models keep are never near their range.
* An undefined filter is dropped by Prisma and a null one means IS NULL; both are
  resolved in the models (`Selected`).
* Handlers of one process interleave only at awaits, so grouping the code between two
  awaits into an action loses no behaviour; several processes add none where no
  handler keeps shared state in memory, which is so in all modules but ChatPresence
  (there, the maps of one process).

## 3. Runs

| Run | Question | Instance and why it is enough |
|---|---|---|
| `ledger` | all safety properties of CustomerLedger, when its balances are the sums they stand for, and that it implements Passbook | three requests of any kind, with points of -1, 1 or 2 and funds of -1 or 2, one amount negative at a time (to see what a sign changes, one is enough; `fund`, which only inserts rows, keeps 2): a stale write needs two, and a third can fall between the two writes of a conversion, or hold the lock another waits for |
| `ledger_live` | is every request answered? | ConversionPool with three requests and three connections (Prisma's default is two per CPU and one more, so three is the smallest pool): three conversions hold all of them when each asks for another |
| `withdraw` | all safety properties of WithdrawWallet | three withdrawals, two owners of each class, two decisions: a decision repeated, a decision that touches another wallet, a check overtaken by two others |
| `withdraw_overdraw` | the comment `// !!!!! check balance` of `create` | one store, two withdrawals; violated (see below) |
| `otp` | the SMS limit, what a throttled request leaves behind, and whether what is accepted is fresh and used up | four requests for one phone, one more than the limit, or two for two roles of it and two codes; two verifications that overlap (one next to a fourth request); a window of one tick and a lookup that is one tick late |
| `presence` | what can a wrong `online` flag or a leaked socket come from, and who is notified? | a chat and a location socket of one session, or two chat sockets of one user under two roles: two sockets are enough to take a session, a flag or a map entry from each other, each with its own disconnection |
| `presence_offline` | the documented online status | as `presence`; violated (see below) |
| `conversations` | where second and empty conversations come from, who makes a message read, and that the two modules implement Mailbox | two requests of any kind by three accounts of two users, an order with and one without a courier; one message with up to two participants, two fetches around its notification |
| `conversations_posts` | the comment on creating a conversation | Conversations alone, three POSTs of any accounts, of which two suffice; violated (see below) |
| `stores` | when copies in a family differ, names or hours collide, a closed branch is shown open | two families with ids for which `1 \| 2 = 3` is the other one, and room for one new family or two branches; three calls of any kind, or four about names and the statuses of branches: a copy that another call overtakes, and a third or fourth that meets what they left; updates by an administrator, of the own store, and by a vendor of the other family's |
| `subscribe` | the comment on `checkSubscribe` | as `stores`; violated (see below) |
| `accounts` | what sessions and codes an overlap or a failure leaves, and that Accounts implements SessionControl | three requests of two customers who may be new, to be verified or verified with a device; both phones are used by a store as well; one call cut off |

`CHECK_DEADLOCK FALSE` is given where the instance really ends: the `withdraw` runs (all
requests may have ended and no decision is left within the bound), the `conversations`,
`stores`, `subscribe` and `accounts` runs (all requests and calls may have ended), and the
`presence` runs (a socket id is used once, so the sockets of the instance run out).
Constraints: `FewAmounts` (`ledger`), `FewCalls` (`otp`), `TwoSockets` (`presence`), `Bounded` (`stores`)
and `Bound` (`accounts`) state the numbers of the table.

**Fairness.** Only `ledger_live` assumes any: `WF_poolVars(Resume(r))` for every request.
The event loop resumes every handler whose statement has returned, InnoDB grants a free
lock, or picks a victim, at once, and a wait for a connection ends with one or by
`pool_timeout` or `maxWait`, which Prisma always sets. `Arrive`, `Throw` and `CloseOuter`
are not fair: nobody has to ask, nothing has to fail, and a transaction may be in time.
Without `Starve` the property is false (its mutant leaves the timeout of statements out):
three conversions then wait for each other for ever.

**Disagreements with the code.** `withdraw_overdraw`: the comment in
`withdraw.service.ts:26` announces a balance check and `canWithdraw` refuses a larger
amount, but the check is not repeated by the decrement, so two withdrawals that both
pass it before either decrements make `currentBalance` negative.
`OverdrawnOnlyUnchecked` says when exactly this can happen. `presence_offline`:
`swagger.config.ts:187` documents that the online status of users is tracked, but one
flag stands for all sockets of a delivery man, and the end of any of them clears it: all
handlers have ended without an error, one socket is registered, and the courier is offline.
`OfflineIsExplained` says that nothing else does. `conversations_posts`: the comment in
`chat.service.ts:144` creates a conversation "if it doesn't exist", but two requests
that look before either creates make two; `DuplicateOnlyFromOverlap` says that only
they do. `subscribe`: `plan.helper.service.ts:30` checks "if the user can subscribe", but a
call that passes is always refused: the store it is about is a main store, and
`{ id: store.mainStoreId }` with null is not a query Prisma runs
(`plan.service.ts:176`); `NothingSubscribed` says that no subscription is ever stored.

Every property of a passing run has a mutant, a plausible bug of one mapped
definition (they stand in the modules before the definition they replace), which the
run refutes.

## 4. Theorems

The proofs hold for every value of the constants under the named assumptions of the
modules (amounts are integers, withdrawals are at least 1, initial balances are
naturals, the two classes of owners are disjoint, `DEFAULT_OTP` leaves one code, the
table of stores at the start is one the program can leave: `ExistingAssumption`). The
runs of RegisterOtp draw random codes; the theorems cover `DEFAULT_OTP` as well.

* **SumTheorems**: what the library's sum of a function over a set is when the set is empty,
  or gains or loses an element. The provers cannot use an induction theorem that takes an
  operator, so the induction goes over the subsets of a finite set as elements of one
  well-founded relation (`Minimal`): there is a table of sums for each finite set
  (`SumsExist`), any two agree (`SumsAgree`), and the library's fold is one (`SumIsSums`).
  From there `SumAdd`, `SumRemove` and `SumSame` are all that the other modules cite. They are
  lemmas for those, and say nothing of the code by themselves.
* **CustomerLedgerProofs**: type correctness, `PointsNeverNegative`, `ExactUnlessStale`,
  `NothingCountedTwice`, `BalancesAddUp`, `EffectsInOrder`, `ImplementsPassbook`, for amounts
  of any sign. Points: what a conversion still holds in `rd` was at
  least its amount when it was read, and both writes use that value, so the invariant adds
  `rd[r].points >= amount` for conversions past the read. Exactness: as long as nothing was
  stale, both columns equal the start plus the sums over `applied`; a step adds its request
  to `applied` once (`AppliedIInv`: nobody is in it before its write), which adds its amount
  to the sum, over finitely many requests without assuming `Requests` finite: only those that
  have begun count; the step of a stale write sets the flag in the same action. Once each:
  both columns, and what every conversion holds to write next (`Promised`), are the start and
  some of the amounts in `applied` (`CountedIInv`); a conversion is not among them before its
  first write, which adds its amount to the set and to the sum (`EntersOnce`). Balances: what a
  request saw is committed, of its customer, and stays so (`SawIInv`), so if those rows were
  made one after the other, the last of them has seen all the others; its balance is the sum
  over them, and the new row adds its own amount (`BaseIsSum`). For Passbook every action
  either leaves the mapped state alone or is one `Enter`, on the balance of the committed row
  its `base` comes from; a transaction's row is mapped only at its commit, with the
  increment. `PoolIsLedger`: each step of ConversionPool is a step or a stutter of
  CustomerLedger. `RequestsRunOut`: each step of a handler lowers what is `Left` of it and
  nothing raises it, so no handler repeats itself or is set back by others; that one that
  waits can always go on at last is left to the run.
* **WithdrawWalletProofs**: type correctness, `TotalConserved` (every action adds to
  one column what it takes from the other), `OverdrawnOnlyUnchecked` (strengthened by:
  a request past the check has seen at least its amount), `PendingIsSumOfPending`
  (`PendingInvariant`: a request that has created no row counts for nothing, and one that
  gets pending or leaves it moves the sum and the column by its amount).
* **RegisterOtpProofs**: all its properties. The limit rests on `LifeInvariant` and
  `Decided`: counts of one row's life are distinct, so at most three of them are below
  the limit, and a count above it has predecessors for each smaller value; freshness on
  `FreshInvariant`: `createdAt` of a row is never younger than its last write, and a cutoff
  is taken off both ages alike; use-up
  on `FoundInvariant`: what a verification found was written for its phone, before.
* **ChatPresenceProofs**: all its properties. `KnownInvariant` ties a session's
  `socketId` to a socket that presented its token, from the time any of its sockets is
  known, and registration to `client.user`; with it `ReachableUnlessTaken` is a short
  argument and a closed socket that is registered cannot be one `removeClient` throws
  for. The online flag needs a witness for which `client.user` is set
  (`OnlineInvariant`), the offline one the handlers that have set the flag and not yet
  registered (`OfflineInvariant`).
* **ConversationsProofs**: all its properties. `Progress` says what a request's counter
  tells of its conversation, `Looked` that a request about to create saw no
  conversation with the members it wants; members are written once and after
  everything that has seen the conversation (`SeenStays`).
  Then for ChatMessages: `ConversationsUnaffected` (a step of the composition is a step or
  a stutter of Conversations, so its theorems carry over), type correctness and
  `UnreadUntilFetched`, strengthened by: a fetch has noted as late what was being notified
  (`LateKnown`). `ChatIsMailbox`: members are written where there were none (`Progress`),
  which is an `Open`; of a message's notifications only the last ends its delivery.
* **AccountsProofs**: all its properties. Access sessions: a call that may still create one
  has seen a verified customer, nobody is ever un-verified, and a device belongs to a
  verified customer (`Verified`). Lone sessions: what a face login has not deleted was made
  by a call it overlaps (`Cleared`). Codes: each step that uses one up leaves its call in
  one of the states of `Uncoded`. `SessionsControlled`: a logout deletes a session of its own
  account (`LogoutOwn`), a cron those up to an age, a new session is above the clock.
* **StoreFamiliesProofs**: all its properties, for any table, any number of calls and
  whatever `|` is. `Rooted` is the tree of two levels: ids that calls hold are never above
  the counter, so no new branch gets one of them, a main store stays one, and `subscribe`
  always fails. Schedules: calls between check and insert are both marked (`Overlapped`),
  and an unmarked one has checked every row but those of marked calls (`Cleared`). Names and
  statuses: calls that write and overlap are all marked (`Met`), an inserted and uncommitted
  id is nobody else's (`Reserved`), branches are newer than their main store and of its
  family (`Tree`), and what an unmarked call has read or checked holds until it writes
  (`Kept`), since the steps of everything else only take rows away (`Fading`); a vendor's
  update of another family's store is marked when its name is found. Closed flags:
  the branch of a turn has the main store it was read with or that store is gone (`Turns`),
  so a turn writes the rows of the branch it read or none; one that opens a row saw hours and
  no flag of its own branch, which for the row itself would mean that its flag changed since.

Model-checked only: `EveryRequestEnds`. It is a liveness property under fairness, and the
provers have no rule for ENABLED; `RequestsRunOut` is the part of it that needs none.

## 5. Not modelled

* **Without a route or a caller**: account codes (table `otps`), `increasePoint`,
  `StoreService.verifyStore`, `createConversation`. `verifyDelivery` has a route, but its
  first query is refused (see WithdrawWallet).
* **Without an effect**: `renew` and the midnight cron of plans read subscriptions, of which
  `NothingSubscribed` says there are none; `storeCoupons` reads coupons and their uses, which
  nothing in this repository writes; statistics and reports.
* **One statement each**: zones, banks, notification setup, modules, the plan table itself
  (`PlanService.delete` deletes from `zone` instead, `plan.service.ts:84`), favourites (a
  second insert meets the unique index and throws), `updateBranch` (one transaction, and
  none of the columns that StoreFamilies keeps), the profile updates of all roles, the soft
  deletion of a user, `resetPassword` (it writes a password, on which no modelled step
  depends).
* **Roles and permissions**: `RoleService.update` deletes the old permissions on another
  connection than the transaction that inserts the new ones (`role.service.ts:62`). The same
  mistake, with its effect, is modelled in CustomerLedger.
* **The logins of vendors, administrators and couriers** differ from the customer's in the
  status they ask for; a verification writes PENDING for them, also to one that was ACTIVE
  (`base.authentication.service.ts:75`).
* **I/O and wiring**: media, mail, SMS and push; validation, decorators, translation and
  responses, which keep no state.

## 6. What could come next

1. **RoleUpdate**: creation, update and deletion of a role with two connections, and the
   guard that reads its permissions.
2. A third request in the composed chat (today's bound is two, for the size of the product
   with messages and fetches), and ChatMessages over ChatPresence's rooms instead of a free
   choice.
3. The profile updates of users with their uniqueness checks, as `validateUnique` is in
   StoreFamilies, and the logins of the other roles in Accounts.
4. A one-slot code store refined by RegisterOtp, and Accounts over it instead of `coded`.
5. Abstract specifications of the families of StoreFamilies and of ChatPresence's flags, as
   SessionControl and Mailbox are for their modules.
