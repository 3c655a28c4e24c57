# TLA+ models of the Temakuri back end

Temakuri is a card game for two to six players. The back end is one NestJS process:
an HTTP API, a WebSocket gateway, a PostgreSQL database behind Prisma, and the games
themselves in the memory of the process. This directory models the parts whose
behaviour depends on the order of events: the rules of a game, the gateway that drives
it, the room around it, the queues before it, and the money, goods and points that several
handlers write at once. File names without a directory are under
`src/src/`; `GE` is `game/engine/GameEngine.ts`, `NG` `notifications/notifications.gateway.ts`,
`RS` `rooms/rooms.service.ts`, `MS` and `MG` the service and the gateway of `matchmaking/`.

## 1. Inventory

| Component | State | Operations | Modelled in |
|---|---|---|---|
| Game engine (`game/engine/`) | hands, piles, plates, market, tokens, turn index, phase | one method per move, `startRound`, `removePlayerFromGame`, `recoverStuckTurn`, `computeBotMove` | `Rules`, `GameEngine`, `TokenGame`, `AutoPlay` |
| Running games in the gateway (`NG`) | one turn timer, one round gate, pending bot moves and destructions per room | handlers of moves, timer callbacks, gate, departures, reset | `RoomTurns` |
| Rooms (`rooms/`, `NG`) | `Room`, `RoomPlayer`, `User`, `GameResult` rows; confirmations, sockets, guest timers, countdowns | create, join, leave, bots, ready, start, finish, reset, sweeps, restart | `Lobby`, `LobbyRestart` |
| Matchmaking (`matchmaking/`, `NG`) | two queues, reservations, pending matches | join, leave, form, confirm, decline, complete, cancel | `Matchmaking` |
| Payments (`payments/`) | `DiamondTransaction`, `PremiumSubscription`, `User.isPremium` and its date; what the provider knows | checkouts, cancellation, webhooks, the nightly expiry | `Payments`, `Economy` |
| Shop, pricing (`shop/`) | coins, diamonds, inventory; price overrides and their cache | purchases, utilities, price changes | `Shop`, `Economy`, `Ranking` |
| Coupons (`coupons/`) | a coupon, its uses and redemptions | validation, redemption, activation, removal | `Payments` |
| Admin (`admin/`) | rows of others | credit of diamonds, edit of a user's progress and items | `Shop`, `Ranking` |
| Ranked progress (`RS`, `NG`, `common/`) | points, streaks, warnings, suspension, experience | end of a game, abandonment, XP and rank curves | `Ranking` |
| Reviews (`reviews/`) | reactions and their counters | review, react | not modelled |
| Auth, profile, news, changelog, logs | single rows | reads and single-row updates, seeds, an append-only log | not modelled: no protocol of their own |
| Application shell | none | wiring, HTTP set-up, database client | not modelled |

**How they interact.** A client's message reaches a handler of `NG` or `MG`. A handler runs
to its first `await` alone; at each `await` any other handler, timer or database answer
may come first. `NG` calls the engine synchronously (`roomManager.get(code)`), turns the
events it returns into messages, timers and bot moves, and calls `RS` for what is
persisted. `MG` forms a match, asks `RS` for a room and emits `matchmaking.found`, on which
`NG` seats the players and waits for their confirmations; a match called off comes back to
`MG` as `matchmaking.requeue`. The engine, the timers, the confirmations and the queues
are only in memory; the rooms, members and accounts are only in the database, and nothing
but the order of the handlers' calls keeps the two in step. The row of a user is where the
rest meets: purchases, utilities, webhooks, the nightly cron, administrators, the end of a
game and a disconnection from one all read it and write it later, each in a chain of awaited
calls of its own. The payment provider calls the webhooks, and is asked by them.

**What is hard, and what each part must keep true.**

* *Engine.* One object with some twenty-five fields, ten handlers, four modes. The turn
  is an index into a list that is recomputed at every call and shrinks when players
  empty their hands, lose or abandon. Correct means: no card is lost or duplicated, the
  turn is with somebody who may move, a round always finds one loser, and a game in
  which everybody is away still ends.
* *Running games.* A turn timer armed for one player fires after the turn has moved; the
  start of the next round is held back by a gate and replayed into a game that has gone
  on or ended; bots move a second after it was decided. Correct means: somebody is
  always due to move the game on, and nothing outlives the game it was made for.
* *Rooms.* Handlers are chains of awaited database calls that act on what was read
  several calls before: seats, hosts, confirmations, guests that vanish, two countdowns
  at once. Correct means: no seat twice, no confirmation used twice, no account or
  room left behind.
* *Matchmaking.* Users leave a queue before the room of their match exists, several
  operations put them back, and cancellations race each other. Correct means: nobody
  waits twice, no reservation leaks, every match starts or is called off.

* *Payments.* The provider repeats and reorders its notifications, the handler's check for an
  earlier one comes before the transaction, errors are answered with 200, and premium is a
  flag and a date that five handlers write. Correct means: who paid is credited, and once;
  premium that is no longer paid ends.
* *Shop, coupons, administrators.* A balance, a list of items, a price or a number of uses is
  read, compared, and used some awaits later. Correct means: the balance and its ledger
  agree, what was paid for is owned, and requests that do not overlap are exact.
* *Ranked progress.* Two games of one user may end together, and a penalty may fall between.
  Correct means: every recorded result counts, as if they had ended one after the other.
* *Restart.* All that is in memory is gone at any step, and handlers are cut short. Correct means:
  lost games end, guests are freed, and a payment is still credited once.

The full list of hazards, each at its line, is `hazards` in PROJECT.json.

## 2. Modules and their correspondence with the code

`map` in PROJECT.json gives the lines of every definition; this section gives the
abstractions.

**Rules** (`game/engine/rules.ts`, `deck.ts`): adjacency, same value, same category, sabor,
`beatsPlay` and `validatePlayIndices` as operators on hands (sequences of values) and sets
of indices. Of a hand the code takes a list of indices but refuses gaps and repetitions (each
index, in order, is one more than the last), so a set says the same. Of the plates it refuses neither: see `PlayCards`.

**GameEngine** (`GE`, `deck.ts`): one action per method, named after it. A player is a seat,
a card is its value, an ordered pile is a bag when only its front is drawn after a
shuffle, so that shuffling is a choice of cards and not of orders. `Deals` is
`dealCards` with every shuffle, which includes whatever `handBias` sorts. A method that calls another
(`resolveRoundEnd`, `resolveWipe`, `advanceTurn`, `startRound`) is an action that contains
the operator of the other: the cascade play, wipe, round end, next deal is one step,
as in the code. `turnTimer`, statistics and display fields are left out. The branches
for a round with nobody left (345-349, 699-701, 1080-1081) are not written: that they
are dead is the theorem `RoundNeverEmpties`. `PlayCards` keeps the difference between what a play
lists and what it takes: `applyPlayCards` checks the range of each plate index and not that they
differ, so a plate that is listed twice enters the pile twice and leaves the plates once.
`PlateLists` are the lists a play may send (`MaxPlateIndices` bounds their length), and `copied` is a
history of the cards that came into being that way since the last deal.

**AutoPlay** (`GE` 1087-1150, `NG` 1380-1452): `computeBotMove`, and what the turn timer plays for
an absent player. Its `FairSpec` is the fairness of a game: only the timers are fair.

**TokenGame**: the abstract game, what a game promises about tokens whatever is played: a
round costs one player who was still in it one token, the first without one is the
only loser, a finished game never changes. `EngineProps!Abstract` instantiates it with a
refinement mapping, and `ImplementsTokenGame` states that the engine implements it.

**EngineTurns** composes the engine with the gateway: it instantiates `RoomTurns` over the engine's
variables, and `GatewaySeesEngine` states that every step of the detailed engine has one of
the outcomes that `RoomTurns` lets the gateway act upon. So the abstract game of `RoomTurns`
is not an assumption but a checked abstraction of `GameEngine`.

**EngineProps**: the engine's properties.

**RoomTurns** (`NG`): one room with its engine abstracted to what the gateway reads of it
(`turn`, `picking`, `playing`, `inRound`, `over`), and `timer`, `gate`, `botMoves`,
`destroyers`. `MoveOutcomes` and `LeaveOutcomes` are what the engine's handlers can make of
that state. A handler is one step, since its awaits are calls that do not touch
the engine. Delays appear as guards where the code's constants order them: a gate
(12 s) ends before a turn timer armed at the same time (20.5 s or more), a bot moves (0.7 to
2 s) before a timer of its turn. `applyMarketSwap`, which ends no turn, and the
administrator's deletion of a room are left out. That `markFinished` is called at the end of a
game is in `Lobby`.

**Lobby** (`RS`, `NG`, `ready-state.store.ts`, `room-manager.ts`, `prisma/schema.prisma`): the life
of one room. A step runs between two awaits; what a handler has read and still has
to use is kept in `req` (requests), `gone` (clean-ups of `handleDisconnect`), `forced`
(removal of guests), `start` (countdowns) and `sweep` (the hourly clean-up). So `JoinRead`/`JoinWrite`,
`AddBotRead`/`AddBotWrite`, `GoneRead` ... `GoneClose`, and
`StartGame`, `CountdownOver`, `CreateEngine`, `MarkStarted` for a start. The transaction of
`leaveRoom` is READ COMMITTED: `LeaveRead` opens it, `LeaveReread` is its re-read of the members, which
does not see what another open transaction has deleted, and `LeaveWrite` decides and commits.
A connection is two steps, since `handleConnection` awaits the token and the account: `Connect`
makes a socket `opening`, `Register` adds it to `userSockets`. `CloseEarly` closes it in between: nobody
takes notice (`late`), and when it is registered all the same, nothing removes it any more (`ghosts`), so
the server takes its user for connected for good.
`cleanupStaleRooms` is `SweepRead`, then `SweepEmpty`, one `deleteMany` of all empty rooms, then
`SweepUsers`; `SweepFinished` is the one for finished rooms. The other rooms are one bit: `stuck` says that
another empty room has a result of somebody with an account, which makes the foreign key refuse the whole
`deleteMany`, whose error is swallowed; `OtherRoom` makes and removes such a room at any moment.
Foreign keys are kept: a room with results of registered players cannot be deleted.
Merged, because the steps between them touch nothing another step reads: the account and
host checks of a join with its insert, the user and the row of a bot, the update, the rewards and
the removal of bots in `markFinished`, the read and the write of `forceDeleteGuest`,
the end of a connection with the cancellation of the guest's timer. Left out: passwords and
private rooms, unlocked modes, rewards and ranked points (`Ranking`), rooms made by matchmaking
(which `Matchmaking` has), the paths on which a finished game is not
recorded (`RoomTurns` has them). A user has one socket, one request and one clean-up at a
time. `Quiet` stands for the hours that `cleanupStaleRooms` asks a room to be
old. `up` becomes false where an exception in a `setTimeout` callback ends the process.

**LobbyRestart** (`NG` `afterInit`, `RS` 29): `Lobby` on a server that stops at any step and starts
again. `Restart` empties every variable that the code keeps in memory, cuts every chain short
and rolls open transactions back; `Sweep` is the answer of
`markOrphanInProgressAsFinished`, which comes after the first new requests may have begun.

**Matchmaking** (`MS`, `MG`, `NG`): queues and reservations, which change within one turn
of the event loop, and matches that go through stages, one per awaited call: `forming`
(its room is being created), `joining`, `pending` (its clock runs), `completing`,
`countdown`, and in the end `started`, `dropped` or `forgotten`. Ranked points are abstracted: any group of the right
size may be close enough. Waiting times are abstracted: a user alone in the quick queue may
have waited 30 s at any poll. The room of a match is a public room like any other: whoever knows its code
may join it (`JoinRoom`), leave it (`LeaveRoom`), say ready in it (`Confirm`) and, as its host, reset it
(`ResetRoom`), players of the match or not. `Complete` counts all humans of the room, as the
code does, and removes those who have not confirmed; if the room ends with the last of those who have an account,
it is closed under the guests that are left (`Leavings`). `Forgotten` is the answer of the lookup in
`completeMatchmakingMatch` that fails, or that finds the room empty or no longer WAITING, as a host
who starts the game early makes it: the match is deleted and nobody is put
back. `ranked` is what the lookup of the room told `handleMatchmakingFound`; when it fails a
ranked match is treated as a quick one. A disconnection calls off every pending ranked match of the user, in one
step (`CalledOff`, `Backs`). Who is a guest is not named; guests matter only in that the room may
close. The lock of `tryMatch` is not
modelled: the function has no `await`, so it is never contended. Every `splice` and `filter` of a queue is
`Only`; the loop of `handleRequeue` over `joinQueue` is one `Enqueued` of a list, since the players of a
match are different users.

**Account** (`schema.prisma`): what the economy shares: the balances of one user, the sum of the
diamond ledger, and the requests under way. A request is a chain of awaited calls; `req[i]` keeps
what it has read and will still use, and between two of its steps any other may run. An array
given to `$transaction` is one step, and increments in it apply to the balance there is by then. All
numbers are small; amounts are data, only their comparison and their sum matter.

**Shop** (`shop.service.ts`, `pricing.service.ts`, `admin.service.ts`): a purchase warms the
price cache (`Request`, `Warm`), reads the inventory and looks the price up
(`Look`), reads the balance (`Check`) and pays (`PayCoins`, `PayDiamonds`, `PayPack`). Avatars,
modes and themes are items that differ in currency. `SetOverride` and `Invalidate` are the two
steps of a price change; a slow load can fill the cache after the invalidation. `AdminCredit`
and `EditUser`, `EditRead`, `EditWrite` are `creditDiamonds` and `updateUserProgression`.

**Payments** (`payments.service.ts`, `premium.service.ts`, `webhooks.controller.ts`,
`coupons.service.ts`): one action per awaited call of a checkout, a cancellation and a webhook.
The provider is external, modelled from how the code uses it: orders, subscriptions and
monthly charges change state on their own, every change is notified at least once, in any order and
perhaps again (`due`, `NotifyAgain`), until it is answered with 200. A notification carries an
id; its handler fetches the state, which may be older than the next step of the handler.
`lost` is a history of the approved payments that were answered with 200 and dropped. Left
out: amounts and discounts in money, signatures (a forged request is refused before
anything is read), a coupon's dates and scope. The two updates of the cron are actions of
their own, since they touch different rows.

**Economy** composes `Shop` and `Payments` over one `Account` and adds `Crash`: the requests and the
price cache are gone, and a notification that had no answer is sent again.

**Ledger**: the abstract specification of the diamonds: a bill is approved, then entered at most
once with its worth; everything else is a sale at a price of the shop or a grant; balance and
books change together. `EconomyProps!Abstract` is the refinement mapping (a bill is credited when its
row exists), `ImplementsLedger` the refinement.

**Ranking** (`RS` `markFinished`, `NG` `applyRankedAbandonment`, `shop.service.ts` `useUtility`,
`pds.utils.ts`, `xp.utils.ts`): the row of one user in ranked games. The curves are operators with the
code's own numbers, for two players, which is what a ranked room seats. The transaction of a
result upserts `UserStats` before it reads the user, so results of one user wait for
each other (`lock`); a penalty reads the user without that. A room may be reset and played in again: its
second result finds the first (`FinishSkips`) and gives nothing, unless the first is still to be recorded
(`FinishGoesOn`). The level and the suspension are asked of who enters a room (`Enter`), not of who
plays in it again (`Start`). An administrator sets any of points, experience, level and warnings on their own
(`AdminEdit`, `Edited`), so that the level need not be that of the experience. `serial` is a history: the row,
had every write been made alone. The first statement of a result, which marks the room, belongs to `Lobby`.

**LobbyProps**, **TurnsProps**, **MatchProps**, **EconomyProps**, **RankingProps**: the properties.
**EngineLemmas**, **GameProofs**, **CardProofs**, **TurnsProofs**, **LobbyProofs**, **MatchProofs**,
**EconomyProofs**, **RankingProofs**: the theorems and their proofs (section 4).
**MCEngine**, **MCEconomy**, **MCRanking**: values of constants and symmetry for TLC.

## 3. Runs

Every run finishes in less than four minutes on two cores.

| Run | What it shows | Bounds |
|---|---|---|
| `engine_rounds` | turn and offers with players who can use them, bots play their best, the loser opens the next round, every game ends | 2 and 3 players, 2 values of 3 copies, hands of 1 card, 2 tokens, traditional mode, nobody abandons, no plate listed twice |
| `engine_leave` | two players stay in a round that goes on; the cards are all there, but for what repeated plates add; sabor and duel passes agree with pile and plates | 2 and 4 players of whom one may abandon, 1 token, up to 2 plate indices |
| `engine_tokens` | only repeated plates duplicate a card; the engine implements `TokenGame`; the gateway's abstraction of it is right | 3 players, RODIZIO and MERCADO, 2 tokens, one abandon, up to 2 plate indices |
| `turns` | somebody is always due to move the game on, the gate is released, nothing outlives a game | 3 humans, a bot, 2 games, one departure |
| `lobby` | seats, confirmations, guests and empty rooms | 2 people with accounts, a guest, a bot, 2 places, 2 countdowns, 4 requests |
| `lobby_restart` | a lost game ends, and guests without a room are freed, after a stop at any step | 1 person with an account, a guest, a bot, 1 countdown, 4 requests, 1 restart |
| `match` | nobody waits twice, no reservation leaks, who confirmed waits again when a match is called off, every match resolves | 3 users, players or others, 2 matches, quick matches of 1 or 2, ranked matches of 2 in a room of 1 place, 4 requests |
| `economy` | the economy implements `Ledger`; each payment credits once and uses its coupon at most once; what was paid for is owned; requests that do not overlap are exact | 3 requests at once, of whom the user or an administrator begins 3, a theme, a mode and a pack, 2 prices, 2 orders, a coupon of one use, 2 crashes |
| `premium` | who paid is credited, and once; premium ends | a subscription, 2 charges, 2 requests at once, 2 user requests or repeated notifications, 1 crash |
| `ranking` | every recorded result counts, whatever games end at once | 3 requests at once, 2 ranked rooms, 3 disconnections, utilities, edits or resets of a room; a row near zero points, near the next level, with a streak of wins or of losses |
| `engine_leave_stuck` | *violation* of `NeverStuck`: a departure during another's choice leaves the turn with nobody who can move | 4 players |
| `turns_stall` | *violation* of `AfkNeverStalls`: a departure clears the timer and nothing arms it | 2 humans, a bot |

**Why these bounds are enough.** A hand of one card empties in a play, so rounds are
short and a game goes through deal, wipe, round end, duel, stalemate and game over in few
steps; with two values there are equal, higher, lower and adjacent cards, and taking a
beaten pile makes hands of two and three cards. Three players give a duel after one
escape; four give a departure that leaves three in the round. Two games of one
room are the least for something of the first to disturb the second. Two places and four users
make the last seat contended; four requests are a create, two joins and a start, or a join with the
disconnection and the return of a guest, and every answer, timer, end of a socket and sweep comes on top of them for
free. Two plate indices are the shortest list that repeats one. Two
matches over three users overlap as soon as a user leaves the queue while reserved, and leave one to
three users to join the rooms from outside. The code's four
ranked players and two places appear as two and one: what matters is that the room has
fewer places than the match has players. That a third member who has not confirmed is removed
takes five calls and is beyond the run; the proofs cover it. In `economy` the user can pay each thing once, so two
overlapping purchases are enough to overspend and one order is enough to change what a
later check finds; of two orders only one can use the coupon up; three calls are any
three of a checkout, a purchase, an edit and a change of prices, and all steps of the provider come on top; that
more calls change nothing is proved, for all five properties of the run (section 4). Three slots let
all three overlap, or two of them and a notification; in `ranking` a penalty can fall between two results. `premium` has no orders: an order goes through the same webhook, `Processed`, `Credit`
and `CreditFails` as a charge, without the subscription. In `lobby_restart` one seat less than in `lobby`
suffices: the question is what a stop leaves behind, not who gets the last place.

`CHECK_DEADLOCK FALSE` is set because each system may stop: a finished game, a deleted
room, used-up bounds. That nothing stops earlier is checked by the liveness properties.

**Fairness.** Nothing is assumed of users. The event loop runs every timeout that
was not cleared, so timers (`AutoMove`, `TimerFires`, `GateTimeout`, `BotMoves`,
`GuestTimer`, `Timeout`, sweeps, countdowns) are weakly fair; awaited database calls are
answered, so the later steps of a handler (`Answers`, `CleanUp`, `RoomCreated` or
`RoomFailed`, `PlayerJoins`, `Complete`) are too. A random choice of the program (the shuffle, where a bot
inserts a card) is not fair: `EveryGameEnds` holds for every luck. The sweep of a start
(`Sweep`) is a database call that is answered. In `Economy` the database answers some request that
waits (`Answers`), the provider delivers something of what it owes (`Notify`: it retries until it gets
a 200), and dates pass or the cron of the night runs. Weak fairness of each group, and not of each
request or id, is all that is needed, since what one user asks and is charged is finite. Nothing
is assumed of the user, of the provider's decisions, of administrators or of stops.

**Mutants.** Each property of a passing run is paired with a change of one definition
that a plausible bug would make (a guard, a reset, an order), under which TLC finds the
property violated. Where the changed form needs a definition of its own, it stands before
the one it replaces.

**Findings.** The `findings` of PROJECT.json quote the comment, document or test that the
code disagrees with; those without a run were met while modelling and read off the
code. The most consequential: a ranked match never starts (four players, two places);
a solo quick match is always called off; a departure can stop a game of absent
players; RODIZIO loses the last trick's cards; a recorded room cannot be deleted; a game that
ends with a pass is not recorded; the second game of a room gives nobody anything; a duelist who
lists a plate twice plays a card the deck does not have; the loser of a round opens the next,
and not the winner as the changelog has it; the sabor is never broken; a socket that closes while it is being opened
keeps its user connected for good; a match whose room cannot be read is forgotten with those who had
confirmed it; the 300 s destruction of a game takes a rematch with it;
overlapping purchases overdraw a balance, and an administrator's edit can drop an item just
bought; an approved payment whose handling fails for a moment, or a charge that comes before its
subscription, is answered with 200 and never credited; checkouts made in time exceed a coupon's
limit. Where such a thing limits a property, the property says so: `AloneIsExact` speaks of
requests that do not overlap, `PaidForIsOwned` excepts items bought during an edit (`raced`),
`ApprovedIsCredited` what was `lost` (it is not `Owed`), `ResultsAllCount` what `crossed`, `GuestFreedOrSeated` seated guests,
`GuestFreed` the sockets that ended before they were registered (`late`, `ghosts`), `EmptyRoomRemoved` the time
in which another room blocks the clean-up (`stuck`), `CardIntegrity` and `OnlyPlatesDuplicate` what was `copied`,
and `SurvivorsWaitAgain` is about matches that are called off, not about those that are `forgotten`.
`BotPlaysBest`, `LoserOpensNextRound` and `FieldsAgree` say what the code does where a comment, the changelog or a
test says otherwise; a finding reports each.

## 4. Proofs

Eight modules hold proofs: of the operators of the engine (`EngineLemmas`), of a game, its bots and what
the gateway sees of it (`GameProofs`, `CardProofs`), of the gateway (`TurnsProofs`), of rooms (`LobbyProofs`), of the queues (`MatchProofs`), of the
economy (`EconomyProofs`) and of ranked progress (`RankingProofs`). Every theorem is about all values of the
constants that the named assumptions allow, and about the specification that the runs check.

| Theorem | States | Run of the property |
|---|---|---|
| `GameProofs!TypeInvariant`, `RoundNeverEmpties` | `TypeOK`, `AtLeastTwoInRound` | `engine_rounds`, `engine_leave` |
| `GameProofs!EngineImplementsTokenGame` | `ImplementsTokenGame` | `engine_tokens` |
| `GameProofs!LoserOpens` | `LoserOpensNextRound` | `engine_rounds` |
| `GameProofs!TurnIsWithOneWhoCan` | `TurnHolderCanAct` until a player abandons | `engine_rounds` |
| `GameProofs!WhoPlaysHasCards` | `InRoundHasCards` in every mode but RODIZIO | `engine_rounds` |
| `GameProofs!GatewaySees` | `GatewaySeesEngine` | `engine_tokens` |
| `GameProofs!BotsPlayBest` | `BotPlaysBest` | `engine_rounds` |
| `GameProofs!SaborIsThePile`, `CardProofs!FieldsStayAgreed` | `SaborMirrorsPile`, `FieldsAgree` | `engine_leave` |
| `CardProofs!CardsAreKept` | `CardIntegrity`: in every mode but RODIZIO, until a player abandons, but for the cards in `copied` | `engine_leave` |
| `CardProofs!CopiesComeFromPlates` | `OnlyPlatesDuplicate` | `engine_tokens` |
| `TurnsProofs!TurnsTyped`, `TurnStaysInRound`, `BotsAreNeverIdle`, `TurnsAreWatched`, `NothingIsLeftOver` | `TypeOK`, `TurnInRound`, `BotNeverIdle`, `TurnIsWatched`, `NothingLeftOver` | `turns` |
| `LobbyProofs!LobbyTyped`, `RoomsNeverOverfull`, `ConfirmationsUsedOnce` | `TypeOK`, `NeverOverfull`, `ConfirmationUsedOnce` | `lobby` |
| `LobbyProofs!RestartKeepsRoom` | `TypeOK`, `NeverOverfull` of `RestartSpec` | `lobby` (without a restart) |
| `EconomyProofs!EconomyImplementsLedger` | `ImplementsLedger` | `economy` |
| `EconomyProofs!PaidForStaysOwned`, `AloneStaysExact` | `PaidForIsOwned`, `AloneIsExact` | `economy` |
| `EconomyProofs!PaymentsCreditOnce`, `EconomyTyped` | `OncePerPayment`, `TypeOK` | `economy`, `premium` |
| `MatchProofs!MatchTypes`, `NobodyWaitsTwice`, `ReservationsEnd` | `TypeOK`, `QueuedOnce`, `ReservedOnlyWhileForming` | `match` |
| `MatchProofs!ConfirmedWaitAgain` | `SurvivorsWaitAgain` | `match` |
| `RankingProofs!RankingTyped`, `ResultsCount` | `TypeOK`, `ResultsAllCount` | `ranking` |

`Inductive`, `GameInductive`, `CardsInductive`, `MatchInductive` and `HeldFactsStayTrue` are the inductive invariants behind them.

### The engine

Assumed: `EngineAssumption` (2 to 6 players, the code's modes, at least one token, one copy of a
card and one card in a hand, any size of the market, any number of departures, plate lists of any length) and
`ValuesAssumption` (the values are those of the deck).

`TypeOK` alone is not inductive: the loser of a round is `CHOOSE`n among the players still in
it, and a turn index needs a next player, so both need `AtLeastTwoInRound`; this in turn
needs that nobody is out before the first deal (`FreshBeforeDeal`). `IInv` is the
conjunction of the three. There is one lemma per handler (`PlayKeepsIInv`, ...,
`RemoveKeepsIInv`). They rest on `EngineLemmas`: the rank of a seat among the active ones and the
search of `advanceTurn` (`NextIndexFinds`), the insertion of a card, the cards of a play, and the parts
that handlers share (a deal, the end of a round, a wipe, the end of a pass: `StartRoundTyped`,
`RoundEndTyped`, `WipeTyped`, `AfterPassTyped`). A consequence of `RoundNeverEmpties` is that
the code's branches for an empty round are dead.

`GameInv` is what else a game keeps: whoever still plays has a token (`PursesNotEmpty`), the turn is held
by one who can act (`TurnHeld`), a plate is chosen in a duel by one of the two (`DuelPickInRound`),
whoever is in the round has cards (`CardsHeld`), the sabor is the pile's. `Advances` is what is shown
of each handler: it keeps `GameInv`, it is a step of `TokenGame` or a stutter, and if it deals a new round
the loser of the last one opens it. The three are proved together since they need each
other: that a lost round costs exactly one token needs `PursesNotEmpty`, and that the loser opens the
next round needs to know where the list of active players has shrunk. A departure is the case that takes
most of the proof. Two hypotheses are the code's and not the proof's: after a departure the turn may
be with nobody who can act (`engine_leave_stuck` shows it), and in RODIZIO a hand that is passed on
may be empty.

`GatewaySees` is what connects the two models of a running game: `RoomTurns` assumes it, the engine
does it. `Seen` names what a step may look like to `dispatchEvents` (nothing, a turn that is
announced or goes on, an offer, a new round, a departure during another's choice, the end), and each handler's
lemma (`PlayIsSeen`, ..., `RemoveIsSeen`) shows one of them, with who is in the round and whose turn it
is afterwards. It rests on the same lemmas on the search of `advanceTurn` as `Advances`, and on the fact
that a loser is named with the end of the game and not before (`NoLoserYet`).

`BotsPlayBest` is about `computeBotMove` alone and holds in every state with the right types. A legal
selection is a run of the hand of one value; the group that starts at its first card contains it
(`GroupIsARun`), so it beats the pile too (`GroupsAreEnough`); a largest group, of the highest value among
those, exists because a hand is finite (`BestGroup`).

`CardProofs` follows the sum of `assertCardIntegrity` through every handler. A count of cards is the
cardinality of a set (`SizeOf`, `CountOf`), so that what a sum over seats does when one seat
changes is a fact about cardinalities of disjoint sets (`HandChanges`, `HeldDiffers`), proved without
recursion. What a handler moves is then an equation between differences: what leaves the hands is on
the pile, but for the copies of plates that were listed more than once, which `copied` counts; what leaves
the pile is discarded or offered, and a new deal starts from a whole deck. The sum alone is not inductive, because handlers
forget things: `applyPassTurn` a card that was drawn, `applyPlayCards` the pile that was offered,
`startRound` the hands it does not deal, `removePlayerFromGame` a drawn card. `CardInv` says when there is nothing to
forget: a drawn card waits for the player whose turn it is (`DrawnInTurn`), a pile is offered only to the
one who beat it (`OfferedOnce`), leavers hold no cards (`LeaversHoldNone`), a game that goes on has no
loser (`LoserAtTheEnd`). Where something is forgotten all the same, after a departure or in RODIZIO,
the sum loses cards and never gains any but those in `copied`: that is why `CopiesComeFromPlates` has no
hypothesis on mode and departures and `CardsAreKept` has two. `StepCopies` adds that only a step of a duel
makes copies; a duel never becomes a game of three again, so with more than two players left there are none.

### The gateway

`TurnsProofs` assumes `TurnsAssumption` (bots are no humans; bounds are numbers). `TurnInRound` and
`BotNeverIdle` hold also in games that people leave and are inductive once the types are known, given that
`DispatchGated` and the departures arm what they clear. `TurnIsWatched` and `NothingLeftOver` are about games
that are only played, and need `Played`: the turn is in the round also during a choice, a bot's
pending move is the only one and for its turn, and a game that is over has neither timer nor gate. Bounds
on games, departures and bot moves are part of the model (section 3) and are arbitrary numbers here.

### Rooms

`LobbyProofs` assumes `MaxPlayersAssumption` (at least two places) and `MaxCallsAssumption`.
`NeverOverfull` is not inductive: a join or a bot that waits for the database holds the seat it will ask
for. `SeatInv` adds that this seat is one of the room's places, since the room it was read from was
not full (`AsksForPlace`); that it is still free is the unique key of the database. No counting of rows
is needed: seats that differ and lie in `0 .. MaxPlayers - 1` are at most `MaxPlayers`.
`ConfirmationUsedOnce` rests on `MemInv`: whoever is marked as ready has said so since the last game that
seated them, also while several countdowns hold lists of players. `DbTyped` adds that a row belongs to
an account that exists, which a join whose guest is deleted meanwhile could break and foreign keys do not
let it. `RestartKeepsRoom` is the same for `RestartSpec`: a stop forgets requests, and `LobbyInv`
asks for nothing that only they remember.

### The economy

Assumed: `AccountAssumption`, `PricesAssumption`, `PaymentsAssumption`, `MaxCrashesAssumption`. They
say that finitely many requests run at once and orders exist, that bounds are numbers, that subscriptions are
not orders or charges, and that no thing is in two catalogues: what is sold for diamonds (themes),
for coins (avatars, modes) and packs have keys of their own (`shop.service.ts` 146).

What makes `EconomyImplementsLedger` hard is that requests act on what they have read earlier. `IInv` says
which of it never gets out of date: a price that a request holds is one the shop has had
(`RequestOK` for `check` and `pay`, and for the rows that `warm` has loaded), and a payment that a
webhook is about to credit is approved, since the provider never takes that back
(`ProviderIsFine`). That a row is inserted once is the unique column, `Insertable`. `Fine` is what is shown
of a step: it keeps `IInv` and is a step of `Ledger` or a stutter. Most steps are `Quiet`, they change
nothing the ledger speaks of (`QuietIsFine`); the others are an entry (`EntryIsFine`), a change
at the provider (`BecomesIsFine`), a credit (`CreditIsFine`) and a change of prices
(`CacheIsFine`).

For `PaidForStaysOwned`, `GoodsInv` adds that the lists an edit is about to write back keep what was paid
for (`Keeps`), except what it revokes and what was bought after it had read them.

For `AloneStaysExact`, `AloneInv` adds what the one request that spends has compared, and that it is
still so when it pays (`Claim`): the item is not owned and not paid, the balance covers the price. It
is still so because whatever else may run, a webhook, a grant, a change of prices, a load of the
cache, spends nothing; and a second request that spends makes `overlapped` true for good
(`TwoOverlap`), which counts what spends as a finite set.

`PaymentsCreditOnce`: the use of a coupon is recorded one step after the credit, so `OnceInv` also counts
the requests that have credited and not yet recorded (`Redeemers`): with the uses they are never more than
the orders credited with the coupon. A credit adds one to both sides, a record moves one over, a stop
forgets the requests. That only approved payments are credited is read off the refinement
(`CreditedIsApproved`). `EconomyTyped` follows from the same invariants and the types of what each
request holds.

### Queues

`ReservationsEnd` assumes nothing of the constants and does not depend on what a queue is filtered to:
whoever is reserved is a player of the match that the same step forms, and both ends of
the creation of its room release its players. The invariant adds that a match is a record
(`Records`), so that the steps that change one of its fields leave its players alone; the longest case is a
disconnection, which may clean matches up and call any number of others off in one step (`DisconnectCleans`,
`EndedTogether`).

The other three assume `MatchAssumption` (a quick match has at least two players and a ranked one at least one,
bounds are numbers) and do depend on it. The prover knows no definition of `SelectSeq`, so the model filters with
`Only`, a recursive function on the places of the list. That this recursion defines a function at all
(`FilterExists`) and what it leaves (`OnlyKeeps`: who was there and is asked for, once) is proved by
induction over the places; the library's induction takes a predicate, which the provers cannot
instantiate, so the set of the places where the fact holds is shown to be all of them (`SetInduction`).
`QueuedOnce` is not inductive: what goes back into a queue are the players of a match, so `MatchInv` adds that a match has
each of its players once, that one which has left the queue has a player, its host, and that one
which is completed as a ranked match came from the ranked queue. Of the members of a room it asks
no more than that they are users, for anyone may come and go (`RoomChanges`). Every
operation that puts users back is then the concatenation of two lists that share nobody
(`OneAfterTheOther`). `WaitAgain` is what `SurvivorsWaitAgain` asks of a step: whoever is called back is in
the queue that `CalledOff` leaves, also when the same step has taken the user who left out of it.

### Ranked progress

`RankingProofs` assumes `RankingAssumption`: the user starts with a row whose numbers are not negative and whose
level is one of the hundred, and the form of an administrator passes `UpdateProgressionDto` (`@Min(0)`, and 1 to 100 for the
level, `admin/dto/admin.dto.ts` 68-97). `ResultsCount` is not inductive, since a result writes what it makes of a row
that it read before. `UpToDate` adds that what was read is still the row, unless writes have crossed, and `Locked`
that one transaction at a time has read it for a result: that is the lock on `UserStats`, which the
upsert before the read takes. The curves enter only through what every value of them satisfies (`FloorIsNat`,
`ClampIsNat`, `LevelInRange`, `RewardedIsRow`, `EditedIsRow`).

### Only model-checked

* All liveness (`EveryGameEnds`, `AfkMovesOn`, `GuestFreed`, `EmptyRoomRemoved`, `LostGameEnds`,
  `GuestFreedOrSeated`, `MatchResolves`, `ApprovedIsCredited`, `PremiumEnds`): fairness needs `ENABLED`,
  which the prover cannot reason about. Every invariant and every action property of a passing
  run has a theorem.
* `TurnHolderCanAct` after a departure, `InRoundHasCards` and `CardIntegrity` in RODIZIO, or `CardIntegrity` after a
  departure are neither proved nor checked: the first does not hold (`engine_leave_stuck`), and in the
  others the code itself gives hands and cards up.

## 5. Not modelled

* Chat, emoji reactions, heartbeats, the forwarding of messages and presence counts change nothing
  that other parts read.
* Reviews: counters of reactions, moved by a read and a write; a hazard without a property.
* Auth, profile, news, changelog and logs are reads and single-row updates without a protocol.
* Of the shop: the choice of the active theme, the creation of an inventory with its
  defaults, the catalogue that clients see. Of the administrator: listings, reports, bans, deletions.
* Of payments: amounts and discounts in money, the signature of a webhook, a coupon's dates, scope and
  changes of its limit. The number of orders is bounded by the run, not by the code.
* Of ranked games: more than two players, which no ranked room seats, and levels above 12.
* Steps that a module merges (section 2) are not interrupted by a stop between them: in
  particular `markFinished` marks the room and rewards in two database calls, and `LobbyRestart`
  stops before or after both.

The `hazards` that no property covers say so in their note.

## 6. Plan

Done: `Rules`, `GameEngine`, `TokenGame`, `AutoPlay` with their runs and theorems; `RoomTurns`,
and `EngineTurns` that holds it against the engine; `Lobby` and its restart; `Matchmaking`;
`Account`, `Shop`, `Payments` and their composition `Economy`, which implements `Ledger`, with the
proofs; `Ranking` with the curves of experience and rank.

Left, to widen the model:

1. `Reviews`: a reaction and its counters under READ COMMITTED.
2. `Lobby` with several sockets of one user, as the shop and the game open them.

Proved: every invariant and action property that a passing run checks, with the hypotheses that
section 4 names, and the refinements of `TokenGame` and `Ledger`. What is left to prove is
liveness, which needs a prover that knows `ENABLED`.
