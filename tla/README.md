# Verification of the demurrage token

This directory holds TLA+ models of the cw20 token with demurrage in `src/` and of the
CosmWasm packages it is built and tested with (`packages/`): the storage layer from the
bytes of a key up to snapshots and indexes, the message router of the tests, the
controllers, and the helpers for amounts, times, thresholds and replies. TLC checks the
models on small instances; the theorems in the proof modules are checked by TLAPS for
every value of the constants. Source paths are relative to the repository's root; line
numbers are those of the commit the models were made from. `PROJECT.json` lists, for
every definition, the lines of the source it translates.

## 1. Inventory

### The token contract (`src/contract.rs`, `src/allowances.rs`, `src/state.rs`)

State, in the contract's storage:

| item | content |
|------|---------|
| `TOKEN_INFO` | name, symbol, decimals, `total_supply`, optional mint rights (`minter`, optional `cap`) |
| `BALANCES` | address → amount |
| `ALLOWANCES` | (owner, spender) → amount and expiration |
| `STATE` | `start_timestamp`, `demurrage_timestamp`, `period_minute`, `current_period`, `demurrage_amount`, `sink_address`, `tax_level`, `minimum_participant_spend` |
| `LOGO`, `MARKETING_INFO` | marketing metadata |

Operations: `instantiate` and the messages `Transfer`, `Burn`, `Send`, `Mint`,
`IncreaseAllowance`, `DecreaseAllowance`, `TransferFrom`, `BurnFrom`, `SendFrom`,
`UpdateMinter`, `ChangeTaxLevel`, `ChangeSinkAddress`, and the queries of `query.rs`
and `enumerable.rs`.

The contract is a cw20 whose unit loses value: a *demurrage amount* decays with
time, and each `Transfer`, `TransferFrom` and `Mint` first runs `change_period`. That
applies the decay since `demurrage_timestamp`, counts one more period, and
distributes a share of the supply to the *sink*; the recipient is then credited with
the *base value* of the amount, the amount divided by what the demurrage amount
stands for.

What is hard here: no two messages run at once, but every message reads what all the
others left. Fixed-point arithmetic in `u128` aborts at the edges (an overflow, an
underflow, a zero divisor), results of helpers are dropped (the new timestamp, the
next period's amount, the error of the redistribution), up to four addresses of one
message may be the same, and supply, balances and allowances are kept in different
units.

What makes it right: supply within the cap and covered by the holders; tokens issued
only by the minter; nobody's balance lowered without him or his allowance; allowances
made only by their owners; the demurrage amount positive and never rising; the tax
paid, and computed from what is stored; the period count behind the clock.

### The packages

| part | state | operations | what is hard, what makes it right |
|------|-------|------------|-----------------------------------|
| `utils`: expirations | none | `is_expired`, `Duration::after`, `Scheduled` | equality counts as expired; two expirations are comparable only in one unit |
| `utils`: thresholds, native balances, payments | none | `validate`, `+=`, `-=`, `normalize`, `must_pay` | boundary values, order and zeros of the coins, overflow |
| `utils`: replies | none | `parse_reply_instantiate_data`, `parse_reply_execute_data` | data that were cut off, lengths of several bytes |
| `storage-plus`: items, maps | raw key-value store | load, save, update, remove, range | several collections share one storage: ranges stay within their prefix, whatever the bytes |
| `storage-plus`: snapshots | primary map, change log, checkpoints | `save`, `remove`, `update`, `add_checkpoint`, `may_load_at_height` | the oldest value of a height must survive later writes of the same height |
| `storage-plus`: indexed maps | primary map, index maps | `save`, `update`, `replace`, `remove` | every index entry points to the value stored, in every order of writes; unique indexes refuse a second; a refusal half-way |
| `multi-test`: transactions | cache of a storage, log of writes | `get`, `set`, `remove`, `range`, `prepare`, `commit` | merged reads, rollback by dropping the cache |
| `multi-test`: router, wasm, bank | contracts, balances | `execute`, submessages and replies, `send`, `mint`, `burn` | a failed submessage is rolled back alone or with its caller; the recursion ends |
| `controllers`: admin, claims, hooks | an item or a map each | `set`, `execute_update_admin`, `create_claim`, `claim_tokens`, hooks | claims mature in any order and are paid up to a cap |
| `cw20` | none | `Cw20ReceiveMsg` into a message | the receiver is told after the tokens moved |
| `cw1`, `cw2`, `cw3`, `cw4`, `cw1155` | none, or a version record | message types | interfaces only |

How the parts interact: the contract calls `storage-plus` for every load and save and
`utils` for expirations; `Send` and `SendFrom` emit a `cw20` receive message, which the
chain (in tests the `multi-test` router) executes after the contract has returned, in
the same transaction: when it fails, both are rolled back. In `multi-test` every
message runs against a storage transaction that is committed or dropped as a whole.

A client pages through `query_all_accounts` and `query_all_allowances`: each page is a query of
its own, and messages run in between. The position is the last key it was given, never
an index.

### Not modelled, and why

* Logos and marketing info are written once and only read; the queries that read one
  item and return it have no effect and no choice.
* `pagination.rs` and `event.rs` of `utils` convert an optional address and format
  attributes. Texts of errors, names of events and the JSON in which values are stored
  are left out everywhere: a stored value is what it means.
* The contract wrappers of `multi-test` adapt closures; its staking and custom modules
  fail or panic on every call; creating an app and storing code happen before the first
  transaction, and are parameters of `Router`.
* `MultiIndex::prefix_range` and `UniqueIndex::prefix_range` (see Observations).
* `cw1`, `cw3`, `cw4`, `cw1155` are message types of other contracts, and `cw2` stores a
  version nobody reads. The JavaScript client, the schemas and the build files hold no
  logic of the token.

`PROJECT.json` lists every part with the reason.

## 2. Modules

The token and its helpers:

| module | models |
|--------|--------|
| `Demurrage` | the fixed-point arithmetic: `decay_by`, `grow_by`, `to_base_amount`, `get_distribution` |
| `DemurrageToken` | the contract: one action per message, and the passing of blocks |
| `SupplyControl` | what a mintable token promises of its supply: an abstract specification |
| `Expiration`, `Durations` | points in time, durations and schedules of `utils`: their order and sums |
| `NativeBalance` | lists of coins: `normalize`, `add`, `sub`, and the payments of a message |
| `Thresholds`, `ParseReply` | when a vote has passed; the fields of a reply, in bytes |
| `Outcomes` | constants for what the calls of `utils` return |
| `UtilsTests`, `UtilsReferences` | what the unit tests of `utils` expect; reference definitions |

The storage:

| module | models |
|--------|--------|
| `Keys` | keys and their parts in bytes, and reading them back |
| `Maps` | a storage, paths, items, maps, bounds, ranges over prefixes |
| `IndexedMap` | indexed maps over any list of multi and unique indexes, in bytes |
| `Collections` | an item, a map and an indexed map in one storage, and a client that lists |
| `KeyedRecords` | what such a storage promises: separate tables, one record per unique key |
| `SnapshotMap`, `IndexedSnapshotMap` | a map that answers for past heights: changelog, checkpoints, strategies; with two indexes |
| `Snapshots` | snapshot maps, snapshot items and indexed snapshot maps, in bytes |
| `StoredSnapshots` | an indexed snapshot map beside the bytes it is stored in |
| `MapTests`, `IndexedMapTests`, `SnapshotTests` | what the unit tests of `storage-plus` expect |

Transactions, messages, controllers:

| module | models |
|--------|--------|
| `StorageTransaction` | the nested storage transactions of `multi-test`: cache, log, replay |
| `Savepoints` | what they promise: a stack of whole stores, the abstract specification |
| `MergeOverlay` | iteration over any range through all open transactions |
| `Router` | the message router of `multi-test`: bank, contracts, submessages, replies, rollback |
| `TokenReceiver` | `Send` on the router: the token, a receiving vault, a contract that sends |
| `Claims`, `Controllers` | claims as lists; the admin, the hooks and the claims of one contract |
| `ClaimLedger` | what claims promise: each is paid once, in full and in time |
| `ControllersTests` | what the unit tests of the controllers expect |

`MCDemurrageToken`, `MCRouter`, `MCTokenReceiver`, `MCCollections`, `MCControllers` and
`MCIndexedSnapshotMap` give the constants values for TLC. The proof modules:

| module | proves |
|--------|--------|
| `FunctionLemmas` | lemmas: recursive functions on the naturals, sums over finite sets |
| `DemurrageTokenProofs` | the arithmetic; the inductive invariant and what follows from it; the supply is backed, the contract implements `SupplyControl`, the tax is paid, frozen payments stay frozen |
| `StorageProofs` | the logs are faithful, storage transactions implement `Savepoints`, ranges give what gets would |
| `StoreLemmas` | lemmas about bytes and any storage of them: the order of keys, integers as keys, what a range finds, what is read after a write |
| `CollectionsProofs` | one storage holds its collections apart and implements `KeyedRecords`; ranges, reads through indexes and listings are complete |
| `SnapshotProofs` | reads of the past are right and do not change, indexes follow the map; the bytes answer as the map does, and so rightly |
| `RouterProofs` | the call stack, the money, the addresses, what is owed, what users pay, who migrates; then, for `TokenReceiver`, a vault holds what it was told of, users are sent nothing |
| `ControllersProofs` | only the admin changes the hooks, the claims implement `ClaimLedger` |

`TokenReceiver` composes `Router` (which it extends) with the contracts it defines;
`Router` keeps whole stores in the place of storage transactions, and `StorageProofs`
shows that these come to the same. `IndexedSnapshotMap` extends `SnapshotMap`: its map is
the one it extends, and its property `ImplementsSnapshotMap` is the specification of that.
`StoredSnapshots` composes `IndexedSnapshotMap` with `Snapshots`, which stands on `IndexedMap`,
`Maps` and `Keys`; so does `Collections`. `MergeOverlay` extends `StorageTransaction`.
`Controllers` extends `Claims`, whose claims mature by `Expiration`.

### How the model corresponds to the code

*Steps.* One action is one message, from its first check to its last save. The chain
runs messages one after the other and rolls back one that returns an error; the release
profile has `overflow-checks = true` and `panic = 'abort'` (`Cargo.toml:25-27`), so an
overflow, an underflow or a division by zero fails the message too. A failing message
changes nothing, so in the model it is a step that is not enabled. In `Demurrage` a
panicking computation is the value `Panic`, which every later operation hands on, and
the actions ask that no value they need is `Panic`. An error the code drops is not a
refusal: with an invalid sink `apply_default_redistribution` fails, `change_period`
ignores it, and the model credits nobody and goes on.

*Order.* Where the code reads what it has just written, the model composes: the balances
after the redistribution are the ones `Move` debits and credits, the debit comes before
the credit (so that sender and recipient may coincide), `Mint` redistributes on the
supply that already includes the minted amount, `TransferFrom` lowers the allowance first.

*Dropped results.* `Timestamp::plus_seconds` returns the new time and
`apply_demurrage_limited` drops it, so `demurrage_timestamp` keeps the time of the
instantiation; the demurrage amount `change_period` computes for the period it enters is
not stored. Both computations are in the model as far as they can panic.

*Data.* Time is in seconds from the instantiation (the code works with seconds and whole
minutes). `BALANCES` is total, as every read is `unwrap_or_default` or an `update` with
it. An account name is an address or an invalid name, as `addr_validate` tells them
apart. Name, symbol, decimals of `TOKEN_INFO`, logo, marketing info and
`minimum_participant_spend` (stored and never read) are left out, and so is `supply_cap` of the
instantiation (`msg.rs:26`), which nothing reads; decimals appear in
the guard of `instantiate`, whose `10u32.pow` panics from 10 on. The resolution
constants and the largest `u128` and `u64` are parameters: `DEMURRAGE_SCALE *
INITIAL_DEMURRAGE = RESOLUTION_FACTOR` and `RESOLUTION_FACTOR = NANO_DIVDER *
GROWTH_RESOLUTION_FACTOR` hold of the code's constants and are the assumptions of the
proofs. `MAX_U64` limits `current_period`; no other `u64` of the contract grows with
use (`get_period_time_delta` may leave the width only when it is also later than any
block). The product `period_minutes * 60` of the instantiation (`src/contract.rs:64`) has no width
in the model, which so also has the tokens whose instantiation the code would refuse for it.

*Notifications.* `Send` moves the tokens and adds a message for the receiving contract to
its response. That message is a later step of the same transaction, which
`TokenReceiver` models.

*Storage transactions.* A cache entry is a value, `Absent` for a deletion, or `Untouched`.
`Commit` replays the log, write by write, on the storage below, which is the app's
storage or the cache of the transaction around (whose log grows by it). Only the
innermost transaction writes, because the one below is borrowed by it. Nothing can be written
while an iterator lives, again because it borrows the storage: what it gives is a
function of the storage, and `MergeOverlay` is operators. `next` is one call of the code's
function, without the calls it makes of itself, `Collected` repeats it until both sides are
used up, and `range_through` does so at every level, whose storage below may merge in turn.

*Router.* The code is a recursion of `execute_multi`, `execute_wasm`, `execute_submsg`,
`_reply` and `process_response`. `frames` is its call stack, `control` what is called or
returned next, `stores` the app's storage and a copy for each `transactional` that is
running. An action runs from one call of `router.execute` or of a contract to the next:
moving the funds, registering or migrating, and running the entry point are one action.
Where an error leaves writes behind that only the `transactional` around undoes (funds
moved to an address that is no contract, a response refused by `verify_response`), the
model leaves them too. What contracts answer is the operator parameter `Responses`. Data
are abstracted to who set them; encoding adds nothing to that but the address in the
data of an instantiation. Events, labels and creators are left out, queries have no
effect. Balances are of one denomination; no coin at all (`Nothing`) differs from zero
coins, as it does in `send` of `wasm.rs`. `history` in a store is no code: it counts what was
minted less what was burnt, contracts registered, and submessages owed.

*The token on the router.* `execute_send` of `TokenReceiver` translates the same lines as
`Send` of `DemurrageToken`, with the message it adds. The vault and the caller stand for
contracts outside the repository: the vault believes only the token, and accepts,
refuses or returns; the caller makes any two calls with any replies.

*Snapshots.* `primary`, `checkpoints` and `changelog` are the three maps of `SnapshotMap`;
keys that the code builds from parts (`(key, height)` in the changelog) are nested
functions, and `Unlogged` is an entry that is not there. An entry that is there may hold
`None`: the key had no value before the block. `should_checkpoint`, `write_change` and
`may_load_at_height` are the code's functions. `Write` is their composition in `save` and
`remove`. `update` asks its action about the stored value: the action is any function of
that value, and one that fails writes nothing. The height is an argument of the code that
its users take from the block: in the model it is the block's, and it grows by `NextBlock`.
Two assumptions about the users are made, since the code states them only in
comments: a checkpoint is set for the current height or one ahead, and closed only by a
client that holds it. `holds`, `held` and `started` are no code: who holds which
checkpoint, the values a key has had in this block, and the values it had had when a height
began to answer. `SnapshotItem` is the same code for one key.

*Indexes.* `multi` refers to keys, with the length of the key as its value (`PkLen`), and
`unique` holds a copy of the key and the value. `replace` first removes the old value from
both, then adds the new one, in the order of `get_indexes`, then writes the map. Where a
unique index refuses, the old entries are gone and the new one of the multi index is there
already. The error goes up to the handler, whose transaction drops all this: in
the model that is a step without effect, whose mutant shows what a handler that carried on
would leave.

*Bytes.* A storage in `Maps` is a function from strings of bytes to values. `Path`, `Prefix`,
`range` and `prefix_range` compute the bytes that the code computes; the order of the entries is that of
their keys as byte strings. A key of several parts is a sequence of parts, each a string of
bytes; `parts` in a map says how many its keys have, which in the code is the type of the key.
`Keys` has the encodings of integers and lengths and `from_vec`, which takes keys apart
again. An operation on a storage returns the new storage; one that may fail returns it with
`ok`, and the storage it leaves is the one with the writes made up to the error. `update`
takes the caller's closure as an operator.

*Collections.* The writers' actions are the library's functions applied to `store`. A listing
is `Begin`, any number of `NextPage` with any limit, and `EmptyPage`, with writers between.
`kept` is no code: the keys that were there from the beginning of the listing on.

*Stored snapshots.* Each step of `StoredSnapshots` is a step of `IndexedSnapshotMap` together with the
function of `Snapshots` of the same name, so that the value model is held against the bytes, by
TLC and by `StoreAnswers`. The storage is not in the guards: what the values refuse, the bytes
must refuse too, and `Handled` then undoes what the refused operation wrote. A snapshot item
is a map whose key has no parts; the unit tests of `item.rs` are evaluated that way.

*Controllers.* `Settlement` is the loop of `claim_tokens`, `Settled` one pass of it. `Unset` is an item that was never saved, `None` an admin that was given up. `set` saves unconditionally, as
in the code (`admin.rs:37-39`); it is an assumption about the contract that uses the package, and
one that `HooksAreGoverned` rests on, that it calls `set` itself only when it is instantiated
(`Instantiate`). After that its messages (`Execute`) are the package's `execute_` functions. `answer` is
what the last call returned: the messages for the hooks, or the sum that a
contract would pay out. `prepare_hooks` takes which addresses the caller's closure fails
for. Claims are in the order of their creation, as the code appends them.

*Helpers.* `NativeBalance`, `Thresholds`, `Durations` and `ParseReply` are pure: an error or
panic is `Failed`. A denomination is a number with the order of the names, an amount is
compared with `MaxAmount`. `ParseReply` works on bytes; `encode_instantiate` and
`encode_execute` are the library that writes replies.

*Unit tests.* The test modules evaluate what the repository's unit tests assert on the models, test
by test. They are how the byte-level models were compared with the program; the names are those of
the tests, with a prefix where two files have tests of one name.

*Loops.* `decay_by` and `grow_by` loop over `1..period`; a loop is a recursive function
of the number of its passes, so that proofs can be made about it.

## 3. Runs

| run | question | constants |
|-----|----------|-----------|
| `payments` | supply, cap, tax, demurrage amount and period count through transfers, sends, mints, burns and changes of minter, tax level and sink | two addresses; one is minter and sink, a sink name that is invalid; three blocks 40 or 240 s apart; `u128` up to 31 |
| `allowances` | allowances granted, raised, lowered, expired and spent | two addresses that grant to each other; expiration by height, by time, none; two blocks; `u128` up to 8 |
| `transactions` | nested transactions that write, delete, commit and roll back; every range through them, in both orders | three keys, one value; three open transactions, three writes in their logs |
| `collections` | items, maps and indexed maps in one storage, written in any order while a client lists; the unit tests of `storage-plus` | names that begin with each other; three keys of one part, four of two parts, with bytes 0 and 255 and empty parts; three values, with unique keys of which the lengths and the bytes order differently; up to seven entries |
| `router` | one transaction through contracts that answer anything | two users, two contracts, up to three new ones; two submessages, in one response or as an answer to each other; every `ReplyOn` |
| `send_notifies` | sends to a vault by a user and by a contract that survives failures | two users, three contracts; three tokens; three transactions; up to eight submessages each |
| `snapshot_selected` | what checkpointed heights answer while several clients open and close checkpoints | strategy `Selected`; one key, one value (and none); two clients, four blocks |
| `indexed` | indexes and bytes through saves, updates, refusals, removals and checkpoints; the map under them stays a snapshot map | strategy `Selected`; two keys; three values of which two share the multi index and two the unique one; one client, two blocks; names and keys that begin with each other |
| `controllers` | hooks under an admin, claims paid up to caps; the helpers of `utils` against reference definitions and unit tests | two addresses; three claims of two amounts, alike or not, due in the second or third block; a cap that one of them exceeds the rest of, and none |
| `transfer_moves`, `demurrage_timestamp`, `mint_cap` | violations: see Findings | those of the runs above |

Bounds, and why they are enough:

* Two addresses already coincide in every way (sender = recipient = sink = minter, owner
  = recipient, spender = recipient); no action looks at more than four addresses, and
  all but those are untouched. `DemurrageTokenProofs` holds for any finite set.
* `payments` starts from a capped mint with one-minute periods, and from a token without
  mint rights whose periods have no length; two further messages, with a repeated address
  and with a supply above the cap, must be refused. Block times 40 and 240 s apart make
  payments before the first minute, within a period, and several periods later, so many that
  the growth of the next amount overflows while the amount to apply is not yet zero.
* `INITIAL_DEMURRAGE = 4` and a growth resolution of 4 let the amount decay through 4, 3,
  2, 1 and to zero; the tax levels are one that decays by part (2, one quarter a pass) and
  one by half (4). `MAX_U128 = 31` lets balances, distributions and growth factors overflow.
* `MAX_U64 = 3` stops the period count. `MaxHeight` bounds the blocks; it is the only bound
  that is not a limit of the program. It ends the clock, not the messages: the amounts,
  the widths and the decay make the state space finite.
* Deadlock is checked for the token, the storage, the collections and the controllers: a burn, an
  allowance, a write is always possible. The router's runs end when
  `MaxTransactions` is used up; a transaction that stops halfway would violate
  `TransactionsEnd`.
* `transactions`: three levels are an app transaction, a submessage and the cache of a
  contract call. A write of one key over a deletion and a deletion over a write, with another
  key's between, take three writes; the theorems need no bound. Three keys are
  the fewest for a key below, between and above those of the other side of a merge.
* `collections`: `MaxEntries` lets two records with both their index entries be there beside an entry of
  another collection; a page holds at most two keys, so that a listing of four takes several.
  The limits leave out 0: a client that asks for nothing is answered nothing, and takes it for
  the end. Bounds of ranges are none, one, or two at the same key. What is only about
  the storage is checked while nobody lists: the same storages are reached there.
* `controllers`: two claims that fit under the cap alone and not together, and one that
  fits after one that does not, need three claims; `MaxAmount` is such that two large ones
  overflow. Addresses are symmetric: they are only compared. `AgreesWithTests` and
  `HelpersMatchReferences` are about no state: they have the form `Init => ...`, of the first state or
  the first steps, and their operands are evaluated once. The references take all lists of up to three coins of
  three denominations and amounts 0, 1, 2 and the largest, and replies with every truncation.
* `router`: two submessages are a response of two, of which the second sees what the first
  left, or a submessage whose contract or whose reply sends another: with the message
  of the app, three levels of storage. `MaxContracts` is never reached. Every response
  that fits is tried: error, invalid, data or not, a write or not.
* `send_notifies`: eight submessages are two sends, two notifications, and as many for
  returning the tokens, so that no answer is cut off by the bound.
* `snapshot_selected`: four blocks are two checkpoints with a block between them and one
  after, in either order of closing; two clients are the fewest of which one closes what
  the other holds. A value and none suffice, as values are never compared but with `None`.
  `indexed`: a unique conflict needs two keys, and a value that changes one index and
  keeps the other needs three values. A checkpoint in the first block and a write in the second
  make one logged write for each key. The view of the run leaves out the variables `held` and
  `started` of `SnapshotMap`, which no guard reads and which only collect; the theorems are not
  affected. `MaxHeight` ends the blocks, not the writes. Neither run has a deadlock.

What they show. `payments`: `SupplyWithinCap` and `OnlyMinterIssues` hold through
burning, minting again and handing the rights over; the holders always cover the supply
(`SupplyIsBacked`); payments never store a zero or raised demurrage amount; the count of
periods stays behind the clock although each payment counts one; once the amount has run
down to zero, or the growth of the next one overflows, payments stay refused as long as the tax
level stays (`FrozenUntilTaxLevelChanges`); and each change of period pays the sink what follows from
the stored supply and amount. `ImplementsSupplyControl` checks the refinement.
`allowances`: another's balance falls only by an unexpired allowance that is lowered as
much, and only its owner makes, raises or renews an allowance.

`transactions`: reading through a cache is reading what the log would make of the storage
below, the whole implements copies that are kept or dropped, and a range through any number of
caches gives each record once, in order, none deleted, none stale, and all of them
(`RangesReadView`). `router`: whatever
contracts answer, no money appears or disappears in any storage (`MoneyConserved`);
addresses are given once although they are counted (`AddressesAreUnique`); what is
committed has every submessage carried out or its failure answered, and its replies
accepted (`NothingOwed`); data are the called contract's own; a user pays no more than the
messages he signed say, and only admins migrate. `send_notifies`: the vault holds exactly
what it was told of (`DepositsAreHeld`), and a send to an address that is no contract moves
nothing.

`collections`: every range reads exactly the records in its bounds, in the order of the keys
as clients know them (`RangesReadRecords`); through an index the map reads as if it were sorted by
it (`IndexesReadRecords`); writes of one collection are never seen in another, and a
refused write changes nothing (`ImplementsKeyedRecords`); a client that lists page by page gets
every key that was there all along, and none twice (`ListingsAreComplete`). `controllers`: a
payment takes all that has matured up to the cap, each claim once (`ImplementsClaimLedger`);
whoever changes the admin or the hooks is the admin, and once he has given up nobody does
(`HooksAreGoverned`).
`HelpersMatchReferences`: sums of coins count every denomination and overflow only when
they must, an accepted threshold lets a vote be decided, replies round-trip and one cut off
inside a field is refused.

`snapshot_selected`: whatever is written and whichever other checkpoints come and go, an open
checkpoint gives the value the key had in that block before the checkpoint began
(`ReadsAreHistorical`) and always the same (`ReadsNeverChange`); it answers until its last
holder has closed it (`HeldCheckpointsAnswer`). `indexed`: both indexes list exactly the
stored records (`IndexesMatchPrimary`) after every sequence of writes, the writes
are logged as those of a plain snapshot map, and the bytes answer as the map does, now, in the
past and through the indexes (`StoreAnswersAsMap`). The strategy `Never` answers for no height;
the theorems include it.

Every property has a mutant of a mapped definition that breaks it (the `_Name`
definitions marked *Mutant* in the modules; the specification does not use them).

*Fairness.* `Router` assumes weak fairness of `Run`, the steps of a transaction that has begun: the
code is one thread that waits for nothing. Starting a transaction is not fair. `TransactionsEnd`
holds for contracts that send finitely many submessages, which the bound makes of all of them.
Nothing else is assumed fair: nothing makes an account send a message, a client ask for the next
page or a beneficiary collect a claim, and the properties of those models are safety properties.

### Findings

* `transfer_moves`: the cw20 README says that `Transfer` "Moves `amount` tokens"
  (`packages/cw20/README.md:20`); the recipient is credited with the base value, more
  than the sender loses (`src/contract.rs:277`).
* `demurrage_timestamp`: the timestamp of the last demurrage never advances
  (`src/contract.rs:804` drops the sum), so each payment decays the amount again by all
  minutes since the instantiation; `src/state.rs:38` says otherwise.
* `mint_cap`: `src/state.rs:22` says that "cap is how many more tokens can be issued by the
  minter"; `execute_mint` holds the total supply against the cap (`src/contract.rs:397`) and
  leaves the cap as it is, so a mint does not use it up and what is burnt may be minted again. The
  cw20 README describes the code (`packages/cw20/README.md:136-139`: the maximum
  `total_supply`, and burnt tokens can be minted again). `SupplyWithinCap` and the cap in
  `SupplyControl` are that reading.

### Observations

What reading and modelling showed beside the findings; no run refutes a statement of the
repository here.

* `change_period` computes the amount of the period it enters with `grow_by` (`src/contract.rs:709`,
  `856-861`) over all minutes since the period it leaves began, without a limit, and does not use
  the result: with time its factor overflows and payments stop, as `FrozenUntilTaxLevelChanges`
  says. The safety limit of which `src/contract.rs:791` speaks is that of the rounds in
  `apply_demurrage_limited`, and the only caller passes none (`src/contract.rs:760` says so).
* A new tax level applies to all minutes since the instantiation, at the next payment, because the
  timestamp never advances (`src/contract.rs:217`, `804`). No document says from when it should hold.
* `src/state.rs:40` says that `period_minute` is in minutes; `instantiate` stores seconds
  (`src/contract.rs:64`), and every use reads seconds.
* `AllAllowances` lists "all non-expired allowances" (`packages/cw20/README.md:149`);
  `enumerable.rs:21-32` lists expired ones too. `ListingsAreComplete` is about keys, whatever
  is stored under them.
* `packages/multi-test/DESIGN.md:64` says that migration is not supported; `wasm.rs` has it, and
  `Router` models it.
* An increase of an allowance by `amount` adds `amount` and its base value (`src/contract.rs:528`);
  the cw20 README describes `amount + current_allowance` (`packages/cw20/README.md:84`).
* The loops of the decay run over `1..period`, one pass fewer than there are minutes, so the first
  minute decays nothing (`src/contract.rs:878`). `10u32.pow(decimals)` panics from 10 decimals
  on, while up to 18 are accepted (`src/contract.rs:89`).
* `MultiIndex::prefix_range` (`indexes/multi.rs:290-308`) and `UniqueIndex::prefix_range`
  (`indexes/unique.rs:181-198`) decode the entries of the index itself as records, where
  `range` follows them to the records. No test calls either;
  `prefix_range_raw` of the multi index is tested, and modelled.
* An indexed save that is refused leaves the record without its old index entries until the
  transaction is undone (`indexed_map.rs:94`): a handler that carries on after the error keeps
  that, which is the mutant of `IndexesMatchPrimary`.
* `may_pay` (`payment.rs:41-53`) unwraps the only coin of another denomination and panics when several
  coins all have the wanted one. Adding a coin of zero to a balance leaves an entry of zero
  until `normalize`.
* `threshold.rs:84-86` accepts exactly one half, where two halves may decide against each other; the
  comment on `valid_quorum` says `0.5 < percent` (`threshold.rs:92`), while any percentage but
  zero is accepted, as a quorum may be small.
* `parse_reply.rs` reads two of the three bits of the wire type; data that end between two
  fields are taken for data without the later ones; an empty address with data behind it is
  refused. The conversion of a length to `usize`, 32 bits on the chain, is not modelled.
* Tuples of tuples on the left serialize as keys and do not deserialize.
* `claim_tokens` computes the sum it compares with the cap (`claim.rs:72`): a claim near the largest
  amount behind one that is paid makes every payment panic, however small the cap.

## 4. Proofs

Assumptions, all named and evaluated by TLC on every run of their module:
`ResolutionAssumption` (the resolutions are positive, their products as in the code, and the
fixed-point one fits a `u128`), `ContractAssumption` (addresses are finitely many and
distinct from invalid names; what messages carry is typed), `StorageAssumption`,
`SnapshotAssumption` and `IndexAssumption` (bounds are numbers, clients finitely many, `None`
and its like are no values), `RouterAssumption` (users are finitely many and no
contracts, transactions are typed, the app starts with contracts at the first addresses)
and `ReceiverAssumption` (token and vault are instantiated, without admin, with equal
books, and users sign), and `ControllersAssumption` (amounts and caps are within the width,
releases finitely many, `None` and `Unset` are no values), and, for ranges, `KeysAreOrdered`
(keys are finitely many integers: of their bytes only the order is used), and
`CollectionsAssumption` (the four names differ and are text; the item's name does not begin
with one of the other names behind its length, which is how a path begins; a key has the parts its
type says, each shorter than what two bytes can count, as the 64 kB to which the chain limits a key
make sure; index keys of one index have equally many parts; `None` is none of what may be
there), and `StoredAssumption`, the same of the five names of an indexed snapshot map, its
keys, which are one part, and its index keys; keys and index keys are one to one with their bytes, and
the heights are `u64`: `MaxHeight` is below 65536 to the fourth power, written with three divisions
since the provers take no such numeral. Nothing bounds the addresses, the amounts, the tax levels, the
widths, the number of blocks, contracts, codes or messages, or the depth of calls; the bounds
`MaxContracts`, `MaxSubmessages` and `MaxTransactions` may be any.

The theorems of `RouterProofs` assume more, of the operator parameter `Responses`, for which a named
`ASSUME` cannot be evaluated on every run. `ResponsesAreTyped`: what a contract answers is a
response; it may otherwise be anything, and differ from call to call. `MCRouter`
evaluates it on the contracts of its run (`AnyResponsesAreTyped`). `TokenAndVaultAnswer`:
codes 0 and 1 answer as the token and the vault of `TokenReceiver`; all others may be any.
`ReceiverContractsAnswer` proves both of the contracts that `TokenReceiver` defines.

The inductive invariant is `Inv` (`DemurrageTokenProofs`): `TypeOK`, `SupplyWithinCap`,
`DemurrageAmountPositive`, `CountedPeriodsHaveBegun`, and `ClockIsPast`, which says that
stored times are not later than the block. None of the parts is inductive alone. A proper type of
the state needs the minutes since `demurrage_timestamp` to be a natural number, so it needs
`ClockIsPast`; the sums of balances need base values not below their amounts, and those
follow from a demurrage amount within its initial value; `DemurrageAmountPositive` after a
payment follows from the division in `to_base_amount` not having panicked. The steps of
`StepInv` are one lemma per message.

* `DemurrageTokenProofs`, first the pure facts. A pass of the decay loop lowers the factor,
  so by induction over the passes (`FunctionLemmas`) `decay_by` never raises its value
  (`DecayLowers`), for every tax level and number of minutes. A pass that did not panic shows
  that the tax level is at most one, so later passes do not panic either and yield no
  more: what decayed to zero stays zero (`DecayStaysZero`). A base value covers its amount
  (`BaseAmountCoversValue`), a distribution is at most the supply (`DistributionWithinSupply`).
  Then `Invariance`, and from it `TypeCorrect`, `CapHolds`,
  `DemurrageStaysPositive`, `PeriodsHaveBegun`, `DemurrageOnlyDecays`,
  `OnlyTheMinterIssues`, `SpendingIsAllowed` and `OwnerGrantsAllowances`.
  With the sums of `FunctionLemmas`, a debit, a credit, a move and a redistribution change the
  holdings by what they say (`DebitTotal`, `CreditTotal`, `MoveTotal`,
  `RedistributedTotal`); every message is then a step of `SupplyControl` or leaves what it
  sees (`StepRefines`). That gives `Refinement` and `SupplyStaysBacked`. `TaxIsPaid`
  follows the sink's balance through each message that changes the period. `PaymentsStayFrozen`:
  with a demurrage amount of zero every conversion to a base amount divides by zero, so
  no message that pays or mints succeeds, and with `DecayStaysZero` it is so in every
  later block, until the tax level changes. A pass of the growth loop that panicked panics in
  every longer loop (`GrowthStaysPanicked`), and cycles only become more (`StillOverflows`); both
  are `Frozen`, which a step keeps (`FrozenStep`).
* `FunctionLemmas`: the library's sum of a function over a finite set, by induction over subsets: it
  changes by what one element changes by, and does not depend on the order.

* `StorageProofs`: `TypeOK` and `LogMakesView` are inductive together. A write changes the view
  by what it appends to the log. Replaying a log on a cache makes the cache show what
  replaying it on the store behind that cache would make, and appends it to the
  cache's own log; both by induction over the passes of the replay (`StepsTaken`). From
  that each step of `StorageTransaction` is the step of `Savepoints` of the same name
  (`Refinement`), for any keys, values and depth.

  Ranges: the entries of a map in a range are a sorted list of its records, and there is one
  such list (`EntriesFacts`, `SortedUnique`: a record stands behind as many as have smaller keys).
  The invariant of the merge is `Merging`: both sides and what was given are sorted, and what
  was given comes before what is left. Every call of `next` keeps it and `Gives`, what was
  given together with what is still to come, and moves on unless both sides are used up
  (`NextStep`, from `PickMatch`, `TakeLeft`, `TakeRight` and `DropRight`). So the merge gives the
  cached values and those below that are not cached (`CollectedFacts`), which are the records
  seen through the cache (`MergedOverlay`). By induction over the open transactions
  `RangesReadView` follows from `TypeOK`, and with that `RangesAreRight`.

* `SnapshotProofs`: a read of height `h` is the first entry at `h` or later, or the current
  value. A write can disturb it only when there is no such entry, and then the write is logged
  (`UnloggedIsLogged`: no entry since the open height means none since the latest checkpoint
  either, which is where the code looks). So each step keeps what a height that
  answers gives (`StepKeepsReads`, `ReadsAreStable`). `ReadsCorrect` needs, beyond that, what
  holds within a block (`HeldInBlock`: an entry of the current block and the current value
  are among those held in it); together they are `HistoryInv`. `CheckpointsHeld` follows from
  `CountsHolders`: the counter of a height is the number of clients that hold it.
  `IndexedRefinement` maps every step of an indexed map to one of the map or to a
  stutter. `IndexesCorrect` rests on what an index lists once a key is taken out of it
  (`WithoutMatch`). All for any strategy, keys, values, indexes, clients and heights.

  In bytes: the inductive invariant `StoredInv` adds that the storage is `Laid` out as the map:
  below each of the five names there is what the records, the checkpoints, the
  changelog and the two indexes have, each at its own key, and nothing else. `TailsApart`: no two have
  one key; for the changelog because a height is read back from its eight bytes, for
  the multi index because the stored parts are told apart before the primary key begins.
  So a write below one name leaves the others (`PutRecord` to `PutUnique`). A read of the past
  is the first entry of a range below the key, which is the lowest logged height (`LoggedFirst`, with
  `UintOrder`: big-endian bytes order as their integers); whether to log asks the last
  checkpoint in descending order (`OpenLatest`, `ShouldIs`). With these a write is logged in
  bytes exactly when the map logs it (`WriteLaid`); `ReplaceLaid` follows an indexed write through the
  removal of the old entries, the new ones up to a refusal (`OldGone`, `NewEnters`), the
  log and the record. It is refused exactly when the map refuses it, which is why the
  contents must be exact in both directions: one stale entry would be a refusal too many.
  That gives `StoreAnswers`. With what is proved of the map it gives what a client may expect
  of the bytes alone: `StoredReadsCorrect`, that what is read for a past height is a value of
  that block and stays the same, and `StoredIndexesCorrect`, that the bytes of the indexes list the
  records now read, without a stale entry or a missing one. `Laid` speaks of all byte strings, and
  so TLC cannot evaluate it: it checks `StoreAnswersAsMap`, which follows from it.

* `StoreLemmas` and `CollectionsProofs`: the first about bytes and any storage of them, and what both
  `CollectionsProofs` and `SnapshotProofs` rest on. `FirstDifference` makes the order of byte strings one of positions, and a
  total one (`BytesOrder`). A part behind its length can be told from what follows it, and orders
  by its length first (`PrefixedOrder`); by induction over the parts a key can be read back from its
  bytes and orders as its parts do (`JoinedOrder`). So paths of different names or keys differ
  (`PathsApart`), also those of the entries of a multi index, behind whose index keys the primary
  keys come. The inductive invariant is `StoreOk`: every path in the storage is that of one key of one
  collection or one entry of an index, the multi index holds the entries of the current
  values and no other, and the entry of the unique index is a copy of its record. Refinement
  alone would not be inductive: that a record is refused when its unique key is taken shows
  only in the index. A replacement is followed through the removal of the old entries
  (`OldLeaves`), the new ones up to a refusal (`NewEnters`) and the record (`Replaced`). That
  gives `StoreIsConsistent` and `CollectionsImplementKeyedRecords`, for any names, keys, values
  and index keys.

  Ranges: the k-th of a finite set in a total order is the one with k - 1 before it (`Ranked`), and a
  function that keeps the order takes the k-th to the k-th (`TailsDecoded`). The bytes between
  a prefix and its `increment_last_byte` are those that begin with it, provided
  that the increment does not run over every byte (`CarriedAt`): names are text and lengths are below
  65535, and both halves of that are needed. So a range reads the `Tails` of a prefix between its
  two bounds (`RangeFinds`). What is left is to say, for every kind of range, which keys the
  tails stand for: whole keys (`WholeRange`), the last part (`BelowRange`), whole keys between two
  first parts (`PartStart`, `PartEnd`, `PrefixesRange`). That gives `RangesFindRecords`. In the multi
  index the tails are index keys with the key of the record behind them (`MultiTails`), below one
  index key only the latter (`MultiBelowTails`: its parts are told apart from longer and shorter ones), and the
  stored length finds the key again (`PkIs`); in the unique index they are the index keys, which
  only one record can have (`UniqueTails`, `OneHolder`). That gives `IndexesFindRecords`.

  Listings: `ListInv` says that what the client was given is in order, and that each key that was
  there all along was given or is behind the last one given. It is about the last key, not about
  a position, and so a write before that key disturbs it no more than one behind it. A page
  takes the first of those behind (`PageIs`), and an empty page says that there are none
  (`LastPage`): `ListingsStayComplete`.

* `RouterProofs`: what one call or message does is an `Effect`: the storage it leaves is typed
  and takes at most the outlay from the sender only, and it fails, returns, or pushes one
  response. `CallStack` is the inductive invariant of all steps: frames are `Stacked` as the
  code calls, `control` is what the innermost frame `WaitsOn`, there are as many storages
  as open transactionals (`Level`), and each is a `GoodStore`, whose balances add up to what
  was issued and whose contracts have the first addresses. From it `TypeCorrect`,
  `MoneyIsConserved`, `ContractsHaveTheirAddresses` and `DataAreTheContracts`. `Owing` adds
  what a storage owes: the one around a transactional owes what the frames from that one
  down have still to carry out, the innermost what all have, so that an empty stack
  owes nothing (`NothingIsOwed`). It has to be said of every open storage, since a failure
  goes back to any of them. `Governing` says the same way of every storage that a user has
  paid at most what his messages begun so far say (`Spending`), and that contracts keep
  their admins (`Administered`): `SignersPay`, `AdminsMigrate`. Steps inside a message carry
  both over, because each storage after them is one there was (`Carried`).
* `RouterProofs`, of `TokenReceiver`: between the token's move and the vault's booking their books differ. A
  storage is `Even` when they differ by what is `Promised` to the message on its way: a
  notification will book it, a `Send` of the vault will take it back. `Delivering` says
  that the innermost storage is even in that sense; that each storage to which a survived
  failure returns is even without a promise (`Rescued`: those around the app's transactional
  and around submessages that reply on error); and that the two send one message,
  without reply, so that its failure is always theirs (`Careful`). Without `Rescued` a
  caller could survive a failure half way, without `Careful` the vault could.
  `VaultHoldsDeposits` and `UsersReceiveNothing` follow: a user has no tokens beyond those
  before the transaction but those promised, and his notification can only fail.

* `ControllersProofs`: hooks are listed once each, and stored claims are lists of claims
  (`ControllersInvariant`). Appending an address that is not listed and removing the first entry
  of one that is keep that and change the set by one (`HookAdded`, `HookRemoved`); with
  `assert_admin`, which every message about them starts with (`SenderIsAdmin`), it gives
  `HooksStayGoverned`. `LedgerRefinement` follows the loop of
  `claim_tokens`: after each claim, what was taken so far is mature, adds up to what
  is paid and fits under the cap, and no mature claim that waits would still fit
  (`SettledSoFar`, `AllSettled`). The last part survives later payments because the sum only
  grows. So a payment takes a part of what is owed that the ledger allows, whatever the
  order of the list (`PaymentIsPaid`), and a claim that is created is one more owed
  (`ClaimIsOwed`).

Only model-checked: the helpers of `utils` and the
unit tests, which are evaluated on given inputs (`HelpersMatchReferences`, `AgreesWithTests`); that
transactions end (`TransactionsEnd`). Every other property of a passing run is a theorem. Out of
the prover's reach: liveness under fairness, `ENABLED`, what a recursive definition computes
for every input, and any module that declares a `RECURSIVE` operator; recursion is therefore
written with recursive functions.

## 5. Plan

Done: storage transactions and ranges through them, with their theorems; the message router and its composition
with the token, both with their theorems; snapshots and indexed snapshots, as values and in bytes, with
their theorems; keys, items, maps, indexed maps, their ranges and the listing client in bytes, with their
theorems; controllers, with their theorems; the helpers of `utils`.

To come, in this order:

1. **Router.** Several denominations: the bank of `bank.rs` over `NativeBalance`.
2. **The token again.** A third address for allowances; the instantiation's life cycle with
   more than nine decimals; liveness (a payment refused because its period has not begun
   becomes possible as blocks follow each other).
