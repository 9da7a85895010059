# The multicoin treasury in TLA+

This directory holds a model of the multicoin treasury DAO: TLA+ modules
translated from the source, TLC configurations that check small instances of
them, and theorems checked by TLAPS for instances of any size. Paths below are
relative to the repository.

## 1. Inventory of the system

| Component | Source | State it keeps | Operations |
|---|---|---|---|
| Treasury pallet | `solochain/pallets/template/src/lib.rs` | `Proposals`, `NextProposalId`, `HasVoted`, `Deposits`, `TotalStake`, `Karma`, `Vault` | `create_proposal`, `vote_proposal`, `finalize_proposal`, `deposit`, `withdraw`, `seed_vault` |
| Balances (external) | configured in `solochain/runtime/src/configs/mod.rs:122-139` | free and reserved balance of each account | reserve, unreserve, transfers; reaping below the existential deposit |
| Arithmetic (external) | used in `lib.rs`, configured in `configs/mod.rs:161-173` | none | saturating arithmetic, `Permill`, `mul_floor` |
| Runtime | `solochain/runtime/src/{lib,apis}.rs`, `configs/mod.rs` | nonces, the sudo key | checks an extrinsic, takes its fee, makes its call in a storage transaction; `sudo`, transfers and other calls around the pallet |
| Genesis presets | `solochain/runtime/src/genesis_config_presets.rs`, `node/src/chain_spec.rs` | none | endow accounts, name authorities and the root key; chosen by the `--chain` argument |
| Node service | `solochain/node/src/service.rs` | transaction pool, block database with its best and its final block, GRANDPA round and votes | starts, imports blocks of peers, authors them (Aura), makes them final (GRANDPA) |
| Node RPC | `solochain/node/src/rpc.rs` | none | next index of an account, fee queries |
| Command line | `solochain/node/src/{command,cli,main}.rs` | none of its own | chooses the chain; `import-blocks`, `purge-chain` and `revert` change the database of a node that is down |
| Benchmarks | `solochain/node/src/benchmarking.rs`, `runtime/src/benchmarks.rs` | none | build and sign `remark` and `transfer_keep_alive` |
| Proposal page | `frontend/src/components/Proposal.tsx` | a snapshot of one proposal, the current block, a `voting` flag | load, vote, finalize |
| Create form | `frontend/src/components/create-proposal.tsx` | the draft, a `submitting` flag | submit |
| Deposit dialog | `frontend/src/components/{navbar,stake-pop-up}.tsx` | an amount | deposit |
| Profile page | `frontend/src/components/profile.tsx` | account, stake, karma, a table of events | load, scan blocks backwards |
| Proposal list | `frontend/src/components/proposal-list.tsx` | snapshots of all proposals, two filters | load, filter |
| Portfolio | `frontend/src/components/portfolio.tsx` | a snapshot of the vault | load |

### How the components interact

* The runtime runs one extrinsic at a time. A call of the pallet is atomic: FRAME
  executes it in a storage transaction, and an error takes every write back.
  Concurrency is the order in which the extrinsics of all accounts, and the
  blocks they fall in, arrive.
* The pallet calls `T::Currency` (balances) to reserve and unreserve; the
  balances pallet never calls back. Users transfer balances around the pallet,
  which may reap accounts that have nothing reserved.
* Proposals share the vault: each decision reads and writes the entries the
  others will be checked against. Voters share `TotalStake`, from which
  every quorum is taken at the time of the decision.
* Around a call the runtime takes a fee from the caller's balance, which may be what is
  left beside a stake, and spends a nonce, which lives as long as the account does.
  The sudo key reaches past the pallet into balances.
* Nodes share blocks, votes and transactions and nothing else. Each keeps a database
  that survives it; the pool, and what the Aura worker has done, do not. The operator
  changes a database only while its node is down.
* The frontend reads storage and block headers over JSON-RPC and submits signed
  extrinsics; the node answers with a stream of statuses to a callback.

### Which behaviours are hard

* The same account stakes, votes, withdraws, transfers and is rewarded in any
  order, while weights are read at the time of the vote and the quorum at the time
  of the decision.
* Two copies of one fact: a deposit and the balance reserved for it,
  `TotalStake` and the sum of `Deposits`, a tally and the voters in `HasVoted`.
* Decisions race: with further votes, with each other for the vault, with the end
  of the period, and with themselves (`finalize_proposal` is open to anyone, any
  number of times).
* Boundaries: the last block of a period, a stake of zero, the largest id, saturated
  tallies, vault entries and karma, rounding of thresholds, the existential deposit.
* Failure in the middle of a call: an id that overflows after the insert, a swap that
  fails after the status is set, an unreserve that pays less than asked for.
* Signed extrinsics are kept, repeated and sent in any order, by anyone; accounts are
  reaped and come back with a nonce of zero.
* Nodes crash in the slot they have authored in, restart on old databases, miss rounds,
  sit on losing forks; operators take a voter's memory away.
* In the frontend: statuses that arrive late, twice or never; snapshots that are
  stale; effects that are re-run while they wait.

### What makes each component correct

* *Stakes*: each deposit is backed and paid back to the unit; the total is the sum;
  nobody with a stake is reaped; no money is made.
* *Proposals*: ids are never reused; terms never change; each account votes once and
  in time, at the weight it had; the tally is what was cast.
* *Decisions*: at most one, in time, in agreement with the tally, never revised.
* *Vault and karma*: the vault falls only by approved swaps, by their exact amounts;
  karma is one point for each approved proposal of the account.
* *Runtime*: an extrinsic applies once; nobody's money, stake or vote moves without
  theirs or the sudo key's; fees and transfers leave stakes covered and stakers alive, and so do
  the calls of Root that section 2 lists, except for an account whose reserve Root has released.
* *Nodes*: final blocks agree and reach every node that stays up; a database is coherent;
  a slot has one block.
* *Frontend*: from the messages shown for a transaction it can be told what became of it, as far
  as section 4 says; the buttons of votes and of the form wait while, and only while, a
  transaction of their page is out, and are released in the end; a record
  shown is of the chain's past; voting or deciding twice does nothing twice. A profile is the
  account's history without a hole, and is not overwritten; a list has every proposal
  of its past, in order.

## 2. Modules

| Module | What it is |
|---|---|
| `Arithmetic` | saturating arithmetic, `Permill`, `mul_floor`, the two configured thresholds |
| `Treasury` | the pallet: state, one action per call, properties |
| `Governance` | what the treasury promises, without stakes, weights, thresholds or blocks |
| `TreasuryRefinement` | the mapping under which `Treasury` implements `Governance` |
| `TreasuryAudit` | `Treasury` with a memory of every ballot and every seeding |
| `TreasuryClaims` | what the repository's words say where the code does something else |
| `Genesis` | the presets and the chains that name them |
| `Runtime` | signed extrinsics around `Treasury`: nonces, eras, fees, reaping, the sudo key |
| `Solochain` | the network of nodes: authoring, import, finality, pool, crashes, the operator's commands |
| `Ledger` | what the network promises of final blocks, without slots, forks, votes or crashes |
| `SolochainRefinement` | the mapping under which `Solochain` implements `Ledger` |
| `Client` | one browser tab beside the treasury: the proposal page, the form, the dialog |
| `Profile` | the profile page beside a chain that grows, forks, becomes final and is pruned |
| `Listing` | the list of proposals beside the treasury |
| `MCTreasury`, `MCTreasuryAudit`, `MCRuntime`, `MCSolochain`, `MCClient`, `MCProfile`, `MCListing` | small instances for TLC |
| `SumProofs`, `TreasuryProofs`, `AuditProofs`, `RuntimeProofs`, `SolochainProofs`, `ClientProofs`, `ListingProofs`, `ProfileProofs` | the theorems |

`Treasury` is the centre: `TreasuryAudit`, `Runtime`, `Client` and `Listing` extend it, each
with the state of one kind of user or observer, and every call of theirs is the action of
`Treasury` itself. `Runtime` and `Solochain` share `Genesis`. `Solochain` knows of a transaction
only that it is valid once on a chain, which is what `Runtime` shows.

### State and actions of `Treasury`

| Variable | Code |
|---|---|
| `proposals`, `nextProposalId`, `hasVoted` | `Proposals`, `NextProposalId`, `HasVoted` (`lib.rs:107-134`); `NoProposal` is an absent entry; `hasVoted[id]` is the set of accounts whose entry is `true` |
| `deposits`, `totalStake`, `karma`, `vault` | the storage items of the same names (`lib.rs:121-146`), with 0 for absent entries (`ValueQuery`) |
| `free`, `reserved` | the account data of `pallet_balances` |
| `now` | the block number of `frame_system` |

| Action | Code |
|---|---|
| `CreateProposal`, `VoteProposal`, `Deposit`, `Withdraw`, `SeedVault` | the calls of the same names |
| `Approve`, `Reject` | the two branches of `finalize_proposal` |
| `NextBlock` | the next block begins (external) |
| `Transfer` | `pallet_balances::transfer_allow_death`, with reaping (external) |

An action is enabled exactly when its call returns `Ok`; a call that fails changes
nothing and is a stuttering step. Within a call the order of the checks only
decides which error is reported, and is not kept. `seed_vault` never looks
at its origin, so its action has no account.

Left out of the state: title and description (never read by the pallet; their
bounds are enforced by decoding), the record's own `id` field (always its key),
events. Abstracted: accounts, coins and block numbers are small sets; all widths
(`u128`, `u32`), the existential deposit, the durations, `KarmaUnit` and both
thresholds are constants with named assumptions.

### The abstract specification

`Governance` knows motions, members, holdings and merit: a motion is opened once on
terms that never change, each member votes at most once and only while it is open,
it is carried or lost at most once, and holdings shrink only when a motion is carried,
by its terms, which earns its author one merit. `TreasuryRefinement` maps a record to a
motion by its status and hides the rest. The refinement matters because
everything `Treasury` adds (weights, thresholds, periods, stakes, balances) only
restricts *when* these five steps happen.

### State and actions of `Runtime`

| Variable | Code |
|---|---|
| those of `Treasury` | the storage of the pallet and of balances |
| `nonce`, `key` | `frame_system`'s account nonce, `pallet_sudo`'s `Key` |
| `stage`, `running` | the phase `Executive` enters next and the extrinsic it applies (`runtime/src/lib.rs:176-184`) |
| `signed` | every extrinsic ever signed: whoever has one may submit it, at any time, again |
| `life`, `ran`, `forced` | history: how often an account was reaped, what was applied when, whose reserve root released |

| Action | Code |
|---|---|
| `Sign` | a wallet, with a nonce the node's RPC may name (`rpc.rs:26-60`) and an era that begins at the best block |
| `PreDispatch` | `TxExtension` (`runtime/src/lib.rs:149-161`): era, nonce, fee |
| `Dispatch` | the call, which returns an error exactly when its action is not enabled, and then changes nothing; what has no existential deposit left is reaped, its nonce with it |
| `Sudo`, `SetKey`, `RequireSudo` | `pallet_sudo`; `RootCall` has these calls of Root: every modelled call as any account (`sudo_as`), `force_transfer`, `force_unreserve`, `force_set_balance`, `seed_vault` |
| `PostDispatch` | the fee of a sudo is paid back, unless the account is gone |
| `BuildBlock` | the next block begins |

`Executive` applies one extrinsic at a time; the phases are actions of their own
because each works on the balance the last one left. Weights, lengths and versions are left
out: they only delay or refuse an extrinsic. Tips are left out, and the fee is a constant. An
immortal extrinsic is one whose era is longer than the chain (`EraPeriod`); eras of different lengths
are not mixed.

`pallet_sudo` admits any call of the runtime (`configs/mod.rs:155-159`), also those of `frame_system`
with which Root writes the storage or the code itself: `set_storage`, `kill_storage`, `kill_prefix`,
`set_code`. They can rewrite every record, key and balance, so nothing the pallet does is
safe from them. They are not modelled, and every statement about Root below, run or theorem, is about the calls
in the table only.

Root may make money (`force_set_balance`), so `FundsConserved` and `StakeTotalled`, whose sum
may then saturate, are promised of `Treasury` and not of `Runtime`.

### State and actions of `Solochain`

A block is modelled as the chain that ends in it, a sequence of slots and bodies; genesis is the empty
one. A message is read from where its sender keeps it, so it may come late, repeatedly, in any
order or never.

| Variable | Code |
|---|---|
| `slot` | the slot of the wall clock, one for all nodes |
| `up`, `worked`, `pool` | what a process keeps: whether it runs, whether its Aura worker has had its turn in the slot, its transaction pool (`service.rs:67-76`) |
| `known`, `best`, `final`, `round`, `voted` | the database: blocks held, the best and the last final one, the GRANDPA voter's state |
| `votes` | every vote ever signed |
| `forgot` | history: the voters whose database forgot a vote of theirs |

| Action | Code |
|---|---|
| `Start`, `Stop` | `new_full` (`service.rs:130-330`); a crash, or the end of an essential task |
| `Submit` | a transaction reaches a pool |
| `Author` | the Aura task (`service.rs:239-285`), which only authorities run, with `force_authoring` and `LongestChain` as given there |
| `Receive` | the import queue (`service.rs:86-115`) |
| `Vote`, `Conclude` | the GRANDPA task (`service.rs:287-329`), which every node runs, unless told not to, and only authorities vote in |
| `ImportBlocks`, `PurgeChain`, `Revert` | the commands (`command.rs:80-103`), while the node is down |
| `Tick` | the wall clock |

Aura, GRANDPA, the client and the pool are crates outside the repository. What is kept
of them is what `service.rs` chooses, and a round of GRANDPA is one vote of each voter: the default
voting rules decide how far below its best block a voter votes, which the model leaves open.
With up to three authorities of weight one, as in both presets, a supermajority is all of
them (`PresetAssumption`). The authorities never change: nothing in this runtime can change them.
A command that only reads (`export-blocks`, `check-block`, `build-spec`, `key`, `chain-info`,
`benchmark`) is not an action; what `export-blocks` wrote is what `ImportBlocks` reads.

`Ledger` is its abstract specification: one ledger, of which every node keeps a copy that may lag but only
grows and agrees with all others, unless an operator erases it; and nothing at all once the network is no longer
intact, that is once a voter's database has forgotten a vote. `SolochainRefinement` reads each node's final
block as its copy.

### State and actions of `Client`

`Client` extends `Treasury`: the chain goes on with any call of any account (`Chain`) while
one tab reads it and sends transactions of its own.

| Variable | Code |
|---|---|
| `page`, `id` | the router's location (`main.tsx:14-26`, `useParams` in `Proposal.tsx:46`); `"list"` stands for every page that sends nothing |
| `loading`, `data`, `voting` | the proposal page's state (`Proposal.tsx:48-52`); `dataId` remembers what `data` was loaded for, `fetching` that the effect runs |
| `submitting` | the form's state (`create-proposal.tsx:24`) |
| `dialog` | `stakeOpen` (`navbar.tsx:33`) and Formik's `isSubmitting`, which stays set until the dialog goes away |
| `txs` | the transactions the tab has sent: where each is (signing, unsent, pool, executed, failed, lost), whether anybody still listens, whether its page is still mounted, from how many blocks it was retracted, the blocks its callback is still to hear of, and what was shown for it |

| Action | Code |
|---|---|
| `Open`, `Jump`, `Reload` | navigation; `Jump` goes between two proposals through the history, which keeps the component and its state |
| `Load` | the effect's query (`Proposal.tsx:83-127`), found or not |
| `HandleVote`, `HandleFinalize`, `HandleSubmit`, `OnConfirm` | the handlers up to `signAndSend`; their guards are what the page offers |
| `Refuse`, `Submit` | the handler throws, or the node takes the transaction. A handler may throw although the node has taken it: the answer is lost with the socket, or times out |
| `Include`, `Retract`, `Drop` | the node: a block that stays runs the call, with its result; one that does not stay runs it; or the pool gives it up (external) |
| `Disconnect` | the handler's connection closes; it is opened again, without its watch of the transaction (external) |
| `ReportAndReload`, `ReportCreation`, `ReportDeposit` | the callbacks, on every `isInBlock` and again on `isFinalized` |

The awaits inside a handler are one interval between its action and `Refuse` or
`Submit`, in which anything else may happen. What the wallet, polkadot.js and
the node do in it is external. Only a reload ends a handler or a callback, or the end of its
connection: leaving the page does
not, so a vote's report reloads whatever page the user is on by then.

The treasury's variables are the chain of the blocks that stay. A retracted block appears by what the callback
hears of it: the transaction is back in the pool, and a later block may run it with another
result. Two bounds go with this: a retracted block runs the transaction on the state of the blocks that stay, and
no page is loaded from it.

### State and actions of `Profile`

`Profile` has a chain of its own: a sequence of blocks, each a sequence of the pallet's
events, of which a part is final and a part of that is pruned. It stands
apart from `Treasury`, whose states have no past to scan.

| Variable | Code |
|---|---|
| `account`, `loading`, `stake`, `rows`, `tablePage`, `rowsPerPage` | the page's state (`profile.tsx:50-60`) |
| `phase`, `mounted` | for the effect's two runs, the await each is at, and its variable `mounted` |
| `scan` | a run's `current`, `b` and `out`; with two histories, of the best block when the stake was read and of the final one when the head was |

| Action | Code |
|---|---|
| `NoAccounts`, `SetAccount`, `Enabled` | the wallet's answers; `SetAccount` includes the clean-up of the first run and the start of the second |
| `Connect`, `ReadStake`, `ReadHead` | the awaits up to the loop (`profile.tsx:84-106`) |
| `ScanBlock`, `Break`, `Fail` | a block of the loop, its inner `catch`, and the outer one |
| `ChangePage`, `ChangeRowsPerPage` | the table's controls |
| `NewBlock`, `Fork`, `Finalize`, `Prune` | the node (external) |

That React starts the second run before the first has its connection is an
assumption: the state update is flushed by a task the browser has at hand, a connection takes
several answers of the node. Leaving the page ends everything the user sees of it and is not
an action.

### State and actions of `Listing`

`Listing` extends `Treasury`. `reading`, `keys` and `answers` are what the effect's awaits
hold, `listed` is the state `proposals`. `ReadKeys` takes the ids of one block;
`ReadRecord(i)` is an answer, of the block of its own moment, and with the last of them the list is
sorted and shown (`Show`); `Fail` is the error nobody catches. The keys come in the order of
their hashes, which is any order, and the sort by block of creation leaves two records of one block
in it; so `Show` allows every order that is `OldestFirst`. The filters are parameters of
`FilteredProposals`, which is the set of places in the list that are left. The author's filter is a text,
and `Containing` gives the accounts whose address has it somewhere, in any case of its letters
(`proposal-list.tsx:96-98`): none, one or several.

Two bounds: the keys come in one page (the library asks for a thousand at a time, and for the next thousand of
whatever block is the newest by then), and the blocks that are read from stay.

## 3. Runs

Run a configuration with `tlc -config X.cfg M`.

| Run | Configuration | Question | States |
|---|---|---|---|
| stake | `MCTreasury_Stake.cfg` | do stakes, balances and the voting period hold in every order of calls of two endowed accounts? | 740 000 |
| proposals | `MCTreasuryAudit.cfg` | do two proposals that race for two coins ever contradict themselves, each other, a memory of every ballot and seeding, or `Governance`? | 1 170 000 |
| runtime | `MCRuntime.cfg` | can fees, repeated or reordered extrinsics, reaping or the modelled calls of the sudo key break a stake, apply anything twice, or move anything unsigned? | 2 200 000 |
| finality | `MCSolochain_Finality.cfg` | do two authorities, one of which stops, restarts and is operated on, agree on what is final, with coherent databases and one block a slot? | 417 000 |
| network | `MCSolochain_Network.cfg` | is what is final one ledger of which every copy only grows, and does a node, here a full one that may stop and start, stay behind it? | 59 000 |
| votes | `MCClient_Votes.cfg` | what do the messages allow to be concluded, are the buttons held, and are votes and decisions executed once, whatever the user repeats, handlers throw and blocks are retracted? | 972 000 |
| waiting | `MCClient_Waiting.cfg` | is every waiting button released, and is the record a page shows ever ahead of, or contradicted by, the chain? | 620 000 |
| profile | `MCProfile.cfg` | is the table the account's history, whatever the chain does during the scan, does it agree with the stake, does it stay, and does loading end? | 1 160 000 |
| listing | `MCListing.cfg` | is the list complete, of the past, in order, and true where filtered? | 273 000 |
| two_thirds, no_voters, late_winner | `MCTreasury_<Claim>.cfg` | are the repository's own statements true of the code? (each is refuted) | small |

### Bounds and why they are enough

* *Widths.* `MaxBalance`, `MaxCoin`, `MaxKarma` and `MaxProposalId` are a handful
  instead of 2^128 and 2^32, chosen so that each is reached: tallies saturate
  (`MaxBalance` 4 to 6 against weights of up to 5), vault entries saturate (`MaxCoin`
  1 or 2), karma saturates in `runtime` and the runs of the frontend (`MaxKarma` 1), and in all runs the last
  id makes `create_proposal` fail. The largest id itself never gets a record.
* *Blocks.* The first block is 1. `MaxBlock` 2 to 4 in the runs about proposals, with durations
  that end before, at and after it: they have periods that are running, in their last block and over. In `stake`
  durations go from below the minimum to above the maximum, so both checks refuse.
* *Accounts and coins.* Two of each: one to act and one to interfere, a coin to debit
  and a coin to credit. In `proposals` only one account is
  endowed, so that the second lives, stakes and is reaped by transfers alone.
* *Permill.* `Accuracy` 6 with thresholds 4 and 3 in the passing runs (two thirds and
  a half, with rounding at amounts that are not multiples of six); the refuting
  runs use the real million and the configured values.
* `MaxSeeded` bounds the audit's count of seeded coins; the pallet has no such bound.
* *Extrinsics.* Three are ever signed (`MaxSigned`), out of the seventeen of `MCWanted`: enough
  for one that reaps its signer, one that brings it back and the first again, or for a
  deposit, a release of its reserve by root and a withdrawal. `EraPeriod` 3 against three
  blocks: valid, expired and repeated within one era. A fee of one is what stands between
  an account and its existential deposit.
* *The network.* The authorities are those of the preset, two. `MaxSlot` 3 gives each a turn and one
  of them a second, so forks of one block against two; two rounds give a round that decides
  nothing new, one missed and one repeated. In `finality` one authority
  crashes, restarts and is operated on (`MayStop`, `Operated`), and there are no
  transactions; in `network` a full node stops and starts, an authority has a transaction and there
  is one round. `Entry` is where transactions come in on their own.
* *The tab.* `MaxTx` bounds the transactions a tab sends, `MaxRetracted` the blocks each is retracted
  from (one in `votes`, none in `waiting`), `Kinds` and `Shown` what they are and
  which proposals it opens, `Horizon` the last block in which anything happens, which is
  the first: a proposal may be created, voted on and decided in it. In `votes` two transactions,
  votes or decisions, are enough for a repeated call, for one sent again after an error that was
  wrong, and for a report that reaches a page which has sent
  another; the retraction of one is enough for a success message that turns out false. In `waiting` there is one, since a button's release depends on its own alone; it
  has two proposals for a jump, the second of which does not exist, the form and the deposit dialog. In
  both one account is endowed, which also acts from elsewhere (`Chain`).
* *The profile.* Three blocks and a window of two: chains shorter than the window, as long
  and longer; forks of every depth above the final block. `Emitted` bounds the
  events: two of the account's whose order matters, one of somebody else's, and one without an
  account. The stake is only explained as long as there was no fork (`forked`).
* *The list.* Two proposals by two authors, created in the same block or not, with votes and
  decisions between the answers. Of the texts in the filter one is in both addresses, one in
  a single one and one in none.
* *Symmetry.* Accounts are symmetric only where all are endowed; coins always are. No
  liveness property is checked under symmetry.
* *Deadlock* is checked in every run with the treasury: `seed_vault` is always possible, and
  a tab may always be reloaded. In `profile` the chain stops at `MaxBlock` and the
  page has nothing left to do; in `runtime` the last block comes, nothing more may be signed and
  nothing is valid any more. Both cfgs say so. In `finality` and `network` the node that
  may stop may always start again.

### Properties

The type invariants apart, each property relates copies of a fact or two moments of time; their
comments in the modules say which line of code
they are about. For each, `PROJECT.json` names a mutant: a slip in the code (the definitions
headed *Mutants*) under which TLC finds the property violated.

### Fairness

`FairSpec` assumes weak fairness of `NextBlock` (Aura's authorities take turns in
authoring blocks, `configs/mod.rs:94-100`) and of `FinalizeProposal(id)`. The latter is not
something the code provides: nothing in the runtime finalizes a proposal. It is the
most helpful user imaginable, and it is assumed only in the run whose property is
refuted in spite of it.

`FairSpec` of `Solochain` assumes that a node hears of the blocks its peers have, one after the
other (the network service keeps its peers and asks them for what it lacks,
`service.rs:172-184`), and that the GRANDPA voter goes on with rounds that are decided: it is an
essential task (`service.rs:323-328`), so a node in which it ends is down. It
assumes nothing of authors and voters, of clocks, or of nodes staying up:
`FinalityCatchesUp` is about nodes that do.

`FairClientSpec` assumes that the wallet answers or gives up, that the pool includes a
transaction or drops it (transactions are signed for an era, after which they are invalid),
and that the node reports what is in a block, as long as the connection stays open. It assumes nothing of
the connection, of the user or of other
accounts. Under it a button is released, *unless* its transaction is lost, or the connection that would tell of
it: for the one the callbacks have no branch, the other nobody watches, and `ButtonsReleased` says so.

`FairSpec` of `Profile` assumes that the wallet and the node answer the page, if only with an
error. Without a node the library waits for a connection for ever, and so does the page.

## 4. What the checks found

* The quorum is everything, not two thirds: `Permill::from_parts(666_666_666)` clamps
  at one whole (`configs/mod.rs:168`). `DaoQuorumIsTheWhole` proves it for any stake.
* With nothing staked a proposal is approved, swapped and rewarded without a vote.
* A decision is only possible *before* the last block of voting: from the block of
  creation on, and never afterwards.
* Hence a proposal that is won in its last block stays `Active` for ever.
  `PeriodsBind` proves that a missed decision is missed for good.

Some things are as the code has them and contradict nothing written: the threshold
for approval is rounded down, so that 2 votes for and 3 against carry; and stake that
was withdrawn after voting may vote again from another account. `Cancelled` is a status no
call ever sets (`DecisionStands`).

So are these of the frontend. No document, comment or test says anything of its messages, so
there is no statement to refute; but a user should know them.

* A call that failed is announced as a success. The callback shows "Transaction failed" and then, in the same
  breath, "Vote submitted!", "Proposal created!" or "Stake deposited!" (`Proposal.tsx:67-75`,
  `create-proposal.tsx:64-72`, `navbar.tsx:158-163`); after a vote the page reloads on top of both.
* Success is announced of a block that may be retracted. The call may then fail in another block, or be lost.
* An error alone means that the handler threw, not that nothing was sent: the node may have the call, and
  execute it. The button is free by then, so a creation or a deposit that is sent again is
  made twice. A vote or a decision is not, because the pallet refuses the second (`OncePerProposal`).

`MessagesMean` is what remains true: of a call that was in no retracted block, success *alone*
means that it was executed and its effect is on the chain, and both messages mean that it failed.

An account whose reserve Root has released (`force_unreserve`) still has a recorded stake, with nothing behind
it. A balance that Root then sets, or a transfer, may reap it, and the stake stays recorded under an
account that is gone (`StakersStayAlive` of `Runtime` excepts such accounts).

## 5. What is proved

All theorems hold for any set of accounts (finite), any coins, widths, durations,
thresholds and amounts that satisfy the named assumptions of `Arithmetic`, `Treasury`, `TreasuryAudit`,
`Runtime`, `Solochain`, `Client`, `Listing` and `Profile`: finitely many accounts (and coins, for the
audit), an existential deposit of at least one, an endowment
at or above it, a total issuance that fits a balance, a chain that names one of the
presets, an empty filter that is neither a text nor a status, and a window and pages of at least
one row; and for any fee, era and set of wanted extrinsics, any number of a tab's transactions, any nodes in any
roles, any number of slots, rounds and transactions, and chains of any length with any events in their blocks.

| Theorem | Statement |
|---|---|
| `TypeCorrect` | `Spec => []TypeOK` |
| `StakesAreBacked`, `StakersAreNeverReaped` | `StakeBacked` always holds; so does `ReserveKeepsAlive`: an account with a reserve keeps its existential deposit |
| `TotalStakeIsExact`, `FundsAreConserved`, `StakesArePaidBack` | `StakeTotalled`, `FundsConserved` always hold; `StakePaidBack` |
| `IdsAreDense`, `DecisionsStand` | `IdsDense`, `DecisionStands` always hold |
| `DecisionsAreFinal`, `PeriodsBind`, `VaultIsGuarded` | `DecisionsFinal`, `PeriodBinds`, `VaultFallsByDecision` |
| `DecisionsNeedVoters` | a proposal nobody has voted on is only decided while the quorum of the whole stake rounds down to nothing |
| `DaoDecisionsNeedVoters` | with the configured quorum, only while nothing is staked |
| `KarmaIsEarned` | `KarmaEarned` always holds |
| `TalliesAreOfBallots`, `VaultIsAccountedFor` | `TallyMatchesBallots`, `VaultLedger` always hold under `AuditSpec` |
| `AuditIsOfTreasury` | `AuditSpec => Spec` |
| `TreasuryImplementsGovernance`, `MappingIsTyped` | `Spec => ImplementsGovernance`; the mapped state always has `Governance`'s types |
| `RuntimeTypeCorrect`, `StakesAreCovered`, `StakersOutliveFees` | `RuntimeTypeOK`, `StakeCovered`, `StakersStayAlive` always hold under `RuntimeSpec` |
| `ExtrinsicsApplyOnce`, `NothingMovesUnsigned` | `AppliedOnce`, `SignedFor` |
| `ServedDecisionsStand`, `ServedKarmaIsEarned` | `IdsDense`, `DecisionStands`, `KarmaEarned` always hold under `RuntimeSpec`, too: behind extrinsics and the modelled calls of Root |
| `ServedDecisionsBind` | so do `DecisionsFinal`, `PeriodBinds`, `VaultFallsByDecision` |
| `RuntimeImplementsGovernance` | `RuntimeSpec => ImplementsGovernance` |
| `SolochainTypeCorrect`, `DatabasesAreCoherent` | `SolochainTypeOK`, `BestAboveFinal` always hold |
| `SolochainImplementsLedger` | `Spec => ImplementsLedger` of `SolochainRefinement` |
| `FinalBlocksAgree`, `SlotsHaveOneBlock` | `FinalityAgrees`, `OneBlockPerSlot` always hold |
| `ClientTypeCorrect`, `MessagesMeanWhatHappened`, `VotesExecuteOnce` | `ClientTypeOK`, `MessagesMean`, `OncePerProposal` always hold under `ClientSpec` |
| `ButtonsAreHeld`, `PageShowsThePast` | `ButtonsHeld`, `DataIsPast` always hold |
| `TabUsesTreasury`, `ListingUsesTreasury` | `ClientSpec => Spec`, `ListingSpec => Spec` |
| `ListShowsPast`, `ListIsInOrder`, `FilterStands` | `ListIsPast`, `InOrderOfCreation`, `FilteredStands` always hold |
| `ProfileTypeCorrect`, `PagesAreNotEmpty` | `ProfileTypeOK`, `PageNotEmpty` always hold |
| `ListIsTheHistory`, `StakeIsExplained` | `ListIsHistory`, `StakeExplained` always hold |
| `ShownProfileStays` | `ShownStays` of `Profile`: a table, once shown, is not overwritten |
| `MulFloorIsExact`, `MulFloorBounded`, `DaoQuorumIsTheWhole` | `mul_floor` is the product rounded down, never more than the amount; the configured quorum is the whole |

### The treasury

The argument goes in four layers, each using those before it.

1. `TypeOK` is inductive by itself: `SaturatingAdd` and the guards of the
   two plain subtractions (swap and withdraw) keep every number in its width.
2. `StakeInv` is `StakeBacked` with `ReserveKeepsAlive`. The first needs nothing but
   `reserve` and `unreserve`; the second needs the sender's check in a transfer,
   which is where a staker could be reaped.
3. `ProposalInv` is `IdsDense` with `DecisionStands`. Density is needed even to prove
   that decisions are final: it is what keeps `create_proposal` from overwriting a
   decided record.
4. `MoneyInv` is `StakeTotalled` with `FundsConserved`. Neither is inductive alone:
   the total is exact only as long as no addition saturates, none saturates because
   all money together fits a balance, and that follows from conservation and backing.

`SumProofs` carries layer 4: facts about the community modules' `SumFunction` (that it is
a number, bounds each term, and moves by the difference when one entry changes). Its
inductions are over *sets*, of numbers and of subsets, so that no rule with an
operator parameter is needed. The refinement uses layers 1 and 3: a fresh id must
be an unopened motion.

`KarmaIsEarned` says of every step that either nobody's set of approved proposals changes, or one
approval adds one proposal to its author's set and one to the author's karma (`ApprovedStep`);
again it is density that keeps a new record from replacing an approved one.

`DecisionsNeedVoters` is what is left of the claim that `no_voters` refutes. Its invariant,
`VotesHaveVoters`, is that a record without voters has no votes; what is decided without them
had a participation of zero and met its quorum, so the quorum was zero.

### The audit

Every audited step is a step of the treasury (`AuditStepIsStep`), so that the layers above hold of
it. A ballot changes one term of one of the two sums from zero, because its voter was not on record
before; nothing else changes ballots or tallies, and a fresh id has no ballots yet. The vault needs
a strengthening, `Ledger`: as long as what was ever seeded fits one entry, *all* entries together are
what was seeded. Only then is an entry that receives a swap known to have room for it, so that the saturating
addition of `execute_action` adds the whole amount its subtraction took.

### The runtime

Root may release a reserve, so `StakeBacked` is no longer true, and a withdrawal after that pays
less than it records. What is left of it, that no reserve exceeds its stake and that every account root
has left alone is backed to the unit, is `StakeCovered`; it is inductive with `TypeOK` and
`ReserveKeepsAlive` (`Covered`). Together the two give `StakersStayAlive`: the recorded stake of an account that Root
has left alone is reserved. This is shown for each call of the pallet and of root first, as a
lemma, and then for the phases of an extrinsic, of which `PreDispatch` and `PostDispatch` move
money by themselves. `ExtrinsicsApplyOnce` needs a history in its invariant (`Applied`): what an
account has applied in its present life has a nonce below the present one, so that what applies
again is of an earlier life, and it was signed before the block it first applied in, which leaves it less
than one era. `NothingMovesUnsigned` goes through the calls one by one.

Each step of the runtime is a step of the treasury or goes around it, changing neither records,
votes, karma, vault nor the block (`RuntimeStep`, `AroundTreasury`): the modelled calls of Root reach past the pallet into
balances, but into nothing a decision is made of. So what is proved of records step by step holds behind
extrinsics as well (`ServedInv`), and the runtime as a whole implements `Governance`. Only the sums over
money do not carry over, as Root may make money.

### The network

1. `NetworkTypes` is inductive by itself.
2. `Agreement`, while no voter's database has forgotten a vote: a voter votes at most once in a round,
   and never beyond the round its database is in (`VotesOnce`); a node is past a round only when that
   round was decided, and has made that decision final (`RoundsReached`); a vote is on top of what
   every earlier round decided (`VotesExtend`); and what is final was decided (`FinalIsDecided`). Two final
   blocks are then on one chain: every vote of the later round is on top of the earlier decision,
   and so is their common prefix. `VotesExtend` is the heart. It holds because a voter leaves a
   round only through its decision and votes on top of what is final. From agreement the refinement
   of `Ledger` follows step by step: only `Conclude` and `PurgeChain` touch what is final, the one
   extends a copy and the other erases it (TLC finds the same on the instance of `finality`).
3. `BestAboveFinal` is inductive with the types: a finalization that cuts forks off moves the best
   block along, imports stay above what is final, and a revert stops there.
4. `SlotsKept`: once a block of the present slot exists, the node whose slot it is has had its turn or is
   down, and loses the turn when it starts (`SlotTaken`); on every chain held slots grow
   up to the clock's (`BlocksInOrder`). One block a slot and `SolochainTypeOK` follow together.

The lemmas on prefixes (that two prefixes of one chain are comparable, what the longest
common prefix of a set is) are about sequences only.

### The tab

`ClientProofs` first shows that whatever happens in or around a tab is a step of the treasury, or none
(`ClientStepIsStep`), so that what is proved of records and ids holds under the tab, too. A step then does one of
three things to the transactions: it sends one, executes one, or moves some along their stages (`TxsStep`).

* `MessagesMean` needs what each stage allows to have been told, and to be told yet (`Told`): of a call in no
  retracted block everything on its way says what became of it. Most steps keep that and
  execute nothing (`Moved`). That an effect is still on the chain when
  success is shown (`Sound`) is `DoneStays`: votes are not taken back, decisions are final, records are not overwritten.
* `OncePerProposal` is `OneEach`, on top of `Sound`: the effect of the first vote is on the chain, and there
  the pallet finds it when the second is executed, whoever was told what of the first.
* `DataIsPast` follows from what one step may do to one record (`RecordStepKeeps`).
* `ButtonsHeld` is inductive: each step leaves a button as it is, releases it with nothing out any more, or
  holds it when nothing was out (`ButtonStep`), where a call whose handler threw is not out; and the dialog waits no longer than the signing (`DialogWaits`).

### The list

`ListingInv` says that the ids found are the first so many, that every answer so far is of its
record's past (`OfPast`), and that the list, once shown, has the first so many ids, each once, with such answers, the
oldest first (`ListOf`). That answers stay of the past while the chain goes on is `RecordStepKeeps`, as for the
tab. Two facts about the treasury are needed besides. Ids are dense, or keys read in one
block could have holes; and a smaller id is of no later block (`StartsInOrder`), or the order of the list
would say nothing about ids. `FilterStands` follows because a decided answer *is* its record.

### The profile

`ProfileProofs` stands by itself. The inductive invariant `ProfileInv` has five parts.

1. `ProfileTypeOK`.
2. `RunInv`: the first run never gets past its connection, because it is no longer mounted by
   then, and the page stops loading only when neither run has anything left to show.
3. `ScanInv`: below the block that was final when the scan began, what it has found so far is exactly
   the history of the blocks it has been through, the newest first, and what is shown in the end is
   what was found. No fork disturbs it, because forks keep every final block. The rows come in the
   order of the sort already, which therefore changes nothing.
4. `StakeInv`: unless there was a fork, the stake is the deposits less the withdrawals of the blocks up to the
   one it was read at, and those are the ones below the next block to scan together with those
   among the rows.
5. `PageInv`: the table is on its first page until it is shown, and then on one that it has.

That what `Only` and `FlattenSeq` make of a longer sequence is what they made of the shorter one and a bit
more is shown by unfolding them as rounds of a recursion, and what they make of *every* sequence by
an induction over sets of sequences (`SeqInduction`), which like those of `SumProofs` needs no rule with an
operator parameter. This is why `Profile` filters with a recursive function (`Only`) and states its stable
sort outright (`SortedRows`): nothing can be proved here of the library's `SelectSeq` and `SortSeq`, which
take operators.

### Only model-checked

Every safety invariant, every action property and the refinement that the passing runs check is
also a theorem. What stays with TLC is liveness: `FinalityCatchesUp`, `ButtonsReleased` and
`LoadingEnds`, each under the fairness of its specification, are out of the prover's reach, as is `ENABLED`. So are
the three refuted claims, which are about single behaviours.

## 6. What is not modelled

* `portfolio.tsx` makes one read of the vault when it is mounted, sorts it and turns it into
  shares. It has no second step that could meet a changed chain.
* Weights, lengths and versions of extrinsics, tips, runtime upgrades, metadata and the queries of fees:
  they refuse or delay an extrinsic, or change nothing.
* Of balances, what nothing in the repository uses: `transfer_all`, `burn`, `force_adjust_total_issuance`, locks,
  freezes and holds.
* Of Root, the calls that write the storage or the code itself (`set_storage`, `kill_storage`, `kill_prefix`,
  `set_code`): nothing can be said of a treasury after one of them. `remove_key`, after which there is no Root.
* Extrinsics with eras of different lengths beside each other.
* Pages loaded from a block that is retracted later, in the tab and in the list; retracted blocks that run a
  transaction on another state than the blocks that stay. The pages of a thousand in which the keys of a list come.
* That a call that returns an error leaves nothing behind: FRAME's storage transaction, and `try_mutate`, are relied upon.
* Inside the node: the protocols of Aura, GRANDPA, the network and the database, which are external
  crates and appear by what the node relies on; offchain workers (the runtime has none),
  telemetry, warp sync (a faster way to the same final block), and a change of
  authorities, for which the runtime has no call.
* Agreement once a voter's database has forgotten a vote. `purge-chain` and `revert` of an
  authority make it vote again in rounds it has voted in; the code has no protection
  against it and promises none, so `FinalityAgrees` stops there.
* More than three authorities, where a supermajority is less than all of them. No preset has them.
* Building and measuring the benchmarks' extrinsics; the commands that change nothing; styling and routing.
* `pallets/template/src/{mock,tests,benchmarking,weights}.rs`, which still
  describe the template's `do_something` and do not match this pallet.

Six hazards listed in `PROJECT.json` have no property. Stake withdrawn after voting may vote again
from another account (`lib.rs:271`): the code has no lock on it and promises none. Two calls write before
a check that may fail (`lib.rs:243`, `lib.rs:328`): what undoes them is FRAME's. A voter whose memory was
deleted may vote again (`command.rs:98`). Each visit to the
profile leaves a connection open (`profile.tsx:182`), always. Nothing catches an error of the list's effect
(`proposal-list.tsx:57`): `Fail` has it, and that the list always loads could only be claimed if nothing failed.

What would come next: the tab and the list beside `Runtime` in place of `Treasury`.
