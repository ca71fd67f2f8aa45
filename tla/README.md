# Bonded sub-satoshi channel: TLA+ models, model checking and proofs

The Python package `src/src/channel` implements payment channels between `n`
parties who share `S` satoshis, each subdivided into `k` micro-units. Balances
move off-chain in micro-units; settlement rounds them to whole satoshis. Every
party posts a bond that the others can take if it broadcasts an outdated state.
The package has its own regtest node, watchtowers, a durable multi-channel
manager and multi-hop routing. This project models the parts that keep state,
and the algorithms whose results they rest on.

## 1. Inventory

| Part (source) | State | Operations | What makes it correct | What is hard |
|---|---|---|---|---|
| accounting (`accounting.py`, `config.py`) | immutable `State(balances, version)` | `transfer`, `quantise` (Q\*), conservation check | nothing is minted; the rounding sums to `S` and is optimal; no transfer pays its sender | ties, zero remainders, several satoshis left over |
| channel (`lifecycle.py`, `bond.py`) | `Channel`: state, funding, `funding_confirmed` | `apply_transfer`, `apply_sequence`, `mark_confirmed`, `sign_state_tx`, `cooperative_close`, `forfeit_bond_tx`, `refresh_channel` | everything signed pays out what it spends; a close outbids every state; the states held rank by version | end of the sequence space, remainders of a forfeited bond, superseded states signed again, two channels on one funding output |
| manager and store (`runtime/manager.py`, `store/`) | dictionaries of channels and locks, `closed_channels`; SQLite tables | `add`, `apply_transfer`, `cooperative_close`, `persist_channel`, `recover_channel` | what was acknowledged survives; the store is never torn; a close settles the latest state; locks are released | threads, crashes between two commits, failed commits |
| mempool (`node/mempool.py`, `node/validation.py`) | `entries`, index `spent_by` | `admit` (with replacement), `evict` | no two entries spend one outpoint; a replacement raises the sequence | replacement, eviction, and a UTXO set that changes underneath |
| node (`node/network.py`, `headers.py`, `blockstore.py`) | headers, tip, blocks, UTXO table, undo and created logs | `submit_tx`, `generate_block`, `accept_block`, reorganisation | the UTXO table is the replay of the heaviest chain | reorganisations, ties, concurrent requests |
| watchtowers (`watchtower/`) | registry of current states per tower, its file, observer list, monitor thread | `register`, `_observe`, `forfeit_offender_bond`, `disable`, `enable`, `_save`, `open`, `Monitor.start`, `stop` | one online tower is enough to overtake a stale state; a tower that restarts watches what it had saved; no monitor thread is leaked | notifications nested in notifications, records of different age, a file overwritten in place, a join that times out |
| routing (`routing.py`) | the hops of a path, their horizons | claim, return, both settlements | no intermediary loses money; the path settles | claims racing returns, delays of confirmation |
| wallet (`wallet/`) | derived scripts; a view of the UTXO table | `new_receive_address`, `select_utxos`, `build_and_sign_payment`, `pay_p2pkh`, `build_channel_funding_tx` | balances are what the send results say; change comes back; fees reach the coinbase | a view that does not see the pool, repeated sends, change of nothing |
| channel files (`persistence.py`, Part I of `cli.py`) | one JSON file | `open`, `transfer`, `close`, `contested`, each a process | what a command reported is in the file, or the file is refused | overlapping commands, a kill in the middle of a write |
| daemon (`daemon.py`, Part II of `cli.py`) | listening socket, serve thread, handler threads, shutdown signal | `start`, `stop`, `dispatch`, client `call` | a shutdown request ends the process | shutdown before the serve loop runs, slow handlers, clients that gave up |
| peer-to-peer encoding (`node/p2p.py`, `node/block.py`) | none | varints, messages, frames, `parse_frame` | what is parsed is what was sent | frames in pieces, altered bytes, payloads cut within a field |
| scripts (`scripts.py`, `signing.py`, `verify.py`, `keymgmt.py`) | the key book | locking and unlocking templates, `sign_input`, `spend_verifies`, `KeyBook.replace` | an output is spent by exactly the signatures its path asks for | numbers of parties above 16 and 127, branch selectors, replaced keys |
| observability, safety gate, fees, tower incentive | counters, a flag | | | not modelled, see section 7 |

How they interact. The manager calls the channel under the channel's lock and
then writes through `persist_channel`. A channel's transactions reach the node
by `submit_tx`. The pool validates against the node's UTXO table and calls its
observers, the towers, synchronously; a tower calls `submit_tx` from inside
that call. Blocks evict from the pool. The wallet reads the node's UTXO table,
not its pool, and submits like everybody else. The daemon runs node requests in one
thread per client and has no node-wide lock. The Part I commands share nothing
but the channel file; a tower's registry file has one writer, its process.

## 2. Modules

| Module | Models | Uses |
|---|---|---|
| `Accounting` | `transfer`, `quantise`, conservation, as operators | |
| `Channel` | a channel, its successors after a refresh, what it signs | `Accounting` |
| `ChannelManager` | manager, locks, `persist_channel`, SQLite rows, crashes | `Accounting`, `CommittedLedger` (refinement) |
| `CommittedLedger` | abstract: one committed state per channel | `Accounting` |
| `Mempool` | the pool alone; blocks are an arbitrary change of the UTXO set | |
| `Node` | headers, blocks, UTXO table, reorganisation, mining in steps | `Mempool` |
| `Watchtower` | towers as observers of the node's pool | `Node` |
| `Routing` | a multi-hop payment on a chain that confirms within Delta | |
| `Wallet` | several wallets paying each other and funding channels on one node | |
| `Snapshot` | command-line processes on one channel file written in place | `Accounting` |
| `RegistryFile` | the file behind a tower's registry | |
| `Daemon` | main, serve and handler threads and clients of the daemon | |
| `Monitor` | start, stop and threads of a tower's monitor | |
| `Wire` | varints, messages, frames, one connection read piece by piece | |
| `Scripts` | locking and unlocking scripts, signatures, key replacement, interpreter | |
| `Algorithms` | the pure algorithms side by side: every allocation, every stream, every spend | `Accounting`, `Wire`, `Scripts` |
| `MC…` | sets, model values and symmetry of the TLC instances | |
| `Bytes` | digits of a number in a base, and back; shared by the two encodings | |
| `FoldProofs` | lemmas: induction, sums over finite sets, folds, weights of sequences, digits | `Bytes` |
| `AccountingProofs` | lemmas on sums, transfers and the rounding | `Accounting` |
| `AlgorithmsProofs` | theorems on Q\* and on what a script accepts | `Algorithms`, `AccountingProofs` |
| `ChannelProofs` | theorems on what a channel signs, on a payment along a path and on the two files written in place | `Channel`, `Routing`, `Snapshot`, `RegistryFile`, `AccountingProofs` |
| `WireProofs` | theorems on the connection, its frames and messages | `Wire`, `FoldProofs` |
| `ChannelManagerProofs` | theorems on the manager and its ledger | `ChannelManager` |
| `NodeProofs` | theorems on the pool, the node, the towers and their monitor | `Node`, `Watchtower`, `Monitor` |
| `WalletProofs` | theorems on the wallets' balances and the supply | `Wallet`, `FoldProofs` |

### How state and actions correspond to the code

* **ChannelManager.** `bal`, `ver`, `confirmed` are the `Channel` objects;
  `closed`, `lock`, `registered` the fields of the manager; `meta` and `rows`
  the tables `channel_meta` and `channel_states`. A thread's `pc` runs through
  `wait` (the lock), `crit` (the body under the lock), and the steps of
  `persist_channel`: read `funding_confirmed`, commit the meta row, read the
  balances, read the version, read the key and commit the state row. The test of
  `closed_channels` is in `BeginTransfer`, before the lock, as in the code.
  `Crash` clears the memory and keeps the tables. `StoreFails` is a commit that
  raises: rolled back, lock released, memory as it was. `hist`, `acked`,
  `sealedAt` are history variables. `EarlyUse` says whether a client may use a
  channel whose `add()` has registered it but not yet persisted it: the id is the
  funding txid, which another thread may know.
* **Mempool.** A transaction is an identity with the outpoints it spends and
  creates and the sequence of each input; whether the interpreter accepts it is
  the constant `Accepted`. `Admit` is the success path of `admit`, eviction of
  the conflict included; every other outcome changes nothing.
* **Node.** Blocks are numbered in the order their headers arrive; block 0 stands
  for the chain up to the funding of the channel. The daemon's request threads share
  the node without a lock, and the one request that changes it is `node.generate`.
  So `generate_block` is in steps that interleave: read tip and pool, insert the
  header and compare, set the tip, apply to the UTXO table, evict one transaction
  after the other, return. `submit_tx` and `accept_block` are reached by no request;
  they are one step each and run while no `generate_block` is under way (`Idle`).
  Applying the block is one step although it is many statements: of tables that two
  threads write at once nothing is claimed but that they go wrong. Feeding a known block again
  changes nothing in the code (`connect` is idempotent and the reorganisation
  from the tip to itself is empty), so it is a stuttering step.
* **Watchtower.** `calls` is the stack of running `_notify` loops, each with the
  observers it has yet to call. Registering overwrites, as `registry.py` does.
  The thread of `monitor.py` counts ticks and logs: a stuttering step here, and
  a module of its own, `Monitor`.
* **Snapshot.** A process loads the file and holds its private copy in `mine`;
  `Path.write_text` is two steps, `Truncate` and `Write`. A write over what
  another process wrote meanwhile may leave parts of both (`Torn`). A killed
  process leaves its file empty, whole or torn. `raced` records that the work of
  two commands overlapped.
* **RegistryFile.** The same two steps for `_save`. A write that fails leaves the
  record in memory and `failed` set until the next save that completes. A record
  is the version of its state transaction. `MCChannel` runs a channel object and the
  two files in one instance, a behaviour being about one of them, as they share nothing.
* **Daemon.** `main` runs through `cmd_daemon_start` and `Daemon.stop`; `serve` is
  the thread of `serve_forever`, whose `shutdown` (library code) sets a request
  and waits for an event. A handler dispatches and answers in two steps. A client
  that times out leaves its connection behind, be it still queued or in a handler:
  the request was sent, so it is read and dispatched. `Exit` ends the daemon threads.
* **Monitor.** `current` is `_thread`, `stopEvent` is `_stop`. `JoinEnds` may come
  while the thread is alive: the timeout of two seconds; `late` records it.
* **Wire.** A byte has `Base` values and field widths shrink with it; the last
  three byte values announce the widths of a varint as `0xFD`, `0xFE`, `0xFF` do.
  Messages are layouts of typed fields, written by `serialise` and read by
  `parse` with the checks each class makes: byte strings are checked for their
  length, integers are not. The checksum is an injective code, in symbols that no
  payload byte equals. `p2p.py` has no receive loop, so the reader is external:
  it does what the docstring of `parse_frame` asks of a caller, and gives up on any
  exception, be it a `P2PError` or what `parse_block` raises.
* **Scripts.** A script is a sequence of tokens, run by a stack machine with the
  opcodes these scripts use (external: the `bitcoinx` interpreter). A signature
  names its key and the transaction it commits to. `book` is the key book, whose
  entries may be replaced after the output was made.
* **Algorithms.** `subject` selects the algorithm a behaviour is about; the others
  stay at rest. `alloc` is moved by `transfer` through every allocation.
* **Channel.** A signed transaction is its funding output, the sequence of the
  channel input, the value spent and what is paid to whom; a state transaction
  remembers the state it was built from. `sign_state_tx`, `superseded_state_tx_for`
  and `cooperative_close` take a state from the caller and compare it with nothing but
  the channel's total, so the model passes them any conserving allocation under any
  version. `past` holds the states the channel has held.
* **Wallet.** `scripts` is each wallet's `by_script`, `utxo` the node's table with
  values and owners, `pool` the entries in order of admission. `Send` is
  `select_utxos`, the builder and `submit_tx` in one: the process is
  single-threaded. A send that raises or is refused changes nothing. All inputs
  are final, so the pool's replacement rule becomes "no shared input"; an
  identical transaction is answered "already in mempool", which is an acceptance.
  `due` adds up what the `SendResult`s say, and is compared with the coins.
* **Routing.** The chain and the pool are external to `routing.py`: a claim
  (final sequence) replaces a return (sequence 0), and what is in the pool
  confirms within `Delta`, the bound the code's parameters are defined by. An
  intermediary claims at most `React < Delta` blocks after it could. The run takes
  `React = 1` and a sink that reveals when it likes. With `React` 2 or more and a sink
  that claims after its own horizon, the order of settlement is lost: its late claim
  replaces its pending return, is seen `Delta - 1` blocks later, and the hop before has
  been returned. The promise in the docstring of `routing.py`, "each intermediary has
  at least Delta time to claim its incoming hop", needs a sink that reveals in time;
  the theorems of section 5 state both conditions.

## 3. Runs

Passing:

| Run | Question | Bounds |
|---|---|---|
| `manager_failures` | Do rows, memory and acknowledgements agree, is a close the latest state, is every lock released; does the manager implement `CommittedLedger`? | 2 threads, 1 channel, 2 transfers, 1 crash, 1 failed commit |
| `node_reorg` | Is the UTXO table the replay of the heaviest chain, does the pool stay consistent? | 3 blocks, any of them fed, work 1 or 3, six transactions |
| `watchtower` | Does one online tower suffice, in every order of nested notifications? | 2 towers, 3 states, close, 2 forfeitures, 2 blocks |
| `algorithms` | Is Q\* right and a transfer fair; is what is parsed what was sent; does a script unlock for exactly its signatures? | 3 parties, k=3, S=2, every allocation; 14 pairs of messages, one altered byte or one cut payload; 2, 3, 17 and 129 parties, all orders of signers up to 3 |
| `channel_files` | Is what a channel signs balanced and properly ranked; is what a command reported in the file; does a restarted tower watch what it saved? | 3 parties with unequal bonds, 3 states held, any allocation passed, 2 signatures, a refresh, a sequence space that ends at version 2; 2 processes, 4 runs of open and transfer, 1 kill, 1 close; 2 records, 4 saves, 2 kills, any write may fail |
| `service` | Does a shutdown request end the process, does stop end the monitor's threads? | 2 clients with one call each, 2 monitor threads |
| `wallet` | Do balances, send results and the money supply agree? | 2 wallets with 2 keys, 3 blocks, 2 accepted sends, amounts that leave change and none, a fee headroom that covers one input and not two |
| `routing` | Does every intermediary settle outgoing before incoming, and does the path settle? | 3 hops, Delta=3, 14 blocks |

Why the bounds are enough. Races in the manager need two threads, and everything
it does to a second channel is independent (the proofs of section 5 cover any
number). One transfer before and one after a close, a crash or a failure already
show every order. Three blocks give a fork that overtakes by length (1+1 against
1), by work (3 against 1+1), and one that ties. Works 1 and 3 separate length
from work. Three states and two towers give towers whose records are one apart
and two apart. k=3, S=2, n=3 give zero, one and two left-over satoshis, and tied
and untied remainders; a bond of 3 less a fee of 0 or 1 gives shares with and
without a remainder. A path of three hops has two intermediaries, one of which
sees only the other. Two sends in three blocks let a payment be followed by one
out of its change, by one out of the same coins, and by the same one again; fees
and sizes are scaled from 78 + 149 per input against a headroom of 1000, where
seven inputs exceed it. With `Base` 6 and widths 1, 2, 3 the varints of the
messages are of one byte and of the first two marked widths, at and next to their
borders; the messages have every kind of field, lists of zero, one and several
entries, and a second message behind the first shows a frame run into the next
one. Noise 0 and 5 turns a byte into padding and into the widest varint marker.
17 is the first count above `OP_16`, 129 one whose byte has the sign bit. Two
overlapping commands and one kill give every order of truncation, write and load;
two monitor threads are the old one and its successor. `node_reorg`, the two channel
runs, `wallet`, `routing` and `service` switch the deadlock check off:
they stop when their bound of blocks, signatures, sends, bytes or calls is used up
or the process has ended.

Violations, each a disagreement of code and documentation (`findings`):

* `manager_late_transfer`: `apply_transfer` tests `closed_channels` before it has
  the lock. A transfer waiting behind a close is committed and acknowledged after
  it. `LateTransfersBounded` says how many can.
* `channel_refresh`: the successor of a refreshed channel spends the predecessor's
  funding output (the same placeholder outpoint, keys and amounts give the same
  transaction) and counts versions from 0 again, so a state of it ties with, or ranks
  below, an older state of another payout.
* `node_racing_miners`: two `generate_block` requests on one tip both change the
  UTXO table.
* `node_repeated_mining`: `generate_block` takes the pool as it is. One request at a
  time, an entry whose input a reorganisation has taken away is mined ahead of the
  resubmitted transaction that creates that input; it then spends an unspent output,
  is admitted and mined once more on the same chain, and disconnecting that second
  block removes the output that the first one made. Two transactions and five blocks,
  two of them fed. (`UtxoMatchesChain` of `node_reorg` speaks of chains that hold no
  transaction twice; it was also checked over six blocks of these two transactions.)

Other things a reader of the code should know, which the models contain and no run
reports as a violation. The set of closed channels is not persisted: after a
restart a closed channel accepts transfers (`Crash` clears `closed`). The same
payment made again before a block is mined selects the same coins and is, byte
for byte, the transaction in the pool (signing is deterministic); `pay_p2pkh`
reports it accepted, with a fee, and nothing more is paid. Two commands that
overlap on one channel file lose an update or leave a mixture of two documents,
and `close` does not seal the file. A version message that ends behind its user
agent parses, although the docstring of `tests/test_p2p.py` says that malformed
messages are never silently accepted: `start_height` and `relay` are read without
a length check. The checksum of a frame does not cover its command. If
persisting fails after a channel was sealed, the signed close is lost with the
exception and a retry is refused. `mark_confirmed` is persisted only by the next
transfer or close. A transaction that conflicts with two pool entries at once is
refused whatever its sequences. `validate_tx` accepts a transaction without inputs. `offenders` of `register_channel` may be an
iterator, which the first tower uses up.

Conditions in passing properties mark where the code stops giving a guarantee:
`MemoryIsDurable` needs that no commit has failed (`apply_transfer` changes the
memory first and does not restore it); `TipIsBest` needs one call at a time (a thread
sets the tip it compared with an older one); `RowsFaithful` needs `~EarlyUse` (`add()`
persists without the lock, and a transfer running meanwhile makes it store the
balances of one state under another's version); `SequenceIdentifiesState` speaks
of the states one channel object has held (a state a caller makes up is signed as
well, under any version; across a refresh see `channel_refresh`);
`BooksMatch` needs that no send was answered "already in mempool"; `OwnBlocksSpendOnce` and `PoolIsMinable`
need that no block came from outside (`accept_block` leaves conflicting entries
in the pool, `generate_block` mines them unvalidated); `StaleOvertaken` speaks of
the towers online when a transaction is broadcast (nothing looks at the pool when
a tower comes back); `AckedOnDisk` and one part of `ReportsAgree` need that no two
commands overlapped, `RegistryReloads` relates memory and file while no save has
failed; `NoLeakedThread` needs that every join ended in time (a start after a
timed-out join clears the event the old thread was to see, and two threads tick);
`MessagesIntact` excepts an altered command and the cut version message;
`Routing` assumes a chain that enforces `nLockTime`, which
`validate_tx` of the embedded node does not.

### Fairness

`manager_failures`: weak fairness of the next step of a call in progress, for
every thread; the operating system runs runnable threads. No fairness of calls,
confirmations, crashes or failures. `routing`: blocks keep coming, and nodes
broadcast what they owe (settling is what the routing functions are called for);
the sink is free never to reveal the secret. `service`: the threads of a live
process run, sockets time out, a join ends, at the latest by its timeout. Nobody is
obliged to connect, to interrupt, to start or to stop, and the serve thread is not
obliged to prefer any connection.

## 4. Refinement

`ChannelManager!ImplementsLedger` maps the committed state of a channel to what
`recover_channel` would return if the process died now, and the settlement to the
co-signed close. Every step of every thread is then one accepted transfer, the
settlement of exactly the committed state, or nothing. In particular a crash is
invisible. A failed commit is not: it leaves the `Channel` object ahead of the store.
The ledger has it as `Degrade`, after which one commit may carry several transfers
(`CatchUp`) and a close may settle a state later than the committed one
(`SettleAhead`); without either of the two the run fails. What never happens, failed
commits or not, is a step back or a commit that loses part of the fund. The theorem
`ManagerImplementsLedger` proves it.

`Node!UsesMempool` shows that the node drives the pool only in ways that `Mempool`
allows, so the theorems about the pool hold inside the node.

## 5. Proofs

Checked by TLAPS for all values of the constants (any number of threads, channels,
parties, transactions, blocks, towers, hops, versions, crashes, failures), from the
named assumptions of the modules and, where a theorem says so, one more. `PROJECT.json`
lists the theorems with the property each one states.

**Induction.** `Total`, the folds over blocks, the walks along the header tree, the
interpreter's run and the digits of a number are recursive, and the library's induction
theorems take an operator as a parameter. The lemmas of `FoldProofs` speak of a set
instead: a set of naturals that holds 0 and is closed under the step is all of them
(`NatSetInduction`, from the least element of a set of naturals), and likewise for finite
sets. A set is a first-order value, so the provers can cite it. A fold of the community
modules is a recursive function over an order that `CHOOSE` fixes; that this function
exists is proved first, then what it computes: a sum over a finite set does not depend on
the order, splits over disjoint sets, and changes by the weight of what is added.

* `AccountingProofs`, `AlgorithmsProofs`, the rounding. A sum is the last of its prefix sums; from
  that, sums are additive, scale and are monotone. `QuantiseAlwaysSettles`: the floors
  leave between 0 and N - 1 satoshis over; the order of remainders is total, so ranking
  is a bijection of the parties onto 0..N-1 and exactly as many win as are left over.
  That no other rounding is closer is an exchange argument with a threshold: every
  winner's remainder is at least every loser's, so a price between the two bounds each
  party's error from below. `TransfersAreFair`: a transfer lowers its sender's floor or
  remainder, and the winners cannot change in its favour.
* `ChannelProofs`, a channel. `Inv` says that every signed transaction settles the state
  it was built from under that state's version (`SignedInv`) and that a channel's
  history holds one state per version (`PastInv`). Without the history the ranking is
  not inductive: superseded states are signed later than newer ones.
* `ChannelManagerProofs`. `TypeCorrect` and `LateTransfersStayBounded` need no
  assumption on clients. The others assume `~EarlyUse`, which is necessary: with
  `EarlyUse = TRUE` TLC finds a torn row. Their invariant `Inv` has these parts:
  `ControlInv`, who is where: a call past `wait` holds its channel's lock, and no call
  runs on a channel being added; `DataInv`: what `persist_channel` has read is still
  current, because only the lock's owner changes it, and every stored row is the state
  applied as its version; `AckInv`, an acknowledged version is stored and not above the
  current one; `DurInv`, store and memory agree unless somebody is persisting or a
  commit failed. `ManagerImplementsLedger` adds `CommitInv`: while no commit has failed
  an object is at most one accepted transfer ahead of what a restart would recover; and
  `FundInv`: every state ever applied divides the whole fund. `LateTransfersStayBounded` counts threads: what was applied since
  the close and the threads still able to apply a transfer are together fewer than the
  threads there are (`LateInv`).
* `NodeProofs`, the pool. The inductive invariant is `PoolInv`, types and `IndexExact`.
  `NoPoolConflict` alone is not inductive: `admit` finds conflicts through the index, so
  a missing index row would let a second spender in. `ReplacementIsMonotone` follows:
  the owner in the index is the entry `admit` compares sequences with. The UTXO set may
  change arbitrarily between calls.
* `NodeProofs`, the node. `NodeUsesMempool` holds for any number of `generate_block`
  requests that race, eviction by eviction; submissions and foreign blocks come one at
  a time. The rest is about a node that serves one call at a time
  (`~Concurrent`; `node_racing_miners` shows why, and with two miners a thread can
  set the tip back, so `TipStaysBest` needs it too). `Synced` relates the UTXO table and
  the two logs to the header tree: on the active chain every block has the logs that
  take it back, off it none. A reorganisation disconnects to the common ancestor and
  connects from there, each a fold; the invariant holds after every block of it.
  `Serial` says where `generate_block` stands in between. `UtxoStaysReplay` assumes
  `DistinctOutputs`: an outpoint contains a hash of its transaction. The property has a
  condition of its own, `NoRepeat`: no chain holds a transaction twice. Without it five
  blocks suffice for a table that is not the replay (`node_repeated_mining`).
  `Mining` and `Ledger` are the invariants of a node fed with no blocks: the pool's
  entries stay minable, and what its blocks spent is gone for good.
  `OwnBlocksNeverDoubleSpend` needs `HaveInputs`: `validate_tx` accepts a transaction
  with no input at all, which could be mined twice.
* `NodeProofs`, the towers. `TowersUseNode`: the towers act through the node's operations, so
  all of the above holds under them. Notifications nest without bound, and no statement
  about the innermost one is inductive. `Defended` looks at the outermost `_notify`
  only: a tower that has been called, or called inside, holds nothing newer than what
  the pool holds, because its answer was admitted, or failed against something newer,
  and nested calls only raise the sequence. When it returns, every online tower has
  been called: `StaleIsOvertaken`; with the exact index and one call at a time,
  `StaleIsNeverMined`. `MonitorNeverLeaks` needs `Joined`, that a thread that is not
  the current one has ended unless a join timed out.
* `ChannelProofs`, a payment. It is atomic on either of two conditions: every node answers
  within one block (`PromptPathIsAtomic`), or within any `React < Delta` blocks and the
  sink reveals the secret by its own horizon (`TimelyPathIsAtomic`). The invariant is
  an account of slack: a hop seen claimed leaves time to claim the hop before it
  (`SlackInv`).
* `ChannelProofs`, the files. `SerialInv`: while no two commands overlapped there is one saver, it
  works on an emptied file, and it holds what was reported last or a version above all
  reported. `LineageInv` and `ClosesInv` hold whatever overlaps: a file mixed of two
  documents is refused, never used.

* `WalletProofs`. Both statements are sums over sets that a block rewrites. `Holding(Q, S)`
  adds up the coins of some owners: with all owners it is the supply, with one it is his
  balance. A transaction moves to `Q` the weight of its outputs less that of its inputs, and
  `BlockWeight` says that a block changes the holdings by what its transactions move and by
  its coinbase. The invariant `IInv` has, besides types, `SeenInv` (what pays a
  wallet pays a key it has derived), `PoolInv` (pool entries spend coins that exist, no two
  the same, and pay out no more than they take), `IdsInv` (coins not yet made have new
  names), `SupplyInv` and `BooksInv` (`due` is the balance once the pool is mined). Without
  `PoolInv` neither sum is inductive: a block would spend a coin twice.
* `AlgorithmsProofs`, the scripts. `OutputsUnlockExactly`, for every number of parties. A
  count is read back as it was pushed (`CountIs`, by the digits of a number, its sign byte
  included). The run of the interpreter is a recursive function, shown to exist
  (`RunExists`); each opcode is a lemma about the stack it finds, `OP_CHECKMULTISIG` one
  about the order-preserving match of signatures to keys; each path of each template is then
  executed token by token, the branch it does not take being skipped. `ScriptsInv` says what
  `sign_input` and `KeyBook.replace` can have produced.

* `WireProofs`, for every base of at least 4, all varint widths, any size limit that
  fits its fields, and all pairs of messages that can be sent. A parser is a fold of reads over a
  layout, a serialiser a concatenation of chunks. For one read, `Result`, `Succeeds` and
  `Refuses` say what a cursor does where a chunk stands, be it whole or cut
  short; they compose, so a layout is read whole, refused, or read to the end of what is
  there. Only a last field that `Exact` does not check can be missing unnoticed, and
  `VersionMessage` is the one parser that ends with such fields: hence the exception in
  `MessagesIntact`. `MessagesReadable` collects the six messages. A frame that has not all
  arrived is incomplete (`FrameParsed`); with a byte altered outside its command it is never
  taken for a frame, even if an altered length makes it run into the next one
  (`FrameNoise`, from `ChecksumTells`, the injectivity of the checksum).
  The invariant `WireInv` is a stage of the connection: none read, one read, both read, or
  given up after a fault; buffer and line together are always what the stage leaves
  unread. `CleanStreamDelivered` alone is not inductive: it says nothing of a buffer in
  the middle of a frame. What the proofs assume: `StreamsAssumption`, that numbers fit
  their fields (`to_bytes` raises otherwise) and payloads the limit (`parse_frame` refuses
  others); and a checksum without collisions, of bytes.

Every invariant that a passing run checks is stated by a theorem. Only model-checked: the
liveness properties (`LockReleased`, `PathSettles`, `ShutdownStops`, `StopEndsThreads`),
since the prover has no rule for fairness, and the properties that fail, whose
counterexamples are the findings.

## 6. Plan

Done: accounting, channel, manager and store, mempool, node, towers with their
file and monitor, wallet, routing, channel files, daemon, wire encoding, scripts;
theorems for all of them but the daemon, whose one property is a liveness property.
Nothing of the plan is left.

## 7. Not modelled

Curve arithmetic, DER encoding, key derivation and the encryption of the wallet's
seed: library code behind a signature or a key, which are values here. The Merkle
root: nothing in the package compares it. `fees.py` (a product and a maximum),
`watchtower/incentive.py` (a tally nobody reads), the metrics and the health
report keep nothing that another part decides by. The safety gate is one flag that
the entry point sets and only its own guard reads; a property would restate the
guard. Argument parsing, printing and the demonstration script are I/O. Amounts in
`Node` and `Watchtower`: they matter to the fee of a coinbase only, which `Wallet`
has; that what a channel signs balances is checked in `Channel`.
