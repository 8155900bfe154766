# A TLA+ verification of polkadart

polkadart is a monorepo of Dart packages, with two Rust crates behind FFI, that
talk to Substrate chains: codecs and metadata, keys and addresses, JSON-RPC
providers, extrinsics, multisig accounts, an embedded light client and code
generators.  Most of it computes; what is hard about it is where it keeps state
while somebody else acts: other signatories, a node, a connection that breaks,
tasks of a Rust runtime.  This directory models those parts first.

Paths below are relative to `src/packages/`.

## 1. The system

### Parts that keep state while others act

| component | state | operations | with whom, and what is hard |
|---|---|---|---|
| Multisig operations, `polkadart/lib/multisig/multisig.dart`, `multisig_storage.dart` | none of its own: the storage entry it read, the timepoint and nonce it goes on with | `initiateTransfer`, `approveAsMulti`, `asMulti`, `cancel`; each reads, decides, fetches chain data, signs, submits | the wallets of the other signatories, the transaction pool, `pallet_multisig`: everything read may be out of date when the transaction is included |
| Multisig account, `multisig_account.dart` | addresses, threshold, derived key | the factory, `otherSignatoriesForPubkey`, `containsAddress` | each wallet builds it alone, and the pallet computes it again |
| WebSocket provider, `polkadart/lib/apis/provider.dart` | `socket`, `_sequence`, `queries`, `subscriptions` | `connect`, `send`, `subscribe`, `disconnect`, three listeners | the node and `web_socket_client`, which reconnects: lost messages, requests sent again, answers and notifications between an await and its continuation |
| smoldot client, `smoldot/lib/src/client.dart`, `chain.dart`, `smoldot/rust/src/lib.rs` | `_chains`, `_globalCallbackRegistry`; in Rust `CLIENTS` and `CHAINS` | `initialize`, `addChain`, `removeChain`, `dispose` | Tokio tasks that add chains and call back, the client being destroyed meanwhile, several clients in one process |
| smoldot JSON-RPC pump, `smoldot/lib/src/json_rpc.dart`, `lib.rs` | `_responseRegistry`, `_pending`, the stream under its lock | `next`, `responses`, `dispose` | concurrent pulls, one task each, and the end of the chain below them |
| smoldot provider, `smoldot_provider/lib/src/sm_provider.dart` | `_chain`, `_buffered`, `_stopped`, the read loop | a connection, `send`, `disconnect` | a chain that resolves after messages or after the disconnect |
| Extrinsic builder, `polkadart/lib/extrinsic_builder/`, `apis/chain_data_fetcher.dart`, `substrate_metadata/lib/derived_codecs/era_codec.dart` | values of the extensions and the two maps made from them, block hash and number, whether the nonce is set | setters, `fetch*`, `sign*`, `submit` | setters in any order; parallel reads while blocks come in; a builder used twice |
| ChainHead session, `polkadart/lib/apis/chain_head.dart`, `transaction.dart` | the follow subscription, whether it was given up | `follow`, `body`, `storage`, `call`, `unpin`, `continue`, `stopOperation`, `unfollow` | operations race the end of the subscription |
| sr25519 backends, `sr25519/lib/src/backend/`, `sr25519/rust/src/lib.rs` | the loaded library, the backend of the process; a `PublicKey` keeps its encoding | key pairs, signing, verifying; `tryLoad` | two implementations, a library of another version, keys and signatures that outlive the process |
| smoldot bindings, `smoldot/lib/src/bindings.dart`, `smoldot/rust/src/lib.rs` | memory on both sides, `CLIENTS` and `CHAINS` under their locks, one Tokio runtime for each client | every exported function and its wrapper | isolates on threads of their own, tasks of the runtimes, a runtime that is dropped while both go on |
| Keyring, `polkadart_keyring/lib/src/` | pairs by public key, the default format | `add*`, `remove`, lookups; `lock` and `unlock` of a pair | a lookup in one format of a key added in another |

### Parts that compute

The RPC APIs and call objects (`polkadart/lib/apis`, `balances`, `primitives`,
`models`), the SCALE codecs, metadata with its registry, derived codecs and
Merkle tree, hashers, SS58 addresses, the signature schemes, mnemonics and
secret URIs, the ink! ABI and contract tools, and the code generators.
`PROJECT.json` lists each with what becomes of it.  Those
worth an operator and a reference definition are in the plan; field arithmetic,
hashing, layouts, file access and downloads are not (section 8).

### What would make each correct

- **Multisig**: an operation is executed at most once, by at least the threshold
  of distinct signatories, each of which approved this very operation and not
  an earlier one with the same call data; a transaction the library submits
  fails only if it was overtaken; no operation gets stuck.
- **Account**: every wallet derives the same account from the same addresses in
  any order, and it is the account the pallet acts for.
- **WebSocket provider**: each future gets the answer to its own request and
  gets one, whatever is lost and sent again; nothing is executed again whose
  answer was delivered; a stream somebody listens to stays registered.
- **smoldot**: every `addChain` ends, with its own chain; Dart's chains are the
  library's; nothing is left after `dispose`, nothing calls back after it; every
  pull that waits is served, with the next response of its own chain.
- **smoldot provider**: messages reach the chain once and in order; nothing is
  passed on after a disconnect; a disconnected chain is closed, also when it
  resolves later; no response is left over while a connection reads.
- **smoldot bindings**: memory is read while it is allocated and freed once; a
  handle never comes to mean another chain; no input aborts the process; every
  native call returns.
- **Extrinsic builder**: both maps are what the values say in any order of
  setters; the block whose hash is signed is the one the era names; what was
  fetched is refused only when something overtook it.
- **sr25519**: a public key and a signature belong to the secret key, and either
  backend accepts what the other made.
- **ChainHead**: no operation under a subscription that has ended.

## 2. Modules

| module | models | runs |
|---|---|---|
| `MultisigPromise` | the abstract calls on an account: each reads one stage of the operation, and does what that stage allows to that very operation, or nothing | (refined by `Multisig`) |
| `Multisig` | the library's calls, the pool, the pallet | `three_of_three` |
| `MultisigAccount` | the factory and the pallet's derivation | `multisig_account` |
| `RequestPromise` | the abstract calls: asked, executed, answered or refused | (refined by `WsProvider`) |
| `WsProvider` | provider, connection, node, application | `ws_provider`, `ws_mixed_answers` |
| `SmoldotClient` | clients, chains, tasks, callbacks | `smoldot_client`, `smoldot_two_clients` |
| `ResponsePromise` | the abstract queues: responses, and the calls that take them | (refined by `SmoldotPump`) |
| `SmoldotPump` | pulls, their tasks, the stream and its lock | `smoldot_pump`, `smoldot_pump_closed` |
| `SmProvider` | connections over a chain | `sm_provider` |
| `SmoldotFfi` | every native function, its binding, memory, locks, threads and runtimes | `smoldot_ffi` |
| `ExtrinsicBuilder` | the fetch of chain data, the builder, the era, the runtime's checks | `extrinsic_builder` |
| `Sr25519` | both backends over a small group, and the choice between them | `sr25519` |
| `MultisigProofs`, `WsProviderProofs`, `SmoldotClientProofs`, `SmoldotPumpProofs`, `SmProviderProofs`, `SmoldotFfiProofs`, `ExtrinsicBuilderProofs`, `Sr25519Proofs` | the theorems about the module each is named for (section 4) | (proved) |
| `MC*` | symmetry sets and values for TLC; nothing else | |

An action is one piece of code that nothing can interrupt: in Dart what runs
between two awaits, in Rust a task between two points where another thread can
see the difference.  Definitions whose comment begins with "Variant" are not part
of any specification: each is a plausible mistake in the definition that follows
it, and `PROJECT.json` says which property catches it.

### Multisig

A call of the library goes through `phase`: *checking* (it awaits the storage),
*preparing* (it awaits chain data and nonce), *submitting* (it awaits the
node), *pooled*, and then one of the outcomes of the pallet, or a refusal.

- `Start`: the checks before the first await.  `approveAsMulti` and `asMulti`
  ask for a signatory, `cancel` does not, and the arguments of every call are
  built with the other signatories of its signer, which throws for a stranger
  (`HasOthers`).
- `Decide`: what `MultisigStorage.fetch` returned, the `StateError`s in their
  order (`RefusesApprove`, `RefusesExecute`, `RefusesCancel`), the runtime call
  and its encoding.  `GivenArgs` are the arguments `_createRuntimeCall` passes,
  `PalletArgs` those the pallet declares: the codec throws for one that is
  missing.
- `Prepare`: `_submitCall` up to the signature, with the caller's nonce or that
  of `system_accountNextIndex`.
- `Submit`, `Expire`, `IncludeOpen`, `IncludeApproval`, `IncludeExecution`,
  `IncludeFailure`: pool and pallet, external.

`built[c].seen` is the height at which the call read the entry and `changed` the
height of its last change: history variables that no guard uses.  A timepoint 0
is the null that the library passes when there was no entry.

`Promise` maps this to `MultisigPromise`, which knows no nonces, blocks or guards of
a pallet.  A call *reads* when its `Decide` goes on: it keeps the round, and whether
it may approve or must execute, by what it read.  What it does later is compared
with that, and with whether it is still *current*: whether anything happened to
the operation since.  A library that executes with two approvals missing, approves
where one is missing, hands on another timepoint, or submits what is bound to fail
breaks the promise, whatever the pallet then makes of it.

### MultisigAccount

A wallet passes a list of addresses and a threshold to the factory; `account` is
what comes out.  Deduplication compares strings, not keys: one key in two
formats counts twice in the library and once in the pallet, so `PalletActsForIt`
says precisely that the two agree *if and only if* no key is given twice.

A list is a function on its places.  What Dart builds with loops, a set in order
of insertion and the other signatories, are the members of a list at some of its
places (`MembersAt`: the k-th is the one whose place has k places up to it), and
`List.sort`, which promises a result and no way to it, is a rearrangement that
leaves no key before a smaller one (`SortedPubkeys`).  Keys that compare equal are
equal, so that every such rearrangement gives the same list (`SortedOnce`).

### WsProvider

`queries` and `subscriptions` are sequences because Dart's maps keep the order
of insertion, in which `Reconnected` sends the queries again and `disconnect`
closes the controllers.  `send` is two steps (`Send`, `Transmit`) since it awaits
`isReady`, `subscribe` a third (`Return`) since its continuation runs after
messages that arrived with the answer.  Losing the connection empties both
directions, and the node forgets its subscriptions; the node gives every execution
of a subscription an id of its own, which is why `Subscriptions` are pairs.
`disconnect` is two actions: with a stream that is listened to, closing its
controller runs `onCancel`, which takes the entry out of the map that the loop
goes through, and the loop throws (`DisconnectThrows`).

`Promise` maps this to `RequestPromise`: a call is *pending* from `send` to the moment
when the listener completes its future (`CallOf`), a run is an execution by the
node, a loss is a loss of the connection, and the result is the execution whose
answer the completer was given (`ResultOf`).

### SmoldotClient

A handle stands for the call of `addChain` it was made for, which is sound since
handles are unique in the process; `_nextCallbackId` is not unique, and is kept.
`RustAdds`, `RustFails`, `RustCalls` and `RustEnds` are the steps of the task;
`dispose` is one step for each of its awaits, with Dart's check that the map did
not change under the iterator (`DisposeNext`, `DisposeThrows`).  `overlapped`
records the clients that were disposed of while another call of them was under
way; the properties that only hold without it say so.

### SmoldotPump

A pull puts itself into the registry, spawns a task, and waits.  `queue` is the
order of the tasks at the stream's lock: `RustLocks` in any order, `RustTakes` by
the head alone.  `Close` is what `removeChain` does to a chain: it leaves the
light client, its stream ends, and the pump is disposed of.

`Promise` maps this to `ResponsePromise`: a call takes the first response of its
chain's queue when its task does (`RustTakes`, under the lock), and receives it when
the callback reaches the isolate; `carried` is what it takes, `removed` the chains
that are closed.

### SmProvider

The chain is one stream, pulls that fail once it is closed, and a bound on the
requests that wait in it: what `SmoldotPump` and the light client offer.
`Attach` is `_onReady`: the buffer goes to the chain until it is full, then the
buffer is cleared and the loop starts, or an exception leaves both undone.

### SmoldotFfi

Where `SmoldotClient` follows the futures of Dart, this module follows the
interface below them: who owns a string, what a handle names, which lock a call
waits for, which thread drops a runtime.  Each client lives in an isolate of its
own, so that native calls of two clients run at once; `frame` is what an
isolate's thread does in the bindings, from `Enter` (the arguments are
allocated) through the library's steps to `Leave` (they are freed, and the
library's string with them).  `heap` holds the blocks that are allocated.

- `NativeInit`, `NativeVersion`, `NativeAdd`, `NativeSend`, `NativeNext` and
  `NativeRemove` are one step each, from the look-ups to the return: they hold no
  lock of a registry while they wait for anything.
- `smoldot_client_destroy` is three: `DestroyChains`, `DestroyClient`, which keeps
  `CLIENTS` locked, and `DestroyRuntime`, the drop of the last reference under that
  lock, which waits for the tasks that are being polled.
- A task is *running* (or waits to be polled), *done* (it has its result), *called*,
  and ends.  The task of `smoldot_add_chain` owns a reference to its client
  (`Holders`), that of `smoldot_next_json_rpc_response` does not.  `Ends` of the
  last holder drops the runtime on one of its own threads: `aborted`.
- `Accepts` and `Config` are `build_statement_config` with its integer widths;
  `ValidConfig` is what smoldot asserts.  A task whose configuration is not valid
  would abort the process, and `TypeOK`, a part of `Inv`, says there is none.

### ExtrinsicBuilder

`fields` are `ExtensionBuilder`'s values, `maps` the two maps made from them
(`extensions` and `additionalSigned`, the era and its block hash in one record).
`NodeReads` answers the parallel requests of `fetchStandardData` in any order,
with what the chain is then; only the hash waits for the number.  `SignAndBuild`
is the code up to the await of the nonce, `Resume` all after it: two calls of
`signAndBuild` may await at once.  `Include` and `Refuse` are the runtime's checks
of version, era and nonce.  A block's hash is its number, which makes
`BirthHolds` an equation of numbers: the block the era names is the one whose
hash was signed.  `since` records the runtime and the nonces when the fetch
began, and `overridden` that the caller set a hash, nonce or version of its own:
history that no guard uses.

### Sr25519

Scalars and points are numbers modulo `Q`, an encoding is a number up to
`ByteMax`, so that some encodings decode to nothing.  What a function of
`rust/src/lib.rs` returns is its code with its output buffer, *Junk* until it is
written; `Check` throws for a code, and hands the buffer out otherwise.  A library
of another ABI version ("old") may write anything: *Junk* again.  `DartSign`,
`ObjectVerifies` and `DartVerify` are the Dart implementation with its own
arithmetic (it negates the key; schnorrkel's equation is `VerifySimple`).
`Restart` starts the process again with whatever library is installed then, while
keys and signatures stay.

## 3. What each run checks

State counts are those of the configurations as they stand; no run takes more
than about two and a half minutes with two workers.  `Inv` is everywhere the types and
the inductive invariant of the proofs (section 4).

| run | instance | properties | states |
|---|---|---|---|
| `three_of_three` | three signatories, threshold 3, five calls, nonces given or fetched | `Inv`, `ApprovalsAreMeant`, `KeepsPromise` (refinement of `MultisigPromise`), `FailsOnlyIfOvertaken`, `CompletedOnlyByStaleApproval` | 2.6 M |
| `multisig_account` | four addresses of three keys, a string that is no address, two wallets, lists up to three | `SameForEveryOrder`, `PalletActsForIt` | 305 k |
| `ws_provider` | two queries, one subscription, two losses, two connects; no disconnect while queries are pending | `Inv`, `AnswersExpected`, `ListenedIsRegistered`, `KeepsPromise` (refinement of `RequestPromise`), `EveryRequestSettles` | 104 k |
| `smoldot_client` | one client, three calls of `addChain` | `Inv`, `Served`, `OwnChain`, `NothingLeft`, `CallbacksOpen`, `DisposeCompletes`, `EveryAddEnds` | 489 k |
| `smoldot_pump` | two chains, three pulls, two responses of each | `Inv`, `WaitingIsServed`, `LaterGetsLater`, `KeepsPromise` (refinement of `ResponsePromise`), `ResponsesArrive` | 477 k |
| `sm_provider` | two connections, three messages, two notifications | `Inv`, `SentInOrder`, `ClosedOnceEach`, `HeardOnce`, `SilentOnceStopped`, `DisconnectReleases`, `EveryMessageHeard` | 436 k |
| `smoldot_ffi` | two clients, two calls that spawn tasks, one of `send` or `version`; a `usize` smaller than a `u64`; an interval of zero, a count beyond `usize` | `Inv` (with the configurations), `StringsOwned`, `HandlesMeant`, `AbortsOnlyByAdd`, `EveryCallReturns` | 542 k |
| `extrinsic_builder` | two signers, periods 3 and 5000, blocks 8191 to 8194, an upgrade, two setters, two signatures | `Inv` (with: the maps are what the fields say), `RefusedOnlyIfOvertaken` | 5.1 M |
| `sr25519` | a group of five elements, encodings up to 7, two seeds, the empty message and another, two signatures, three libraries | `KeysBelongTogether`, `SignaturesHold` | 966 k |

Three runs end in a counterexample, each to what the repository says of itself:

| run | property | what TLC shows |
|---|---|---|
| `ws_mixed_answers` | `AnswersAreOwn`: the id finds the completer of the query | `connect` starts ids at 0 again while queries of the last connection are in the map: after a reconnection a new query gets the answer of an old one |
| `smoldot_two_clients` | `OwnChain`: the caller gets the chain it added | callback ids are counted by client, their registry is the process's: two clients overwrite each other's completers |
| `smoldot_pump_closed` | `CallbacksReleased`: `dispose` releases the callback and settles the pulls | removing a chain wakes the pull that waits in it, and its task calls a NativeCallable that is closed |

### Bounds, and why they are enough

- *Multisig*: a race needs two calls in flight for one entry; a call that read an
  operation and meets the next one for the same call data needs five: three open,
  approve and execute the first, one opens the next, and one is late.  A threshold
  of three lets two approvals be in flight; what is special about a threshold of
  two is proved (`TwoIsSafe`).  Calls are interchangeable, so their symmetry is used.
  A nonce given by the caller is 0, which may have been used before.  The run has no account
  that is no signatory; the theorems have any accounts, and no bound.
- *MultisigAccount*: duplicates, formats and permutations all appear in
  lists of three; `MaxCount` stands for the 100 that the factory allows.
- *WsProvider*: `MaxDrops = 2` loses a connection again after everything was sent
  again, `MaxConnects = 2` is a connect after a disconnect, two queries reorder
  around a subscription.
- *SmoldotClient*: three calls let one chain be listed, one be added and one be on
  its way while `dispose` loops.
- *SmoldotPump*: three pulls over two chains put two tasks at one lock, two
  responses tell their order.
- *SmProvider*: what connections buffer together stays within `MaxPending`
  (`MaxBuffered` 1, two connections, `MaxPending` 2); section 6 says what happens
  beyond.

- *SmoldotFfi*: two isolates contend for one lock; two tasks let a runtime be
  dropped with one of each kind under way, or a chain be removed and another be
  added over its handle.  `UsizeMax` 3 and `U64Max` 15 stand for 2^32 - 1 and
  2^64 - 1.
- *ExtrinsicBuilder*: 8192 is where an era of 8192 blocks (a period of 5000) begins
  again and where its encoding, in steps of two blocks, rounds 8193; a period of
  3 becomes 4, and ends within the instance.  Two setters give every pair in
  either order, two signatures a builder used twice or by two signers at once.
  No phase of the instance falls short in floating point; `MCExtrinsicBuilder` compares
  `FallsShort` with what doubles give for others, and `BirthOfEra` has all of them.
- *Sr25519*: in a group of five elements a wrong equation fails for some nonce,
  and 5 to 7 are encodings that decode to nothing.  With two signatures a key is
  asked about what another key signed.

Deadlock is checked in `sr25519`, whose applications can always go on.  Elsewhere
it is not: a wallet, an application or a node may stop for good, and every bound
ends the behaviours that use it up.

### Fairness

Liveness is checked of `WsProvider`, `SmoldotClient`, `SmoldotPump`,
`SmProvider` and `SmoldotFfi`, with weak fairness of
- the continuations and callbacks of the isolate, which its event loop runs in order
  (`Transmit`, `Return`, `DeliverAnswer`, `DartCallback`, `Resume`, `ReadOn`, ...);
- the steps of the Rust tasks, which Tokio's multi-threaded runtime schedules
  (in `SmoldotFfi` only those of a task that has its result: adding a chain, or
  waiting for a response, may take for ever);
- the threads that are inside a native call, which the operating system schedules
  (`Native`, `Leave`); a lock that is free is given to one of those that wait,
  and in `SmoldotFfi` each client locks it for a bounded number of steps;
- the node's answers and the reconnection: `web_socket_client` tries again
  without limit, and the losses of the connection are finitely many.

Weak fairness is enough since each of these stays enabled until it is taken
(`Transmit` waits for an open socket; a loss may disable it, but only
`MaxDrops` times).  The application owes nothing: no fairness of `Send`, `Cancel`,
`Dispose`, `Close` or `Disconnect`.  The light client owes no response.

## 4. What is proved

The eight `*Proofs` modules hold the theorems.  They have no bound: they are
about every set of accounts, clients, calls, chains, pulls, connections, messages
and signers, and every value of the numbers.  Each module proves one inductive
invariant, `Inv`, and takes the properties from it (`MultisigProofs` has another
for the factory, `FactoryInv`).  TLC checks the same `Inv` in the runs (that of
`Sr25519Proofs` was checked on the instance of `sr25519`), and every assumption on a constant is an `ASSUME` that the runs evaluate.

| module | theorems | for |
|---|---|---|
| `MultisigProofs` | `TypeCorrect`, `InvCorrect`; `ApprovalsMeant`: no approval counts for an operation that its signatory had not read, and an execution has at least `Threshold` of them; `OvertakenOnly`: a submitted transaction fails only if another changed the operation in between; `StuckOnlyByRace`: an operation gets complete and unexecuted only by an approval that was overtaken; `TwoIsSafe`: with a threshold of two it never does; `PromiseKept`: `Multisig` implements `MultisigPromise`: what a call does is what the one operation it read allows | any finite set of signatories, every threshold from 2 to their number, any nonces |
| `MultisigProofs` | `AccountForEveryOrder`: wallets that name the same addresses get the same account; `AccountIsThePallets`: it is the pallet's, exactly if no key was given twice | any addresses, lists of any length, any wallets |
| `WsProviderProofs` | `InvAlways`, `ListenedIsRegisteredAlways`; for a *patient* application `AnswersExpectedAlways`, `AnswersAreOwnAlways`, `NoneForgottenAlways`: no call that waits is left without its query or its answer under way; and `PromiseKept`: `WsProvider` implements `RequestPromise` | any requests, losses, connects and notifications |
| `SmoldotClientProofs` | `InvAlways`, `ServedAlways`, `OwnChainAlways`, `NothingLeftAlways`, `CallbacksOpenAlways`, `DisposeCompletesAlways` | any number of calls, in a process with one client; `DisposeCompletesAlways` for any number of clients |
| `SmoldotPumpProofs` | `InvAlways`, `WaitingServedAlways`, `OwnResponsesAlways`, `LaterGetsLaterAlways`, `PromiseKept`: `SmoldotPump` implements `ResponsePromise` | any chains, pulls and responses |
| `SmProviderProofs` | `InvAlways`, `SentInOrderAlways`, `ClosedOnceEachAlways`, `HeardOnceAlways`, `SilentOnceStoppedAlways`, `NothingLostAlways`: until the chain is closed no message it made is lost | any connections, messages, notifications and bounds |
| `SmoldotFfiProofs` | `InvAlways`, `StringsOwnedAlways`, `HandlesMeantAlways`, `AbortsOnlyByAddAlways`, `QuietOnceDestroyedAlways`: after `smoldot_client_destroy` no task of the client is left, unless it overtook one that added a chain; `LockAlways`: the registry stays locked only by a call that will end | any clients, calls, configurations and widths of the integers |
| `ExtrinsicBuilderProofs` | `BirthOfEra`, `InvAlways`, `RefusedOnlyIfOvertakenAlways` | any signers and chains, every period an era can have |
| `Sr25519Proofs` | `InvAlways`, `KeysBelongTogetherAlways`, `SignaturesHoldAlways` | a group of any prime order, any seeds, messages and encodings |

Two hypotheses are the application's, and the runs that end in a
counterexample show that they are needed: `Patient`, that it does not disconnect
while queries are pending, or connects only once (`ws_mixed_answers` disconnects
with a query pending and connects again), and `SingleClient`
(`smoldot_two_clients`).

### Multisig

`ApprovalsAreMeant` is not inductive: that a recorded approval was meant needs
that a pooled transaction still carries the timepoint its call read.  The
strengthening is

    Inv == TypeOK /\ EntryInv /\ (\A c : CallInv(c)) /\ ApprovalsAreMeant

`EntryInv` relates the entry to the executions: an entry that exists is signed by
its depositor, its timepoint lies in the past and is that of no execution.
`CallInv` says what a call still knows between its decision and its end, with
`FreshInv` at its heart: if the entry has not changed since the call read it, the
timepoint is the entry's and the decision would be made again.  Then

- `InitInv`; `TypeStep`, `EntryStep`, `CallStep`, `MeantStep`: each conjunct is
  preserved by every action, one step for each action;
- `OvertakenStep` and `CompletedStep`: the action properties, since by `FreshInv`
  a transaction that fails or completes would have been refused on an entry that
  did not change;
- `PromiseStep`: with `round <- op.when`, `approvers <- op.approvals` and the views of the
  calls, `Decide` maps to `Read` (`ReadStep`: the library's refusals are the promise's
  guards), an inclusion to `Open`, `Approve`, `Execute` (`ActStep`) or `Fail` (`EndStep`),
  everything else to a stutter.  That a current call approves only short of the
  last approval, and never fails, is `FreshInv`; that one which executes has
  enough approvals, overtaken or not, is `LastIsMissing`; that a round is new is
  `EntryInv`.

`TwoIsSafe` follows because with a threshold of two the first approval already
makes the next one final: `CallInv` says that an `approveAsMulti` that carries a
timepoint was decided only if `Threshold > 2`.  With a threshold of two every one
carries null, and can only open an operation.

### MultisigAccount

`AccountForEveryOrder` compares two lists that agree only as sets.  An induction over
them is out of reach, and counting takes its place: a finite set of places is
enumerated by the number of its members up to each (`Ranking`, from the library's
facts on cardinalities), so that `MembersAt` lists each member once
(`MembersAtPlaces`).  Without duplicates two lists of the same addresses are
rearrangements of each other (`UniqueAddressesKeepsOne`, `SameMembers`), and of two
ascending rearrangements none has a smaller key at any place than the other
(`AscendingNotBelow`, by the pigeonhole principle): they are equal (`SortedOnce`), and
so are the accounts.  That a sorted rearrangement exists at all
(`SortedPubkeysSorts`) ranks the places by key, then by place.

`AccountIsThePallets`, in either direction: if the keys are distinct, what is left
without the caller's ascends strictly, and with it again is a rearrangement of the
account's keys, which the pallet sorts into the same list; if some key is there
twice, the list without it is shorter by two (`OthersOfDuplicate`) and derives
another account.

### WsProvider

`QueriesInv`: an entry of the map has an id and a request of its own, whose future
still waits.  `TrafficInv`: a connection carries a request once, and the node has
executed it at most once for each connection there was, less one while the request
is on its way up.  `ListenedIsRegistered` needs nothing more.  `PatientInv` is what
holds while no disconnect leaves queries behind: ids are below the sequence, what
is on its way up is an entry of the map, each id has one answer on its way down.
`AnswersExpected` is part of it.  An application that connects only once may
disconnect as it likes: what `UnconnectedInv` says is that no query is in the map
before a connection is asked for, and `disconnect` then leaves nobody who could
reuse an id.

`PromiseStep`: the node's execution of a request is a `Run`, possible since `Patient`
puts every query that travels into the map, whose future waits (`QueriesInv`), and
`TrafficInv` leaves it an execution; the listener's step is a `Settle`, since an
answer carries a run that there was (`RunsInv`) and finds its own query; a failed
`send` or `disconnect` is a `Refuse` of calls that were never executed (`RunsInv`).
What a disconnect leaves pending stays *pending*.

`NoneForgotten` is the safety half of `EveryRequestSettles`: a call that waits for the
connection can still have it; one that was sent is in the map, and while the
connection is open its query or its answer is on its way (`Travels`).  Beyond it
liveness only needs that what travels arrives.  A reconnection sends all queries
again, which restores `Travels` for all of them at once (`StillServed`).

### SmoldotClient

`RegistryInv`, `TasksInv`, `InboxInv` and `CallsInv` say of the registry, the tasks,
the posted callbacks and the waiting calls that they describe the same calls of
`addChain`, in whatever step each is; `ChainsInv` relates Dart's map to `CHAINS`.
`Waits(c)` is why `overlapped` matters: a call that waits has its client *ready*,
or the client was disposed of meanwhile.  `NothingLeft` and `CallbacksOpen` are
inductive only together with these.  All that needs one client, since clients
share the registry and count their callbacks alone: with two, TLC violates
`Served`, `OwnChain`, `NothingLeft` and `CallbacksOpen`.  `DisposeCompletes` needs no
such thing, and has an invariant of its own, `DisposeInv`: `OverlapInv` says that
calls that wait under `dispose`, and maps that change under it, are counted.

### SmoldotPump

Ids are never used again (`RegistryInv`), a task stands in the queue of its stream's
lock once (`LockInv`), what it carries is taken by no other and is later than all
that was received before its pull began (`TasksInv`), and a callback in the inbox
is the only one of a task that is done (`InboxInv`).  `earlier`, the responses
received when a pull began, is history.

`PromiseStep`: the promise's queue is what a stream still has, its `Take` is
`RustTakes`, whichever task got the lock; the callback is a `Receive`, since by
`InboxInv` it carries what its pull's task took (`Settling`); `Close` fails all that
wait, and by `EndedInv` a task refused, or a callback without a response, belongs
to a chain that is closed, so that it settles nothing more.

### SmProvider

`ClosingsInv` counts: `closings` is the number of connections that were disconnected
and have had the chain, by the cardinality of a set that grows by one element when
`close` is called.  `StreamInv` orders: what left the stream is before what is in
it, and a read loop's message in hand is later than what its connection has heard
and in nobody else's hand.

`NothingLost` is the safety half of `EveryMessageHeard`: until the chain is closed
every message it made is in the stream, in a read loop's hand or heard (`Kept`),
and every connection that has the chain goes on reading and was not stopped,
unless its `_onReady` threw (`Reads`).  `KeptOn`: a message leaves one of these places
only for the next.

### SmoldotFfi

`HandlesInv`: whatever carries a handle (a message, a task, a chain Dart knows, a
call under way) *agrees* with `CHAINS`: the handle is below `nextHandle`, and names
the same chain if it names one.  It is kept since `generate_chain_handle` is never
below `nextHandle`, which is also why Dart may remove a chain and keep its handle.
`AddsInv`: a task of `smoldot_add_chain` whose client is not in `CLIENTS` any more is
one that the client's destruction overtook.  `StringsOwned` is inductive with
these: `heap` holds what Dart owns or will read, and beyond it only the strings
of callbacks.

`LockInv`, `QuietOnceDestroyed` and `CallersInv` are about the end of a runtime, client
by client (`RuntimeAt`).  `CLIENTS` stays locked from one step to the next only by a
call that drops a runtime, whose client has left the registry and has no task that
adds a chain; since the tasks that are left need no lock (`MayGoOn`), they come to a
point where they can be dropped.  The drop takes all of them, so that nothing
calls a closed callable after `smoldot_client_destroy` has returned; a client that
was *overtaken* is the exception.  A step that gives a client no new task and leaves
its frame alone keeps its part (`RuntimeKept`): that is every step of another
isolate, and every step of a task.

### ExtrinsicBuilder

The era comes first, as arithmetic for every period from 1 to 65536: quotient and
remainder are unique (`Division`, `DivisionUnique`); a period rounded to a power
of two is one of 2^2 to 2^16, by cases; two bytes hold the era, and what the
runtime takes out of them is the period and a phase (`EraParts`).  Which phase, is the
matter of two roundings: `encodeMortal` divides and multiplies in doubles, and may
come out below the phase (`FallsShort`; `QuantizedPhase`), then the era counts in
steps (`KeepsPhase`: what is left is the block's phase exactly if neither took
anything).  `LastOfPhase`: the runtime's block is the one the era was made for
exactly if the phases agree.  Together, `BirthOfEra` is an equivalence: it says for
which blocks the era is right, and that it is wrong for all others.  Which phases
fall short the proof need not know: the arithmetic of doubles is a definition,
exact for factors up to 16 and phases of 16 bits.  Then `Inv`: the two maps are what
the fields say whatever setter wrote last (`SignsItsFields`), and what was fetched,
set (`FetchInv`, `BuilderInv`) or signed (`PoolInv`) lies in the chain's past, and
not before the fetch if the caller overrode nothing.

### Sr25519

The group is what remainders modulo `Q` are: a summand or factor may be replaced
by its remainder (`Summand`, `Factor`), a summand taken away (`TakeAway`), and, as
`GroupAssumption` makes `Q` a prime, a factor divided by (`DivideBy`).  What is
signed verifies (`SignedVerifies`), for one message only (`VerifiesOnce`); the
equation of Dart's `PublicKey` object is schnorrkel's (`SameEquation`).  `Inv` adds
that no library of another version is called, that keys and signatures are what
the equations make of secrets, and that a key object which was not decoded into
again keeps the encoding of its key.

### What is only model-checked

- Liveness (`EveryRequestSettles`, `EveryAddEnds`, `ResponsesArrive`,
  `DisconnectReleases`, `EveryMessageHeard`, `EveryCallReturns`): fairness and
  ENABLED are out of the prover's reach.  What is proved is what fairness works on:
  `NoneForgotten`, `WaitingIsServed`, `NothingLost` and `LockInv` say that whatever is
  waited for is still to come, and who will bring it.
- The three counterexamples, of course.

## 5. What is assumed

- Of the chain: the weight passed is sufficient; fees are paid; a transaction is
  replaced by no other of the same nonce (tips are not modelled); inclusion is
  final.  A transaction may leave the pool at any time, which covers mortality.
- Hashes are injective: the account's key, the call hash.
- Of the connection: it delivers in order; what was under way when it is lost or
  closed is lost; the node answers each request once, in order.
- Of the isolate: the closing of controllers in `disconnect` is one step.  Other
  events could come between its awaits; none of them changes what the loop finds
  first.
- Of steps that are one here and more in the code, without a difference to any
  property: `SmoldotPump`'s `Close` is `smoldot_remove_chain`, the settling of what is
  pending and the closing of the callable (`json_rpc.dart:94`), and a task that calls
  back between them calls an open callable, which is the lesser fault;
  `SmoldotFfi`'s `NativeRemove` locks `CHAINS` and then `CLIENTS` (`lib.rs`), and what
  another thread does in between does it as well before or after.
- Of `SmoldotClient`: `dispose` is not called a second time while a first call awaits
  in its loop (`client.dart:229`, the client still counts as initialized then).
- Of smoldot: a client is initialized once; the light client makes a chain's
  responses in an order of its own.  `SmoldotPump` closes a chain as
  `removeChain` does; `SmoldotClient` has no pulls.
- Of smoldot's interface: an isolate makes one native call at a time; Dart passes
  pointers that are valid UTF-8 and not null, as its bindings do; the closing of
  the callable in `dispose` belongs to `Leave`.
- Of the extrinsic builder: the metadata declares the standard extensions; there
  are no forks, so that a number names a block; the transaction version changes
  with the spec version; a period is between 1 and 65536 (`PeriodAssumption`).
- Of sr25519: schnorrkel, the transcript and the expansion of a seed; a challenge
  tells the messages of an instance apart.  That another key's signature is refused
  is a matter of chance in a small group, and is not claimed.
- `pallet_multisig`, the transaction pool, the node, the runtime's checks of an
  extrinsic, `web_socket_client`, Tokio, schnorrkel and the light client are
  external: modelled from how the code uses them.

## 6. What the code does that no run shows

Met while modelling, and left to the reader of the code:

- `approveAsMulti` refuses a final approval only on the storage it read before its
  awaits (`multisig.dart:299`): two approvals decided on the same entry complete the
  operation, nothing executes it, and `asMulti` refuses because it is complete
  (`multisig.dart:407`), against `multisig_storage_status.dart:25`.
  `CompletedOnlyByStaleApproval` says that this is the only way to it.
- `_createCancelAsMultiRuntimeCall` takes `callHash` and does not pass `call_hash` on
  (`multisig.dart:523`): the codec throws, and no cancel is ever submitted.
  `Encodable` models it.
- `ExtrinsicBuilder` signs for a second signer with the nonce it fetched for the
  first (`extrinsic_builder.dart:608`), and twice with the same one.
- `encodeMortal` (`era_codec.dart:73`) rounds the phase for periods beyond 4096, so that
  the runtime computes another birth block than the one whose hash was signed unless
  the block number is a multiple of the step; it computes the phase modulo 65536
  and encodes no longer period.  It divides by `period >> 12` of the period as given
  and multiplies again in floating point: where that is 7, 11 or from 13 to 15,
  some phases come out one less (with 28673, 488 becomes 487, and the era says 480).
  `BirthOfEra` says of every period and block whether its era is right.
- `quickSend` asserts both that a transaction is immortal and that it is not
  (`extrinsic_builder.dart:574`), and never passes `eraPeriod` on.
- `metadataHash(enabled: true)` without a hash sets the mode and maps to *Disabled*
  (`extension_builder.dart:531`), while `_applyStoredValues` writes nothing for it.
- `PublicKey.decode` does not clear the encoding that `encode` keeps
  (`public_key.dart:44`): a key object that is decoded into again encodes, and hashes
  when it verifies, the key it held before.
- `smoldot_add_chain` accepts the handle of any client's chain as a relay chain
  (`lib.rs:187`) and drops a handle that names none; the chain is then added without
  its relay chain, and fails or not by its specification.
- A client that is disposed of after `addChain` returned, and before the task that
  called back has ended, still leaves the last reference to its runtime to that task:
  the callback comes before the task's end (`lib.rs:259`).  `overtaken` counts such
  clients too.
- `WsProvider.disconnect` throws a `ConcurrentModificationError` out of its loop when a
  stream is listened to (`provider.dart:239`): the socket stays open, and a second
  call is needed.  Controllers closed before stay in the map, and a notification
  for one throws in the listener (`provider.dart:226`).
- Notifications that arrive with the answer to a subscription, before its
  continuation registered the controller, are dropped (`provider.dart:225`).
- `subscribe` does not hand `onCancel` on (`provider.dart:278`): no unsubscription is
  ever sent.  Subscriptions are not made again after a reconnection.
- `SmoldotClient.dispose` throws when another call changes `_chains` while it awaits
  (`client.dart:234`); a task may insert its chain into `CHAINS` after
  `smoldot_client_destroy` (`lib.rs:256`), and may be the last to hold the
  runtime, which Tokio does not allow on its own threads (`lib.rs:219`).  The
  properties of `smoldot_client` make an exception of `overlapped` clients for this
  reason.
- The response strings that `lib.rs:403` leaves to Dart are never freed
  (`json_rpc.dart:26`).
- The comment on FIFO order at `lib.rs:377` holds for one pull after the other.
  Concurrent pulls may get the lock, and call back, in any order; `LaterGetsLater` is
  what is left of it.
- A connection of `sm_provider` with more buffered messages than the chain takes keeps
  its buffer and never reads (`sm_provider.dart:100`); two connections of one
  provider share a chain, hear each other's responses and close it for both.

## 7. Plan

Done, in this order: `MultisigPromise`, `Multisig` and its proofs,
`MultisigAccount`, `WsProvider`, `SmoldotClient`, `SmoldotPump`, `SmProvider`,
`SmoldotFfi`, `Sr25519`, `ExtrinsicBuilder`; the proofs of all; `RequestPromise` and
`ResponsePromise` with the proofs that they are kept.

To come:

1. **Proofs**: what `WsProvider` promises an application that is not patient;
   `HandlesMeant` and `OwnChain`
   together, over both sides of smoldot's bindings.
2. **`ChainHeadSession`** with the transaction API, over the promise of
   `WsProvider`: operations against `unfollow` and the node's `stop` event.
3. **Codecs**: compact integers, options, enums, bit sequences and collections of
   `polkadart_scale_codec`, the SS58 format, the Merkle tree over types, each as a
   pure operator against a reference definition over bounded inputs, in one
   instance.
4. **Keyring**: pairs, formats, locked pairs.
5. **Composition**: `SmProvider` over `SmoldotPump`, `SmoldotPump` with the client's
   `dispose`, in place of the assumptions of section 5; `SmProvider` against an abstract
   channel, as `WsProvider` and `SmoldotPump` are.

## 8. What is not modelled, and why

- ECDSA and the hashers: no small curve or word size behaves as the real ones do,
  and published vectors test them.  Of sr25519 key derivation, VRF and batches.
- The setters of `ExtensionBuilder` that share nothing with the others (tip, asset,
  metadata hash, custom extensions), and the encoding of payload and extrinsic.
- `error.rs`, and the types of `ffi_types.rs` that nothing uses.
- Metadata versions, RPC APIs, call objects, data classes: layout without control.
- The code generators and the ink! tools: programs that read a file and write
  another.
- Library search and downloads: I/O.
- `HttpProvider`: one request, one response; `subscribe` throws.
- `createAndFundMultisig`, `createCallData` and `getStatus` of `Multisig`: they build or
  read data and decide nothing.
- Logging, wording of errors, JSON of messages.
