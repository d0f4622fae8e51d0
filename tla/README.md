# TLA+ verification of the OG catch-up synchronisation core

This directory models the OG node's catch-up synchronisation core in TLA+.
The code is in `src/og/syncer/catchup_syncer.go` and
`src/og/message_handler.go`, and `spec.md` describes it. The EVM's gas
table (`src/vm/eth/core/vm/gas_table.go`) is modelled as well. The modules are
model-checked with TLC and proved with TLAPS.

## 1. Inventory

### Components and their state

| Component | Source | State | Operations |
|---|---|---|---|
| Catch-up Syncer | `og/syncer/catchup_syncer.go` | `Enabled`, `syncFlag`, `WorkState` (Started/Stopped), `currentBestHeight`, plus the channels `quit`, `quitLoopEvent`, `EnableEvent`, `NewPeerConnectedEventListener` | `loopSync` (timer tick, new-peer event, quit), `eventLoop` (enable, quit), `Stop`, `syncToLatest`, `isUpToDate`, `CacheNewTxEnabled`, `NotifyWorkingStateChanged`, `isSyncing`/`setSyncFlag`/`unsetSyncFlag` |
| Sync Message Handler | `og/message_handler.go` | No state of its own. It reads and writes the DAG, the tx pool, the tx buffer, the Downloader and the hub. | header, body, tx-set and fetch-by-hash requests and responses, the head announcement, ping and pong |
| Downloader | not in `src/` | its fetch pipeline | `Synchronise`, `DeliverHeaders`, `DeliverBodies`, `Terminate` |
| Peer Provider / Node Status | not in `src/` | the best peer's head and the local head | `BestPeerInfo`, `SetPeerHead`, `GetCurrentNodeStatus` |
| Auto client | `node/auto_client.go` | `pause`, `testMode`, the global `firstTx`, the timers | generates test traffic (out of the spec's scope) |
| RPC status | `rpc/debugger_controllers.go` | none | reads the syncer's fields and formats them |
| Codec | `og/message_type_gen.go` | none | generated msgp code |
| Genesis | `og/genesis.go` | none | builds the genesis sequencer |
| EVM gas table | `vm/eth/core/vm/gas_table.go` | `mem.lastGasCost`, the refund counter, and the frame's gas as the interpreter charges it | `memoryGasCost` and every dynamic gas function: copy, hash, log, exp, create, call, sstore, suicide |

### How the components interact

Two goroutines run for the whole life of the syncer: `loopSync` and
`eventLoop`. Each timer tick and each new-peer event starts a new goroutine
that runs `syncToLatest`. These goroutines share `syncFlag` and `WorkState`
under `c.mu`. They read `Enabled` and `currentBestHeight` without the lock.

A cycle calls `BestPeerInfo` on the peer provider. It then calls
`Downloader.Synchronise`, which fetches headers and bodies from the peer.
The peer's message handler serves those requests with
`HandleHeaderRequest` and `HandleBodiesRequest`. The responses come back
through this node's `HandleHeaderResponse` and `HandleBodiesResponse` into
the Downloader. When a peer announces a new head, `HandleSequencerHeader`
updates that peer's head, and `BestPeerInfo` reports it on the next call.

### What is hard

The syncer:

- Cycles started by the timer and by new-peer events interleave.
- The flag check and the flag set take the lock separately.
- A cycle can fail part way through.
- `Stop` can arrive while a cycle is inside `Synchronise`.
- State is read without the lock.
- Notifications to listeners are sent on unbuffered channels while `c.mu`
  is held.

The handler:

- It takes peer-supplied `skip` and `amount` values in uint64 arithmetic.
- It walks the chain in four modes.
- It has count and byte caps.
- It treats a nil result from a lookup as the end of the data.

### Properties that make each component correct

Catch-up Syncer:

- At most one cycle runs at a time.
- The flag is held only while a cycle runs.
- A stable peer is eventually caught up with, and the status becomes Stopped.
- Shutdown drains every cycle.
- The status and the admission signal describe what is happening.

Header request handler:

- The response is the walk the spec describes: the loop implements the
  spec's one-step answer.
- The response is capped whatever the query asks for.
- No query crashes the node.
- The response is ordered as the reverse flag says.

Other handlers:

- Stale tx-set responses never reach the tx buffer.
- The body caps hold.
- A tx-set request with a hash is answered for that hash.

Gas table:

- A gas function that reports no error returns the exact sum of its costs:
  no checked or unchecked uint64 operation wraps.
- The memory fee remembered between instructions is the fee of the memory
  the frame really has, across failed and aborted expansions.

## 2. Modules

### `CatchupSyncer.tla`: the syncer, composed with the Downloader and peer environment

- Each `syncToLatest` goroutine is a process `p` in `Procs`. Its program
  counter `pc[p]` marks a point between two accesses to shared state.
- Each call that takes `c.mu` is one atomic step: `IsSyncing`,
  `SetSyncFlag`, `NotifyStarted`, `NotifyStopped` and `UnsetSyncFlag`.
- Each call into a collaborator is one step: `CheckUpToDate` (it calls
  `isUpToDate`), `BestPeerInfo`, and `SynchroniseOk`/`SynchroniseFail`.
- `Trigger(p)` is one timer tick or one new-peer event of `loopSync`. Both
  branches of the `select` run the same code.
- `QuitLoopSync` and `QuitEventLoop` model `Stop`. `QuitLoopSync` includes
  the deferred `Downloader.Terminate()`.
- `EnableEvent` models `eventLoop`.
- `PeerHeadChanged` is the network's part: a head announcement, or a peer
  joining or leaving. It is bounded by `MaxEnvChanges`.
- Heights are `0..MaxHeight`. `NoPeer` stands for a `BestPeerInfo` error.
- The Downloader follows the contract in the spec. `Synchronise` either
  brings the local height up to the target, or fails after committing a
  prefix of it. After `Terminate` it can only fail.
- `Init` lets `WorkState` start in either state. Its zero value is
  `Started`, and the constructor of the owner is not in `src/`.

### `HeaderChain.tla`, `HeaderQuery.tla`, `HeaderQueryAbstract.tla`: `HandleHeaderRequest`

- `HeaderChain` holds what the loop and the spec share: the constants, the
  static local chain, the Dag lookups, the queries a peer may send and
  `RefHeaders`, the spec's walk.
- `HeaderQueryAbstract` is what a header request promises: one `Answer`
  step sets `response` to `RefHeaders(request)`.
- `HeaderQuery` is the handler's loop. `Abstract` instantiates the abstract
  module with `request <- input` and `response <- headers` once `phase` is
  `"sent"` (before that, no response). `ImplementsAbstract == Abstract!Spec`
  is checked as a property: every step of the loop is a stutter of the
  abstract spec, and `SendResponse` (or the break on an unresolved header)
  is its `Answer`. A panicking handler never answers, which the abstract
  spec allows as stuttering; `NoNilDereference` is about that case.

- `Iterate` is one pass of the `for` loop: it resolves the current header,
  appends it and advances.
- `SendResponse` is the reply sent after the loop.
- The chain is `0..Tip`. The sequencer at number `n` has hash `n+1`, and `0`
  is the empty hash.
- uint64 values are taken modulo `2^W`, and `int(query.Amount)` is made
  negative from `2^(W-1)` up.
- A nil `*Sequencer` is `Nil`. Using it as a receiver puts `phase` into
  `"panic"`.
- `RefHeaders` is the spec's walk, written in closed form: no recursion, and
  independent of the loop.
- The four branches of the advance (hash or number mode, forward or
  reverse) are disjoint arms of one CASE, so the model is deterministic
  in the same way as the code's `if` chain.

### `GasTable.tla`: the EVM's dynamic gas functions

- Every gas function of `gas_table.go` is an operator from its inputs (the
  requested memory size, a stack word, the result of `callGas`, the
  account flags) to a record: the gas, whether it reported an error, the
  memory fee and the new `mem.lastGasCost`, the refund added, and `exact`,
  the same sum in unbounded integers.
- `memoryGasCost` is the operator of the same name: zero for no growth,
  `errGasUintOverflow` above `MemBound`, otherwise the difference of the
  quadratic fees with the square and the sums taken modulo `2^W`.
- `SafeSum` is the chain of `math.SafeAdd` and `math.SafeMul` calls a copy,
  hash or log function makes, with the first overflow reported.
- `Step(r, ms)` is the interpreter's use of a result `r` (the interpreter
  is not under `src/`, so it is modelled from the spec): an error or a
  cost above the frame's gas halts the frame; otherwise the gas is charged,
  the memory grows to `ms` and the refund is kept.
- `U == Pow2[W]`, where `Pow2` is the doubling recursion on `Nat`. It is
  `2^W`, written as a recursive function so that the prover has its
  definition (tlapm knows no facts about `^`). `GasTableAssumption` says
  that the params constants `P` and the gas table `Gt` are naturals, as
  the `uint64` fields of `params` and `params.GasTable` are.
- `gasSStore` models the legacy three-case switch. Every case of that
  switch returns, so the EIP-1283 net-metering code after it is
  unreachable, and it is not modelled.

### `MessageHandler.tla`: the other handlers

- Every handler of `IncomingMessageHandler` other than the header request
  is one action, from its guard (the early returns) to its output.
- `HandleTxsResponse` is two actions. `HandleTxsResponseRead` reads
  `Dag.LatestSequencer()`, and `HandleTxsResponseAdd` makes the
  `AddRemoteTxs` call. Handlers run on the peer goroutines, so `DagAppend`,
  the DAG committing the next sequencer, can happen in between.
- A sequencer is its number, and its hash is that number. `MaxTip + 1` is a
  hash the DAG never holds. Transactions are model values, either in the
  pool or confirmed in the DAG.
- `out` is the last output: a message sent to the peer, or a call into the
  tx buffer, the Downloader or the Hub (`SetPeerHead`). Each property is
  about one kind of output, so the last one is enough.
- Serialization is abstracted to `BodySize[n]`, the length of sequencer
  `n`'s marshalled bundle.
- `Found(hashes, keep)` is the loop of `HandleFetchByHashRequest`: the
  hashes of `keep`, in request order, each appended as it is met. It is a
  recursive function over the prefixes of the request, which the prover
  can unfold (the standard `SelectSeq` is opaque to it).
- `BodiesTaken` is the bodies-request loop in closed form: body `i` is taken
  when every hash up to `i` resolves, and before each of them the bytes and
  the count were under their caps.
- `HandleHeaderResponse` and `HandleBodiesResponse` deliver on every call.
  Their conditions `len > 0 || !filter` always hold.
- Responses a peer sends us carry sequencers from `Payload`: one the DAG
  holds and one it never holds. The handlers pass these on without looking
  at them.

### MC modules and configurations

| Run | cfg | Expect | Properties | Bounds |
|---|---|---|---|---|
| syncer_safety_liveness | `MC_CatchupSyncer.cfg` | pass | TypeOK, FlagHeldOnlyByRunningCycle, Convergence, ShutdownDrains | 2 goroutines, heights 0..2, 2 peer changes, thresholds 0/2 as in the code |
| syncer_mutex | `MC_CatchupSyncer_mutex.cfg` | violation | MutualExclusion | the same bounds, with symmetry |
| syncer_cache_admission | `MC_CatchupSyncer_cache.cfg` | violation | CacheRejectsOnlyWhileSyncing | heights 0..7, so that a gap larger than 3 x start threshold exists |
| header_walk | `MC_HeaderQuery_walk.cfg` | pass | TypeOK, ImplementsAbstract | 4-bit numbers, chain 0..4, skips {0,1,2}, amounts {0,1,2,4}, fetch cap 3 below byte cap 4 |
| header_hostile | `MC_HeaderQuery_hostile.cfg` | pass | ResponseCapped | skips {0, 2^W-2, 2^W-1}, amounts up to 2^W-1, byte cap 3 below fetch cap 5 |
| header_nil_deref | `MC_HeaderQuery_panic.cfg` | violation | NoNilDereference | as header_walk |
| header_order | `MC_HeaderQuery_order.cfg` | violation | WalkOrderFollowsReverseFlag | as header_hostile |
| handler_bounds | `MC_MessageHandler.cfg` | pass | TypeOK, BodiesResponseBounded | DAG grows 0..3, body sizes 1,1,2,3, byte limit 3, MaxBlockFetch 2, requests of up to 3 hashes |
| handler_bodies_budget | `MC_MessageHandler_budget.cfg` | violation | BodiesWithinByteBudget | as handler_bounds |
| handler_stale_txs | `MC_MessageHandler_stale.cfg` | violation | StaleTxsNeverBuffered | as handler_bounds |
| handler_txs_hash | `MC_MessageHandler_hash.cfg` | violation | TxsResponseMatchesHash | as handler_bounds |
| gas_frame | `MC_GasTable.cfg` | pass | TypeOK, StepGasSound, MemoryCostTracksSize | 20-bit words, the geth constants and EIP-158 table, two instructions per frame from every gas function, memory sizes on both sides of the scaled bound |

Why these bounds are enough:

- Two goroutines are enough for every interleaving of two cycles. A third
  goroutine only adds more copies of the same races.
- Heights `0..2` let a failed `Synchronise` commit a strict prefix of a gap.
- Two peer changes let the best peer advance during a cycle, and then
  vanish.
- In the header runs, each cap (amount, fetch and bytes) binds in some run.
  The chain is long enough for walks of every skip.
- In the handler runs, requests of 3 hashes with `MaxBlockFetch` 2 make
  the count cap bind. A byte limit of 3 with bodies of up to 3 bytes makes
  the byte cap bind after one or two bodies. A DAG that grows by 3 lets it
  commit during a tx-set response.
- In the gas run, words are 20 bits wide and the code's bound `0xffffffffe0`
  (`2^(64/2+8) - 32`) is placed the same way, `2^(W/2+8) - 32`. The memory
  sizes are 0, 1 and 3 words, `2^(W/2)` words (where the square first
  wraps), the bound and one word past it. The stack words are 0, 33,
  `2^W - 1` and one above `2^W`, so that `BigUint64`, `SafeMul` and
  `SafeAdd` each report an overflow in some step, and the frame's gas is
  either small (so that the gas check halts it) or `2^W - 1`. Two
  instructions per frame are enough for a second expansion to start from
  the first one's `lastGasCost`.

Fairness, used by the liveness properties of `FairSpec`:

- Weak fairness on each goroutine's steps: the Go scheduler runs runnable
  goroutines.
- Weak fairness on `Trigger`: the 6-second timer keeps firing while
  `Enabled`.
- Strong fairness on `SynchroniseOk`: if a cycle keeps retrying against a
  peer, the Downloader eventually succeeds. This is the one assumption about
  a collaborator. Without it no sync could ever converge.

## 3. Findings

1. **Two cycles at once** (`catchup_syncer.go:193`). `isSyncing()` and
   `setSyncFlag()` each take `c.mu` separately. Two goroutines can both see
   the flag clear. TLC finds the 8-step trace in the `syncer_mutex` run.
   While the two cycles overlap, one of them can publish Stopped while the
   other is still inside `Synchronise`.
2. **Started after a failure** (`catchup_syncer.go:220`). A failed cycle
   returns without publishing Stopped, and `currentBestHeight` keeps the
   failed target. `CacheNewTxEnabled` then keeps rejecting new transactions
   with no cycle running, until some later cycle succeeds. A non-bootstrap
   node with no peers also flips to Started on every tick.
3. **Nil dereference at genesis** (`message_handler.go:118-119`). A hash-mode
   reverse query whose walk reaches number 0 computes `0-(skip+1)` in
   uint64, and `GetSequencerById` returns nil. `seq.GetTxHash()` then
   dereferences it. The advance runs after the last append, so a reverse
   query for the genesis hash with amount 1 is enough. This assumes that
   `GetTxHash` reads a field of its receiver, as the types package's methods
   do.
4. **Wrapping skip in number mode** (`message_handler.go:147-155`). With
   `skip = 2^64-1` the step is 0, and the response repeats one header. With
   `skip = 2^64-2` a forward walk goes backwards. The overflow check exists
   only for hash-mode forward walks.

5. **Bodies past the byte budget** (`message_handler.go:257`).
   `HandleBodiesRequest` checks `bytes >= softResponseLimit` before it
   appends a body, never after. So a response can carry one body beyond the
   budget: two 2-byte bodies against a limit of 3. The spec says body
   results never exceed the byte budget. The bound that does hold is
   `BodiesResponseBounded`: less than the limit plus one body.
   `HandleHeaderRequest` has the same check-before-append at line 88, so a
   header response also overshoots the budget by up to one header (3
   headers of 2 bytes against a limit of 5 in `header_hostile`).
   `ResponseCapped` states the bound that holds for headers: fewer bytes
   than the limit plus one header. `ByteCap` is the count that bound
   allows, `ceil(limit / size)`.
6. **Stale tx-set batch** (`message_handler.go:177`). `HandleTxsResponse`
   compares with `LatestSequencer()` and then calls `AddRemoteTxs`, without
   a lock. If the DAG commits that height in between, a batch at or below
   the tip reaches the tx buffer. The spec says this must never happen. The
   source marks the check `//todo need more condition`.
7. **Id 0 ignores the hash** (`message_handler.go:191`). `HandleTxsRequest`
   uses the hash only when `Id != 0`. A request for id 0 with any hash is
   answered with the genesis. The spec says a request that gives both is
   resolved by both.

A remark without a run: `memoryGasCost` (`gas_table.go:41-49`) admits
sizes up to `0xffffffffe0`, and its comment says nothing below that
overflows, but the square of the word count wraps above `2^32 - 1` words.
At width 20 with the bound placed the same way, TLC charged a 1024-word
expansion 3072 gas instead of 5120. Reaching that size needs more than
`3 * 2^32` gas for the linear part of the fee alone, beyond any gas limit,
so it is listed as a hazard and not as a finding.

## 4. Proofs

### `CatchupSyncerProofs.tla`

- `TypeCorrect == Spec => []TypeOK`. The proof has one step per action. It
  uses only `ConstantsAssumption`: the heights bound and the thresholds are
  naturals, and `NoPeer` is not a number.
- `FlagInvariant == Spec => []FlagHeldOnlyByRunningCycle`. The invariant is
  inductive given `TypeOK`, so no strengthening is needed:
  - only `SetSyncFlag` raises the flag, and it puts its own goroutine into
    the cycle;
  - the other cycle steps keep their goroutine inside the cycle;
  - only `UnsetSyncFlag` takes a goroutine out of the cycle, and it clears
    the flag.

  The theorem holds for any number of goroutines, so it covers the racy
  case of finding 1.

### `HeaderQueryProofs.tla`

For every word width `W`, chain length `Tip`, `MaxHeaderFetch`, soft limit
and header size (`HeaderQueryAssumption`: positive limits, `Tip + 1 < 2^W`,
and amounts and skips below `2^W`), and whatever query a peer sends:

- `ResponseCappedTheorem == Spec => []ResponseCapped`: at most amount and
  `MaxHeaderFetch` headers, and an estimated size below the soft limit
  plus one header;
- `TypeCorrect == Spec => []TypeOK`.

Both follow from `IInvInvariant == Spec => []IInv`. `ResponseCapped` alone
is not inductive, because the loop condition reads `query.amount` and
`bytes`, not the response. `IInv` adds that the loop never changes the
amount, and that `bytes` is `EstHeaderSize` per header. TLC checked `IInv`
as an invariant of the walk and hostile instances before it was proved.
The lemmas are:

- `AdvanceType`: each of the four branches of the advance keeps the query
  in the request's domain with the same amount. This is where the uint64
  wrap of `number - (skip+1)` and `number + (skip+1)` is handled.
- `OriginInChain`: each Dag lookup returns `Nil` or a number of the chain.
- `ByteCapStep`: an append made while `bytes < SoftResponseLimit` leaves at
  most `ByteCap` headers. `ByteCapBytes`: `ByteCap` headers are fewer
  bytes than the limit plus one header.
- `LoopConditionBounds`: an iteration runs below every cap. `int(amount)`
  is never above `amount`, so a negative `int` stops the loop at once.

### `HeaderQueryRefinement.tla`

`RefinementTheorem == ASSUME NoWrap PROVE Spec => ImplementsAbstract`: the
loop of `HandleHeaderRequest` implements `HeaderQueryAbstract`, whose one
step answers a request with the reference walk `RefHeaders`. The
refinement mapping sends `request` to `input`, and `response` to `headers`
once `phase = "sent"` and to `NoResponse` before. The theorem holds for
every word width, chain length and cap.

The hypothesis `NoWrap` says that the walk's numbers stay below `2^W`
(`Tip + skip + 1 < 2^W`) and that `int(amount)` is `amount`
(`amount < 2^(W-1)`). It is not vacuous: the walk instance satisfies it.
It is needed. With a hostile skip, `header_order` shows a response that
leaves the walk's order, and `RefHeaders` never does that.

The proof rests on `RInvInvariant == ASSUME NoWrap PROVE Spec => []RInv`.
`RInv` strengthens `IInv` of `HeaderQueryProofs` with four facts:

- `WalkPrefix`: the headers so far are the first ones of the walk;
- the response is never longer than `RefCount(input)`, and equals it once
  sent;
- an unknown header is met only when the walk is exhausted;
- `NextOk`: while the loop runs, `query` names the next header of the
  walk. Before the first hash lookup it is the request itself.

`ImplementsAbstract` alone is not inductive. The send step must know that
the loop stopped exactly at `RefCount`, and each iteration must know where
the query points. TLC checked `RInv` as an invariant of the walk instance
and of a larger one (W=5, Tip=6, skips 0..3) before the proof.

The lemmas are:

- `StepsFit` and `WalkAt`: the closed form of the walk. The k-th header
  is in the chain exactly when k is below `RefAvail`.
- `ByteCapExact`, `CountIsLeast` and `CountIsGreatest`: `RefCount` is the
  least of the four caps. The loop stops exactly there.
- `ModSmall`: uint64 addition and subtraction of a step do not wrap under
  `NoWrap`.
- `OriginIsNext`: the header an iteration resolves is the next one of the
  walk, on each of the three lookup paths.
- `AdvanceNext`: each of the four branches of the advance either points
  the query at the following header or ends the walk exactly where
  `RefAvail` says.

### `NatFacts.tla` and `MessageHandlerProofs.tla`

`NatFacts` proves `NatMin`: every nonempty set of naturals has a least
element. It is derived from `WFMin` and `NatLessThanWellFounded` of
`WellFoundedInduction`. The provers cannot instantiate the library's
induction theorems, because they take an operator parameter. So every fact
below that needs induction is proved from its least counterexample instead.

For every DAG height, body-size function, limit, cap and `MaxReq`
(`MessageHandlerAssumption`), and every message a peer sends:

- `TypeCorrect == Spec => []TypeOK`;
- `BodiesBoundedTheorem == Spec => []BodiesResponseBounded`: every bodies
  response holds at most `MaxBlockFetch` bodies and fewer than
  `SoftResponseLimit + MaxBodySize` bytes.

Both follow from `IInvInvariant == Spec => []IInv`, with
`IInv == TypeOK /\ BodiesResponseBounded`. The bound needs the type: a
bundled hash must name a sequencer of the DAG (`tip \in 0..MaxTip`) for
its body size to be known. `IInv` is the conjunction of the two invariants
that `handler_bounds` checks, so TLC checked it before the proof.
`IInvStep` has one case per disjunct of `Next`, and in each case one step
per conjunct the action writes. The lemmas are:

- `SzExists`, `SzAgree` and `SzNat`: the LET-recursive function of
  `BytesBefore` exists for every prefix. Two prefixes agree where they
  overlap. Over resolved hashes its values are naturals.
- `BytesDef` and `BytesStep`: `BytesBefore(req, 1) = 0`, and each bundled
  body adds its size. This is the loop's `bytes += len(bodyData)`.
- `TakenFacts` and `TakenPrefix`: the bundled hashes are a prefix `1..m` of
  the request, and each of them passed all three loop checks. With
  `FS_Interval`, this gives `Cardinality(BodiesTaken(req)) = m`.
- `TakenInDag`: a bundled hash names a sequencer of the DAG.
- `MaxBodySizeFacts`: the `CHOOSE` of `MaxBodySize` succeeds and bounds
  every body.
- `FoundExists` and `FoundType`: the loop of `HandleFetchByHashRequest`
  yields a sequence of the kept hashes, by least counterexample over the
  prefixes of the request. `SeqSubset` carries it to the message types.
- `FetchRequestStep` and `BodiesRequestStep`: the two responses built by a
  loop keep `IInv`.

The last body is appended while the byte count is still below the limit.
So the bytes end below the limit plus one body.

### `GasTableProofs.tla`

For every word width `W`, memory bound, start gas, params constants and
gas table (`GasTableAssumption`: `W > 0`, naturals below `2^W`, word
aligned memory sizes, a positive `QuadCoeffDiv`):

- `TypeCorrect == Spec => []TypeOK`: `contract.Gas`, the memory size and
  `mem.lastGasCost` stay within uint64. Gas never wraps below zero.
- `MemoryCostTheorem == Spec => []MemoryCostTracksSize`: while the frame
  runs, `mem.lastGasCost` is the fee of the memory it has.

Both follow from `IInvInvariant` with `IInv == TypeOK /\
MemoryCostTracksSize`, the two invariants `gas_frame` checks. Neither holds
alone: the interpreter deducts a result's gas only when the frame has it,
which needs the gas to be a result of `SafeSum` (a value below `2^W`), and
a result's new `lastGasCost` is the fee of the new size only because the
old one was the fee of the old size (`memoryGasCost` returns it unchanged
when the memory does not grow).

The argument is one lemma per layer:

- `Pow2Rec`, `Pow2Facts` and `UFacts`: `U` is at least 2, and is a multiple
  of 32 from `W = 5` up (below that, every memory size is 0).
- `AccExists`, `AccProps` and `SafeSumFacts`: the chain of `SafeAdd` calls
  returns a value below `U` and reports an overflow of any of its terms.
- `AlignedWords` and `MemFee`: for a word-aligned size, `ToWordSize` is
  exact, so `memoryGasCost` either fails or returns, as the new
  `lastGasCost`, the fee of the larger of the new and the current size.
- `GoodResult(r, ms)`: what the interpreter needs of a result. `CopyGood`,
  `MemGasGood`, `LogGood`, `CallGood`, `ConstGood`, `ExpGood`,
  `SStoreGood` and `SuicideGood` show it for each shape of gas function;
  `GasFunctionsGood` for every instruction of `Next`. In `makeGasLog` an
  overflowing size fails the sum at its first term (`ErrResultGood`),
  before the memory fee is taken.
- `StepKeeps`: `Step` keeps `IInv` for a good result: it halts, or deducts
  gas the frame has and resizes to the size the fee was paid for.

What stays with TLC alone:

- The liveness properties (`Convergence`, `ShutdownDrains`). TLAPS does not
  handle fairness or ENABLED.
- `StepGasSound`: every successful gas function returns the exact sum of
  its costs. It holds only for the concrete go-ethereum constants, because
  the code leaves some additions and products unchecked (the call base
  costs, the log topics, the exponent bytes). It is false for arbitrary
  `P` and `Gt`, so no theorem over all constants states it. `gas_frame`
  checks it at width 20 with the scaled constants.
- What the recursive operators of the model compute for every input (the
  walk's closed form aside). Induction over data needs the library's
  induction theorems, which the provers cannot instantiate.

## 5. Plan for the next sittings

1. **HeaderQuery with a concurrent DAG writer**: the reorg check of the
   forward hash-mode walk (`message_handler.go:134`) against commits during
   the scan. `MessageHandler.tla` already models the other handlers.
2. **SyncProtocol.tla**: composes `CatchupSyncer`'s `Synchronise` with peers
   that answer through the handler's header and body requests. Requests and
   responses travel on a channel that can lose or duplicate messages.
3. **Abstract syncer**: `AbstractSyncer.tla`, with a single atomic
   "catch up" step. A fixed `CatchupSyncer` (an atomic test-and-set) would
   be shown to refine it, with a record of why the code as written does
   not.
4. **Listener channels** in `CatchupSyncer`: the deadlock hazard at
   `catchup_syncer.go:277`.
5. **Gas table**: the interpreter's use of `callGas` and the memory
   expansion of the copy instructions in one module with the stack.

## 6. Not modelled

- The auto client: a test-traffic generator, outside the spec's scope.
- The RPC status endpoint: read and format only.
- The msgp codec: generated code.
- Genesis: a one-shot construction.
- The Downloader's pipeline and the transport: not in `src/`, and outside
  the spec's scope.
- Logging in every module.
