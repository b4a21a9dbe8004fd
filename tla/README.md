# A verification of the Solana DEX demo

This directory holds TLA+ specifications of the constant-product exchange in
this repository, the TLC configurations that check them on small instances, and
TLAPS proofs of the facts that matter most for every size. Paths are relative
to the repository; `src/processor.rs` is the native program's file.

## 1. Inventory

| Component | State it keeps | Operations | Talks to |
|---|---|---|---|
| AMM arithmetic, `src/math.rs` | none | `swap_output`, `calculate_lp_tokens`, `calculate_removal_amounts`, `integer_sqrt` | called by both programs (the Anchor copy is the same code) |
| Native program, `src/{lib,processor,state,error}.rs` | one `Pool` account: initialised flag, five addresses, two cached reserves, `lp_supply`, fee, bump | `InitializePool`, `AddLiquidity`, `RemoveLiquidity`, `Swap`, `GetPoolInfo` | the SPL Token program, by cross-program calls after its own checks and before it updates its state |
| SPL Token program (external) | balances of token accounts, supply of mints | transfer, mint, burn | called by the programs for users and for the pool's vaults, and by users directly |
| Anchor program, `anchor_dex/programs/anchor_dex/src` | the same pool, without the flag | the same five instructions over Token-2022 | the Token-2022 program |
| Example client, `examples/client.rs` | local variables of one session | airdrop, create mints, accounts and pool, then init, add, info, swap, info, remove, info | the cluster over RPC |
| Solana runtime and RPC (external) | the ledger's accounts, their locks, transactions on their way | load and lock accounts, run, write back or discard; deliver a transaction and its outcome | runs both programs for the client |
| Tests, migration, build files | none | - | - |

What is hard about it:

- **Two sets of books.** The pool caches reserves and `lp_supply` that the token
  program keeps too. Three handlers update the cache separately from the
  transfers, and users can change the token program's books without the pool.
- **Rounding.** Every formula divides integers. Whether the unit lost goes to
  the pool or to the user depends on the formula; a unit given away can be taken
  again and again, and one user's gain is a loss of every holder of shares.
- **Widths.** `u64` amounts, `u128` intermediates, checked operations that turn
  an overflow into an error, and in `integer_sqrt` unchecked ones.
- **Interleaving.** Instructions of different users arrive in any order, and run
  at the same time where their account lists allow. A handler deserialises the
  pool, calls the token program two or three times, and then serialises its early
  copy: whether that copy can be stale by then depends on the lists.
- **Failure after effects.** Checked arithmetic, and further calls that may fail,
  follow the first transfer.
- **A parser as a guard.** The double-init guard only sees accounts that parse.
- **A loop on chain.** `integer_sqrt` must stop, and soon.
- **Figures for people.** Prices and values per share are computed in `u64`
  without widening, and an overflow is shown as 0, as a word or as a large number.
- **An unreliable cluster.** The client is told that a transaction failed when it
  was dropped, was refused, or is only late; what it then sends next decides
  whether the ledger ends in a state its script never meant.

What makes each part correct: the arithmetic never pays for splitting, reversing
or undoing an operation, and the square root is exact, safe and short. The pool's
books agree with the token program's as far as users let them; every share can
be redeemed at any time and is never worth less than before; a pool is set up
once; no instruction fails after its transfers. The Anchor program keeps the same
promises, and what its vaults lack can only have been withheld by the token
program. Transactions that run call by call have the effect of whole instructions
one after the other. A figure reported about a pool says what the program pays. The
client's script takes effect in order, however late, and its session ends unless it
polls for its airdrop for ever.

The hazards, each at its line with the properties that cover it, are in
`PROJECT.json`.

## 2. Modules

| Module | Models | Notes |
|---|---|---|
| `Words` | `u64`, `u128`, `Option`, `try_from` | the width `MaxU64` is a parameter |
| `AmmMath` | `src/math.rs` as operators | a checked operation that fails gives `None` |
| `NewtonSqrt` | the loop of `integer_sqrt` | one step per loop test; `AmmMath!IntegerSqrt` is what it returns (theorem) |
| `Quotes`, `MCQuotes` | what a user sees over several calls | swap at once, in two parts, and back; deposit and withdraw |
| `FairPool` | nothing: the abstract promise | deposits, withdrawals and trades that leave no share worth less |
| `EarlyReturns` | how a handler's early returns decide its outcome | used by both programs |
| `DexPool`, `MCDexPool` | native program composed with the token program | one action per instruction; implements `FairPool` |
| `DexTransaction`, `MCDexTransaction` | a native instruction as the runtime executes it, call by call, beside others | implements `DexPool` |
| `PoolInfo` | the figures `GetPoolInfo` logs and those the client and the Anchor program compute | extends `DexPool`; checked with it in `MCDexPool` |
| `AnchorDex`, `MCAnchorDex` | Anchor program composed with a token program that may withhold transfer fees | its books implement `FairPool` |
| `ClientSession` | the example client, the native program and the cluster between them | takes the effect of each transaction from `DexPool` |
| `AmmMathProofs`, `NewtonSqrtProofs`, `QuotesProofs`, `FairPoolProofs`, `DexPoolProofs` (with `PoolInfo`), `DexTransactionProofs`, `AnchorDexProofs`, `ClientSessionProofs` | - | proofs |

The refinements go from the transaction down to the promise: `DexTransaction`
implements `DexPool`, `DexPool` implements `FairPool`, and so does `AnchorDex`. The
proofs go the other way: those of a module instantiate those of the module it
implements or takes its steps from (`Fair`, `Proved`), and get its theorems for
their own state.

**DexPool.** The variables are the fields of `struct Pool` that any instruction
reads again (`is_initialized`, the two reserves, `lp_supply`, the fee), the size
of the account's data, the token program's balances and supplies, and what the
last instruction returned. An instruction is one action with two outcomes. Its
early returns are a table, in the order of the code, of the condition tested and
the error returned, with the token program's refusals at the place of the calls
and the checked updates last: if some row holds, the first one gives the error
and nothing else changes; if none does, all effects happen together. This is the
runtime's rule, which `DexTransaction` starts from: an instruction that returns an
error leaves no trace, the token transfers it made included. `Parses` is
`Pool::try_from_slice`, which demands exactly `POOL_SIZE` bytes. `DirectTransfer`
and `DirectBurn` are users' own calls to the token program.

Callers pass the accounts that the instruction's documentation lists. Which
account is which, who signs, and that the three mints differ is taken for
granted; the properties are about amounts and about the order of instructions. The
code does not enforce all of it: the handlers of the native program, and `swap` of
the Anchor program, never compare the vaults and the mint they are given with the
addresses recorded in the pool (`DexError::InvalidPoolAccounts`, `error.rs:21`, is
never returned). What is said below of vaults and of redeeming shares therefore
holds for callers who pass the recorded accounts.

**DexTransaction.** `chain` maps the accounts of the ledger (pool, mints, token
accounts) to their data, and `tx` maps each user to the transaction he has
running. `Begin` takes the accounts on an instruction's list, those it writes and
those it reads, and loads copies of them, unless a running transaction's list
conflicts. `RunChecks` deserialises the pool and makes the checks that precede the
first call; `Invoke` makes one call to the token program on the copies, or fails;
`Finish` updates the pool as it was deserialised at the start, serialises it, and
writes all writable copies back, unless a checked operation of the update
overflows. A failure anywhere discards the copies. `Writes` and `Reads` are the
account lists documented for the instructions. A user has one transaction at a
time, as both would write the account that pays their fee. The refinement maps
`DexPool`'s variables to the ledger's accounts, so that a transaction takes effect
when it is written back and all its other steps are stutters.

**PoolInfo.** Operators only: price, value per LP token and `k` as
`process_get_pool_info` logs them (a failed `checked_mul` is logged as `overflow`
for the price and `k`, and as 0 for the value per LP token) and as
`print_pool_info_local` and the Anchor `get_pool_info` compute them
(`saturating_mul`). The factor 1,000,000 is the constant `Scale`.

**ClientSession.** `Script` is `main` of `examples/client.rs` as a sequence of
steps: the setup transactions, the four operations, and after each operation a
local read of the pool account and a `GetPoolInfo` query. `at` is the step the
client is at, `fate` what really became of each transaction (sent, done, failed,
dropped) and `told` what the client was told. A transaction that was sent may take
effect at any time, or never. `send_and_confirm_transaction` returns Ok only for a
transaction that took effect, and may return an error whatever happened to it,
because answers get lost and blockhashes expire. The error branches are those of
the code: `unwrap` in the setup, `return` after the first three operations, a
message after `RemoveLiquidity` and after the queries. Nobody else uses the
cluster, and what is confirmed is not rolled back.

**AnchorDex.** The same handlers, written again for Anchor. The differences are in
the module: the account constraint `init` creates the pool, the vaults and the LP
mint (`created`), the other instructions' constraints want the pool to exist
before anything else is tested, and a transfer may deliver less than was sent.
`transfer_fee` is the rate of each mint, chosen at the start and then fixed, zero
for plain mints. `withheld` adds up what transfers to a vault lost on arrival; it
says how much a vault is short of, whoever has collected it since. In the same way
`burned_directly` adds up the LP tokens that holders burned without the program.
Both are history variables: no guard reads them.

**Mutants.** Definitions marked `mutant` are not part of any specification. Each
is a wrong version of the definition that follows it, of the kind a slip in the
code would produce; `PROJECT.json` pairs each with a property that TLC finds
violated when the wrong version takes the right one's place.

## 3. What TLC checks

| Run | Question | Bounds |
|---|---|---|
| `newton` | does `integer_sqrt` return the root, safely, quickly, always? | all products of two 5-bit amounts |
| `quotes` | does the user ever gain by splitting, reversing or undoing? | reserves to 7, amounts to 5, no fee, 1/4 and 3/10 |
| `pool` | do the books agree, exactly, while only the program is used, and are the reports about them right? | 2 users with 4 of each token, fee 1/4, account sizes 201 and 202, figures scaled by 3 |
| `pool_direct` | what remains when users also call the token program? | 2 users with 3 of each token, no fee, 3-bit `u64`, direct transfers of A and burns of LP |
| `transactions` | do concurrent transactions, call by call, amount to whole instructions? | 2 users with 2 of each token, who also burn LP tokens themselves; no fee, and one that is refused; account sizes 201 and 202; 3-bit `u64` |
| `anchor` | what remains of the pool's promises with transfer fees? | 2 users with 3 of each token, token A without a transfer fee or with one of 25%, amounts 1 and 2, direct transfers of A and burns of LP, 3-bit `u64` |
| `session` | does the client's script take effect in order, and end? | one user, the amounts of the demo scaled down (mint 60, deposit 20, swap 2, burn 10, fee 1/10), 6-bit `u64` |
| `quotes_wide`, `pool_large_account`, `anchor_minimum`, `session_success`, `report_overflow` | disagreements between code and comments, below | |

Why these bounds are enough to be interesting: with 3 or 4 tokens each, deposits
are out of proportion, shares are split between users, quotients are rounded in
every formula, pools are emptied and filled again, and swaps return zero. The
widths are just large enough for all tokens, so the limits of `u64` are within
reach of the token program and of `to_u64`. `pool_direct` runs without a fee
because a fee only adds slack to `FairPool`'s conditions; the exact case is the
hard one. In `transactions` two users are enough for every pair of instructions to
meet, and account lists conflict in pairs; with 2 of each token, transactions fail
at their first call and at later ones. With `Scale` 3 some reserves overflow when
scaled and others do not. The session's amounts are such that every operation
yields something. The rest of the argument, for all sizes, is in the proofs.

Deadlock checking is off where a run ends by itself: the Newton loop, the
sessions of `Quotes` and the client's. The pool always answers the next
instruction, and a running transaction can always take its next step.

### Properties

- `ReturnsSqrt`, `LoopIsSafe`, `LoopIsShort`, `Terminates`: see `NewtonSqrt`.
  `Terminates` assumes weak fairness of the loop's steps: a running program takes
  its next step.
- `SplitNeverPaysMore`, `SwapBackNeverProfits`, `ReservesNeverDrained`,
  `DepositNeverProfits`: see `Quotes`.
- `ReservesMatchVaults`, `LpSupplyMatchesMint`: the two sets of books are equal,
  while users leave the token program alone (`state.rs:30`, "must equal vault
  balance", and `state.rs:34`, "Total LP token supply outstanding").
- `ReservesBacked`, `SharesBacked`: what is left of that under direct calls. A
  transfer to a vault leaves the vault above the reserve, and a holder who burns
  LP tokens leaves `lp_supply` above the mint; never the other way round.
- `InitializedOnce`: after `InitializePool` the fee never changes, and shares and
  reserves leave the books only when they leave the token accounts.
- `Redeemable`: every holder can withdraw any part of his shares, now, and gets
  something for it.
- `NoLateOverflow`: the arithmetic after the transfers never fails.
- `ImplementsFairPool`: each step of the program is a step of `FairPool`;
  `EmptyTogether`, `SharesBoundedByReserves` and `NoDilution` are its promises.
- `PerLpBoundsRemoval`: who burns `n` LP tokens gets at least `n` times the figure
  reported per LP token, in both tokens, for the logged and the printed figure; and,
  if the reserve times the scale fits in `u64`, less than `n` times the next larger
  figure. `LogShowsRedeemable` leaves that condition out, as the code's comment does.
  `PriceBoundsSwaps`: no swap in either direction beats the price, logged or printed; a
  printed price that saturated bounds only the swaps that pay in B. `ReportedValueNeverFalls`: a reader of the
  logs never sees a loss of value that did not happen.
- `ReadsAreCurrent`: while a transaction makes its calls, the pool it deserialised
  is the pool the ledger has. `CallsDecide`: once all calls to the token program
  have succeeded, the transaction's own update does not fail. `Conserved`: the
  token accounts of a mint add up to its supply, also after a transaction that
  failed half way.
  `ImplementsDexPool`: every transaction ends as one instruction of `DexPool` on
  the ledger it finds, in some order, or leaves the ledger alone.
- `ShortfallIsWithheld`: the Anchor program counts no token that was not sent to
  the vault. `RedeemableUnlessWithheld`: `Redeemable`, but for the transfer out of
  a vault that had fees withheld. Without transfer fees the two say that vaults
  cover reserves and shares are redeemable. `MissingSharesAreBurned`: the pool counts
  the LP tokens that exist and those their holders burned without it, no others.
- `InOrder`: a transaction of the script takes effect only when those before it
  have, queries and `RemoveLiquidity` aside, however late the cluster executes it.
  `ReportsShowOperation`: "Pool Info after" an operation shows the pool right after
  that operation, or nothing. `SessionEnds`: a session ends, unless from some point on
  it only polls for its airdrop. The loop at `client.rs:257` has no limit and treats
  an error of `confirm_transaction` like the answer false, so it may go on for ever
  with an airdrop that was lost and with one that was confirmed. The property
  therefore assumes no fairness of `PollAirdrop`, only of `CallReturns`: that the client
  keeps running and each other call returns at some time, with whatever answer. Of
  the library and the cluster this assumes that a request times out, and that
  `send_and_confirm_transaction` gives up once the blockhash has expired, which
  takes an RPC node that goes on counting blocks. Whether a transaction is ever
  executed, and whether its outcome is ever reported, is left open.

### Disagreements found

1. `src/processor.rs:96` "Guard against double-init": in an account larger than
   `POOL_SIZE`, which line 92 accepts, the guard's parser fails and the guard is
   skipped. Run `pool_large_account` shows two successful `InitializePool`s.
2. `src/math.rs:25` "Use u128 to avoid overflow during intermediate
   calculations": a product of three `u64` values can leave `u128`. Run
   `quotes_wide` shows a swap refused that has an answer.
3. `anchor_dex/programs/anchor_dex/src/state.rs:22` "must equal vault balance",
   and `anchor_dex/README.md:10`, full support of Token-2022: not for a mint with
   a transfer fee, since the amount sent is credited. The reserve exceeds the vault
   from the first deposit on, and the last withdrawals fail; `ShortfallIsWithheld` and
   `RedeemableUnlessWithheld` (run `anchor`) are what remains of the promise. No run
   of its own shows this one: it has the cause of the next.
4. `anchor_dex/README.md:13`, minimum amounts protect a trade: a swap into a token
   with a transfer fee delivers less than `min_amount_out` (run `anchor_minimum`).
5. `examples/client.rs:527` "DEX Demo Client execution completed successfully!":
   also printed when `RemoveLiquidity` failed, whose error branch, unlike those of
   the operations before it, does not return (run `session_success`).
6. `src/processor.rs:475` "units of A and B redeemable for 1 LP token", and
   `README.md:106` the same: when the reserve times 1,000,000 leaves `u64`,
   `GetPoolInfo` logs 0 (lines 486 and 487), whatever a token redeems for. Run
   `report_overflow` shows a pool whose LP token redeems for three units of A while the
   log says 0; the client prints another figure for the same account.

The comments at `src/state.rs:30` and `:34` hold as long as nobody calls the token
program directly on the pool's tokens, which the program can not prevent, and every
caller passes the recorded vaults and LP mint, which the handlers do not compare. The
first is the hypothesis of the theorems `DexPoolReservesMatch` and
`DexPoolSharesMatch`, and the two "backed" properties say what remains without it;
the second is assumed throughout (section 2).

## 4. What is proved

The theorems hold for every width, number of users, endowment, amount and fee.

**Arithmetic** (`AmmMathProofs`). Division rounds down by less
than one; inequalities survive products of naturals and cancelling a positive
factor; a nonempty set of naturals has a least element. From these: an integer square root
exists, and is unique; the first deposit's shares squared are at most
the product of the deposit (`FirstLpTokens`); a later deposit and a removal leave
no share worth less (`LaterLpTokens`, `RemovalIsFair`); a swap does not lower the
product of the reserves and never empties one (`SwapIsFair`).

**The Newton loop** (`NewtonSqrtProofs`). `IInv` of `NewtonSqrt` is inductive: the
iterate never drops below the root, the next iterate is always Newton's step of
the current one, and the number of rounds is bounded by how far the iterate has
shrunk. From it `NewtonComputesSqrt`, `NewtonIsSafe`, `NewtonIsShort` and
`NewtonTypeOK`.

**The sessions** (`QuotesProofs`). A swap is looked at through what it leaves in the
reserve: that is a quotient rounded up, which composes where the amount paid out
does not. `TwoSwaps` says that two swaps in a row leave at least as much as one
of their sum, for every fee below one: the fee of the first part stays in the pool
the second part meets. `IInv` keeps, beside the types, the reserves the session
started from (`Untouched`) and how the answers so far relate to them; each of its
parts is about one stage of the session. From it `QuotesSplit`, `QuotesSwapBack`,
`QuotesNeverDrained`, `QuotesDeposit` and `QuotesTypeOK`.

**The abstract pool** (`FairPoolProofs`). `FairPoolInvariant`: types,
`EmptyTogether` and `SharesBoundedByReserves`, the last because no step lowers the
value of a share (`StepKeepsValue`), which is also `FairPoolNoDilution`.

**The native program** (`DexPoolProofs`). The one hypothesis, besides the
assumptions on the constants, is `DocumentedSizes`: the pool account is no larger
than `POOL_SIZE`, as `lib.rs` says it is allocated. Without it the theorems are
false (run `pool_large_account`). The inductive invariant `IInv` joins

- `AmountsOK`: every amount is a `u64`;
- `SetUp`: a pool that is set up has a fee below one, and one that is not has
  neither reserves nor shares. `SwapIsFair` needs the first, and `InitializePool`,
  which zeroes the books, is a step of `FairPool` only by the second;
- `ReservesBacked` and `SharesBacked`;
- the invariant of `FairPool`, for the reserves and shares of this pool.

`KeepsInv` says that a step keeps all this and is a step of `FairPool` or a
stutter; there is one lemma per instruction for it, and in each the checks an
accepted instruction passed (`AddAccepted`, ...) bound the amounts, the lemma of
`AmmMathProofs` for its formula gives the step of `FairPool`, and the last part
of the invariant then follows from `FairPoolProofs`. From `DexPoolInvariant`:
`DexPoolReservesBacked`, `DexPoolSharesBacked`, `DexPoolEmptyTogether`,
`DexPoolSharesBounded`, `DexPoolTypeOK`, `DexPoolImplementsFairPool` and
`DexPoolNoDilution`.

The other theorems of the program:

- `DexPoolInitializedOnce` follows from `IInv` alone: `SetUp` and the size of the
  account make the guard of `InitializePool` sound.
- `DexPoolReservesMatch` and `DexPoolSharesMatch` each add one conjunct to the
  invariant and one hypothesis: no direct transfers of the pool's tokens, no direct
  burns of LP tokens.
- `DexPoolConserves`: the balances of a mint add up to its supply. The sum over all
  accounts is stated without recursion: `SumsTo(row, n, total)` says that some
  function of partial sums starts at 0, adds one account at a time and ends at
  `total`. Each token operation then changes such a function by a constant from
  one account on. No balance can exceed the sum, hence none exceeds the supply.
- `DexPoolRedeemable` uses that: what a withdrawal adds to a balance stays within
  the mint's supply, which is a `u64`, so the token program can not refuse it.
- `DexPoolNoLateOverflow` follows from `IInv`: where the transfers succeed, the
  vaults' new balances are `u64`s and cover the new reserves, and the new number of
  shares is at most the geometric mean of these.

**Reports** (`DexPoolProofs` too). From the invariant of the native program, and
nothing about `Scale` but that it is a positive `u64`: `ReportsBoundRemoval`,
`PriceIsABound`, `ReportsShowNoLoss`.

**Transactions** (`DexTransactionProofs`). `ReadsAreCurrent` is not inductive: it says
nothing of a transaction that has not deserialised its pool yet, nor of the token
accounts a call works on. `IInv` says of every running transaction that its copies
are the ledger's accounts as they are *now*, after the calls it has made so far
(`HasCalled`: the first `k` calls of its instruction were accepted, the others are
still on its list), and that what it writes is apart from what any other running
transaction has locked. The second part keeps the first: when a transaction ends, the
accounts it writes back are on nobody else's list, so every other one's copies still
agree with the ledger. TLC checked `IInv` on the instance of run `transactions` before
it was proved. From it:

- `DexTransactionTypeOK` and `DexTransactionReadsAreCurrent`;
- `DexTransactionImplementsDexPool`: `Begin` and every step after which the transaction
  goes on are stutters, a failure in `RunChecks`, `Invoke` or `Finish` is a rejected
  instruction of `DexPool`, and a successful `Finish` an accepted one. For each
  instruction the checks passed, the calls accepted and the update are those of
  `DexPool`'s table in that order, so the first thing that fails is the same;
- `DexTransactionKeepsPromises`, under `DocumentedSizes`: with the refinement, what is
  proved of `DexPool` (no dilution, redeemable shares, the steps of `FairPool`) holds
  of the ledger under concurrent transactions;
- `DexTransactionConserves`: `Conserved` adds up the accounts of a mint by a recursive
  function; the partial sums of `DexPoolConserves` are that function, because only
  one function starts and grows as they do (`AddsOnce`);
- `DexTransactionCallsDecide`, under `DocumentedSizes`: from `NoLateOverflow`, for the
  pool the transaction read, which is the ledger's.

**The Anchor program** (`AnchorDexProofs`). `AnchorDexInvariant` has the parts of the
native invariant, with `ShortfallIsWithheld` and `MissingSharesAreBurned` in the
place of the two "backed" properties. Conservation becomes an inequality: what all
accounts hold of a mint, with what was withheld on the way to the vault, is at most
its supply (what other accounts had withheld is the rest). No hypothesis is needed
beyond the assumptions on the constants, since `init` creates an account of the
right size. From it `AnchorDexShortfall`, `AnchorDexShares`,
`AnchorDexImplementsFairPool`, `AnchorDexRedeemable` and `AnchorDexTypeOK`.

**The client** (`ClientSessionProofs`). `InOrder` and `ReportsShowOperation` are about
what the cluster did and what the client printed; what connects them is how far the
client is. `IInv` says, for any amounts and fee:

- `UnsentAhead`, `DoneBehind`, `UnprintedAhead`: what lies ahead of the client has not
  been sent or printed; what main can not do without and lies behind it is done, and
  so is what the client was told is done. So a transaction that takes effect late
  finds everything before it done and, unless main goes on without it, nothing after
  it sent (`SentInOrder`);
- `PoolFollows`: which operations took effect decides the pool, by the arithmetic of
  the program (`AfterAdd`, `AfterSwap`, `AfterRemove`);
- `LogsFollow`: a query that took effect while the next operation is still unsent
  logged the pool right after the operation before it. The condition is needed: a query
  whose answer was lost may execute after the next operation, and then logs another
  pool, but the client no longer prints it;
- the invariant of `DexPool` for the client as its only user, through its own
  instructions (`OperationsAreProved`) and through the setup, whose transactions mint
  to accounts that are still empty.

TLC checked `IInv` on the instance of run `session` before it was proved. From
`ClientSessionInvariant`: `ClientSessionTypeOK`, `ClientSessionInOrder` and
`ClientSessionReports`. They are about `Spec`, without fairness, and so hold of
`FairSpec`, which the run checks, too.

Every invariant and every action property of a passing run is stated by a theorem
above. Out of TLAPS's reach, and left to TLC: liveness under fairness (`Terminates`,
`SessionEnds`). Left to TLC too, as a counterexample needs no proof: the
disagreements above.

## 5. Not modelled, and the plan

What is left: the promises that the Anchor program shares with the native one and that
no run asks of it yet (`NoLateOverflow`, and `PoolInfo`'s for its `get_pool_info`), and the
Anchor instructions run call by call, where Token-2022's fees change what arrives
between two calls.

Not planned:

- address and signer checks: the modules take the accounts an instruction
  documents, and every property is about amounts and order;
- the text of log messages, rent, the serialisation format of the pool beyond its
  size;
- forks and the rollback of confirmed blocks, compute budgets;
- extensions of Token-2022 other than transfer fees, the upper limit and later
  changes of a transfer fee, delegates, freezing and closing of token accounts;
- the TypeScript tests, the empty migration and the build files, which keep no
  state.
