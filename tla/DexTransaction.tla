--------------------------- MODULE DexTransaction ---------------------------
(***************************************************************************)
(* How the native DEX program really runs.  Module DexPool makes every     *)
(* instruction one step on the whole ledger.  Here a transaction takes     *)
(* many: the runtime locks the accounts it lists and loads copies of them, *)
(* the handler deserialises the pool and makes its checks, each call to    *)
(* the token program changes the copies or fails, and only then the        *)
(* handler updates the pool it deserialised at the start and serialises    *)
(* it.  All the copies are written back at the end, or none.               *)
(*                                                                         *)
(* Transactions whose lists of accounts do not conflict run at the same    *)
(* time; two transactions of one user never do, because both write the     *)
(* account that pays their fee.  The module implements DexPool.            *)
(***************************************************************************)
EXTENDS AmmMath, EarlyReturns, Sequences

CONSTANTS                    \* with the meaning they have in DexPool
  NumUsers, Endowment, DataLens, Fees, Amounts, Minimums,
  DirectTransfers, DirectBurns

POOL_SIZE == 202

Tokens == {"A", "B"}
Mints  == Tokens \cup {"LP"}

Nobody   == -1               \* the source of a mint, the destination of a burn
Vault    == 0
Users    == 1..NumUsers
Holders  == Users \cup {Vault}

ASSUME DexTransactionAssumption ==
  /\ NumUsers \in Nat \ {0}
  /\ Endowment \in U64 /\ NumUsers * Endowment <= MaxU64
  /\ DataLens \subseteq Nat
  /\ Fees \subseteq U64 \X U64
  /\ Amounts \subseteq U64 /\ Minimums \subseteq U64
  /\ DirectTransfers \subseteq Mints /\ DirectBurns \subseteq Mints

(* The accounts of the ledger: the pool, the mints, the token accounts.    *)
PoolAccount     == <<"pool">>
Mint(m)         == <<"mint", m>>
TokenAccount(m, holder) == <<m, holder>>

AccountIds ==
  {PoolAccount} \cup {Mint(m) : m \in Mints}
    \cup {TokenAccount(m, holder) : m \in Mints, holder \in Holders}

VARIABLES
  chain,                     \* [account] |-> its data, as the ledger has it
  tx,                        \* [user] |-> the user's running transaction, or Idle
  result                     \* what the last transaction of the program returned

vars == <<chain, tx, result>>

NewPool(len) ==
  [data_len |-> len, is_initialized |-> FALSE, reserve |-> [t \in Tokens |-> 0],
   lp_supply |-> 0, fee_numerator |-> 0, fee_denominator |-> 0]

Idle    == [phase |-> "idle"]
Running == {u \in Users : tx[u] # Idle}

Init ==
  /\ \E len \in DataLens :
       chain = [id \in AccountIds |->
                  IF id = PoolAccount THEN NewPool(len)
                  ELSE IF id \in {Mint(t) : t \in Tokens} THEN NumUsers * Endowment
                  ELSE IF id \in {TokenAccount(t, u) : t \in Tokens, u \in Users}
                       THEN Endowment ELSE 0]
  /\ tx = [u \in Users |-> Idle]
  /\ result = "none"

-----------------------------------------------------------------------------
(* What users submit: the instructions of the program, and those of the    *)
(* token program on their own accounts.                                    *)

Requests(u) ==
  [op : {"InitializePool"}, fee : Fees, derived : BOOLEAN]
    \cup [op : {"AddLiquidity"}, a : Amounts, b : Amounts, min : Minimums]
    \cup [op : {"RemoveLiquidity"}, lp : Amounts, min_a : Minimums, min_b : Minimums]
    \cup [op : {"Swap"}, n : Amounts, min : Minimums, tin : Tokens]
    \cup [op : {"GetPoolInfo"}]
    \cup [op : {"Transfer"}, mint : DirectTransfers \ {"LP"}, to : Holders \ {u}, n : Amounts]
    \cup [op : {"Transfer"}, mint : DirectTransfers \cap {"LP"}, to : Users \ {u}, n : Amounts]
    \cup [op : {"Burn"}, mint : DirectBurns, n : Amounts]

TokenProgramOps == {"Transfer", "Burn"}

(* The account list of each instruction: those it marks writable, and the  *)
(* others it reads.                                                        *)
ShareAccounts(u)   == {Mint("LP"), TokenAccount("LP", u)}
TokensAndVaults(u) == {TokenAccount(t, holder) : t \in Tokens, holder \in {u, Vault}}

Writes(u, r) ==
  CASE r.op = "InitializePool" ->
         {PoolAccount, Mint("LP")} \cup {TokenAccount(t, Vault) : t \in Tokens}
    [] r.op \in {"AddLiquidity", "RemoveLiquidity"} ->
         {PoolAccount} \cup TokensAndVaults(u) \cup ShareAccounts(u)
    [] r.op = "Swap"        -> {PoolAccount} \cup TokensAndVaults(u)
    [] r.op = "GetPoolInfo" -> {}
    [] r.op = "Transfer"    -> {TokenAccount(r.mint, u), TokenAccount(r.mint, r.to)}
    [] r.op = "Burn"        -> {TokenAccount(r.mint, u), Mint(r.mint)}

Reads(r) ==
  CASE r.op = "InitializePool" -> {Mint(t) : t \in Tokens}
    [] r.op = "GetPoolInfo"    -> {PoolAccount}
    [] OTHER -> {}

-----------------------------------------------------------------------------
(* The handlers: the checks before the first call, the calls, the update,  *)
(* in the order of the code.  pool is the copy the handler deserialised;   *)
(* the update is in unbounded integers (see Overflows).                    *)

Call(m, from, to, n) == [mint |-> m, from |-> from, to |-> to, n |-> n]

InitChecks(pool, r) ==
  << Check(r.fee[2] = 0 \/ r.fee[1] >= r.fee[2],     "InvalidFee"),
     Check(~r.derived,                               "InvalidAccountData"),
     Check(pool.data_len < POOL_SIZE,                "AccountDataTooSmall"),
     Check(pool.data_len = POOL_SIZE /\ pool.is_initialized, "AlreadyInitialized") >>

InitUpdate(pool, r) ==
  [NewPool(pool.data_len) EXCEPT !.is_initialized = TRUE,
     !.fee_numerator = r.fee[1], !.fee_denominator = r.fee[2]]

LpTokens(pool, r) ==
  CalculateLpTokens(r.a, r.b, pool.reserve["A"], pool.reserve["B"], pool.lp_supply)

AddChecks(pool, r) ==
  << Check(0 \in {r.a, r.b},          "ZeroAmount"),
     Check(pool.data_len # POOL_SIZE, "BorshIoError"),
     Check(~pool.is_initialized,      "NotInitialized"),
     Check(LpTokens(pool, r) = None,  "Overflow"),
     Check(LpTokens(pool, r) = 0,     "ZeroAmount"),
     Check(LpTokens(pool, r) < r.min, "SlippageExceeded") >>

AddCalls(u, pool, r) ==
  << Call("A", u, Vault, r.a),
     Call("B", u, Vault, r.b),
     Call("LP", Nobody, u, LpTokens(pool, r)) >>

AddReplaces(pool, r) ==                                           \* mutant
  [pool EXCEPT !.reserve["A"] = r.a, !.reserve["B"] = r.b,
               !.lp_supply = LpTokens(pool, r)]
AddUpdate(pool, r) ==
  [pool EXCEPT !.reserve["A"] = @ + r.a, !.reserve["B"] = @ + r.b,
               !.lp_supply = @ + LpTokens(pool, r)]

Removal(pool, r, t) == RemovalAmount(r.lp, pool.reserve[t], pool.lp_supply)

RemoveChecks(pool, r) ==
  << Check(r.lp = 0,                  "ZeroAmount"),
     Check(pool.data_len # POOL_SIZE, "BorshIoError"),
     Check(~pool.is_initialized,      "NotInitialized"),
     Check(\E t \in Tokens : Removal(pool, r, t) = None, "InsufficientLiquidity"),
     Check(Removal(pool, r, "A") < r.min_a \/ Removal(pool, r, "B") < r.min_b,
           "SlippageExceeded") >>

RemoveCalls(u, pool, r) ==
  << Call("LP", u, Nobody, r.lp),
     Call("A", Vault, u, Removal(pool, r, "A")),
     Call("B", Vault, u, Removal(pool, r, "B")) >>

RemoveUpdate(pool, r) ==
  [pool EXCEPT !.reserve = [t \in Tokens |-> @[t] - Removal(pool, r, t)],
               !.lp_supply = @ - r.lp]

Other(t) == IF t = "A" THEN "B" ELSE "A"

AmountOut(pool, r) ==
  SwapOutput(r.n, pool.reserve[r.tin], pool.reserve[Other(r.tin)],
             pool.fee_numerator, pool.fee_denominator)

SwapChecks(pool, r) ==
  << Check(r.n = 0,                   "ZeroAmount"),
     Check(pool.data_len # POOL_SIZE, "BorshIoError"),
     Check(~pool.is_initialized,      "NotInitialized"),
     Check(\E t \in Tokens : pool.reserve[t] = 0, "InsufficientLiquidity"),
     Check(AmountOut(pool, r) = None,  "Overflow"),
     Check(AmountOut(pool, r) = 0,     "ZeroAmount"),
     Check(AmountOut(pool, r) < r.min, "SlippageExceeded") >>

SwapCalls(u, pool, r) ==
  << Call(r.tin, u, Vault, r.n), Call(Other(r.tin), Vault, u, AmountOut(pool, r)) >>

SwapUpdate(pool, r) ==
  [pool EXCEPT !.reserve[r.tin] = @ + r.n,
               !.reserve[Other(r.tin)] = @ - AmountOut(pool, r)]

InfoChecks(pool) == << Check(pool.data_len # POOL_SIZE, "InvalidAccountData"),
                       Check(~pool.is_initialized,      "NotInitialized") >>

EarlyChecks(pool, r) ==
  CASE r.op = "InitializePool"  -> InitChecks(pool, r)
    [] r.op = "AddLiquidity"    -> AddChecks(pool, r)
    [] r.op = "RemoveLiquidity" -> RemoveChecks(pool, r)
    [] r.op = "Swap"            -> SwapChecks(pool, r)
    [] r.op = "GetPoolInfo"     -> InfoChecks(pool)

Calls(u, pool, r) ==
  CASE r.op = "AddLiquidity"    -> AddCalls(u, pool, r)
    [] r.op = "RemoveLiquidity" -> RemoveCalls(u, pool, r)
    [] r.op = "Swap"            -> SwapCalls(u, pool, r)
    [] r.op = "Transfer"        -> << Call(r.mint, u, r.to, r.n) >>
    [] r.op = "Burn"            -> << Call(r.mint, u, Nobody, r.n) >>
    [] OTHER -> << >>

Updated(pool, r) ==
  CASE r.op = "InitializePool"  -> InitUpdate(pool, r)
    [] r.op = "AddLiquidity"    -> AddUpdate(pool, r)
    [] r.op = "RemoveLiquidity" -> RemoveUpdate(pool, r)
    [] r.op = "Swap"            -> SwapUpdate(pool, r)
    [] OTHER -> pool

(* A checked_add or checked_sub of the update returns None.                *)
Overflows(pool) ==
  pool.lp_supply \notin U64 \/ \E t \in Tokens : pool.reserve[t] \notin U64

-----------------------------------------------------------------------------
(* The token program, on the copies of a transaction.                      *)

BalanceUnchecked(call, copies) ==                                 \* mutant
  call.to # Nobody => copies[TokenAccount(call.mint, call.to)] + call.n <= MaxU64
Accepted(call, copies) ==
  /\ call.from # Nobody => copies[TokenAccount(call.mint, call.from)] >= call.n
  /\ call.to # Nobody   => copies[TokenAccount(call.mint, call.to)] + call.n <= MaxU64
  /\ call.from = Nobody => copies[Mint(call.mint)] + call.n <= MaxU64
  /\ call.to = Nobody   => copies[Mint(call.mint)] >= call.n

Executed(call, copies) ==
  [id \in DOMAIN copies |->
     CASE id = TokenAccount(call.mint, call.from)        -> copies[id] - call.n
       [] id = TokenAccount(call.mint, call.to)          -> copies[id] + call.n
       [] id = Mint(call.mint) /\ call.from = Nobody     -> copies[id] + call.n
       [] id = Mint(call.mint) /\ call.to = Nobody       -> copies[id] - call.n
       [] OTHER -> copies[id]]

-----------------------------------------------------------------------------
(* The life of a transaction.                                              *)

OnlyWritesConflict(u, r, v) ==                                    \* mutant
  Writes(u, r) \cap Writes(v, tx[v].req) # {}
OnlyPoolsConflict(u, r, v) ==                                     \* mutant
  PoolAccount \in Writes(u, r) \cap (Writes(v, tx[v].req) \cup Reads(tx[v].req))
Conflict(u, r, v) ==
  \/ Writes(u, r) \cap (Writes(v, tx[v].req) \cup Reads(tx[v].req)) # {}
  \/ Reads(r) \cap Writes(v, tx[v].req) # {}

(* The runtime locks and loads every account on the list at once.          *)
Begin(u, r) ==
  /\ tx[u] = Idle
  /\ \A v \in Running : ~Conflict(u, r, v)
  /\ tx' = [tx EXCEPT ![u] =
              [phase |-> "loaded", req |-> r, calls |-> << >>,
               copies |-> [id \in Writes(u, r) \cup Reads(r) |-> chain[id]],
               pool |-> NewPool(0)]]
  /\ UNCHANGED <<chain, result>>

Returns(u, outcome) ==
  /\ tx' = [tx EXCEPT ![u] = Idle]
  /\ result' = IF tx[u].req.op \in TokenProgramOps THEN result ELSE outcome

Abort(u, error) == Returns(u, error) /\ UNCHANGED chain

(* The handler deserialises the pool, checks, and computes the amounts.    *)
RunChecks(u) ==
  LET r      == tx[u].req
      pool   == IF r.op \in TokenProgramOps THEN tx[u].pool ELSE tx[u].copies[PoolAccount]
      checks == IF r.op \in TokenProgramOps THEN << >> ELSE EarlyChecks(pool, r)
  IN  /\ tx[u].phase = "loaded"
      /\ \/ /\ ~Passes(checks)
            /\ Abort(u, checks[FirstFailed(checks)])
         \/ /\ Passes(checks)
            /\ tx' = [tx EXCEPT ![u].phase = "calling", ![u].pool = pool,
                                ![u].calls = Calls(u, pool, r)]
            /\ UNCHANGED <<chain, result>>

(* invoke(...)?: the next call to the token program, or its error.         *)
FailureIgnored(u) ==                                              \* mutant
  /\ tx' = [tx EXCEPT ![u].calls = Tail(@)]
  /\ UNCHANGED <<chain, result>>
FailedCall(u) == Abort(u, "TokenError")

Invoke(u) ==
  /\ tx[u].phase = "calling" /\ tx[u].calls # << >>
  /\ LET call == Head(tx[u].calls)
     IN  \/ /\ Accepted(call, tx[u].copies)
            /\ tx' = [tx EXCEPT ![u].copies = Executed(call, @), ![u].calls = Tail(@)]
            /\ UNCHANGED <<chain, result>>
         \/ ~Accepted(call, tx[u].copies) /\ FailedCall(u)

(* The handler updates and serialises its pool; the runtime writes back.   *)
Finish(u) ==
  LET r      == tx[u].req
      pool   == Updated(tx[u].pool, r)
      copies == [id \in DOMAIN tx[u].copies |->
                   IF id = PoolAccount THEN pool ELSE tx[u].copies[id]]
  IN  /\ tx[u].phase = "calling" /\ tx[u].calls = << >>
      /\ IF Overflows(pool)
         THEN Abort(u, "Overflow")
         ELSE /\ chain' = [id \in AccountIds |->
                             IF id \in Writes(u, r) THEN copies[id] ELSE chain[id]]
              /\ Returns(u, "Ok")

Step(u) == u \in Running /\ (RunChecks(u) \/ Invoke(u) \/ Finish(u))

Next == \E u \in Users : (\E r \in Requests(u) : Begin(u, r)) \/ Step(u)

Spec == Init /\ [][Next]_vars

-----------------------------------------------------------------------------
Pools ==
  [data_len : DataLens, is_initialized : BOOLEAN, reserve : [Tokens -> U64],
   lp_supply : U64, fee_numerator : U64, fee_denominator : U64]

TypeOK ==
  /\ DOMAIN chain = AccountIds
  /\ chain[PoolAccount] \in Pools
  /\ \A id \in AccountIds \ {PoolAccount} : chain[id] \in U64
  /\ \A u \in Running :
       /\ tx[u].phase \in {"loaded", "calling"}
       /\ tx[u].req \in Requests(u)
       /\ DOMAIN tx[u].copies = Writes(u, tx[u].req) \cup Reads(tx[u].req)
       /\ \A id \in DOMAIN tx[u].copies \ {PoolAccount} : tx[u].copies[id] \in U64

(* processor.rs deserialises the pool before its calls and serialises that *)
(* copy after them.  Whatever other transactions do in between, the copy   *)
(* is still what the ledger has, so serialising it overwrites nothing, and *)
(* what GetPoolInfo logs is the pool as it is when it returns.             *)
ReadsAreCurrent ==
  \A u \in Running :
    tx[u].phase = "calling" /\ tx[u].req.op \notin TokenProgramOps =>
      tx[u].pool = chain[PoolAccount]

(* A transaction whose calls to the token program all succeeded is not     *)
(* undone by the checked arithmetic of its own update.                     *)
CallsDecide ==
  \A u \in Running :
    tx[u].phase = "calling" /\ tx[u].calls = << >> =>
      ~Overflows(Updated(tx[u].pool, tx[u].req))

(* No token is created or lost by transactions that run at the same time,  *)
(* or by one that fails half way: the accounts of a mint add up to its     *)
(* supply.                                                                 *)
Total(m) ==
  LET sum[holder \in Holders] ==
        chain[TokenAccount(m, holder)] + (IF holder = Vault THEN 0 ELSE sum[holder - 1])
  IN  sum[NumUsers]

Conserved == \A m \in Mints : Total(m) = chain[Mint(m)]

(* Every behaviour is one of module DexPool, where an instruction is one   *)
(* step: transactions that overlap end as if they had run one by one, in   *)
(* the order in which they end, and one that fails leaves no effect.       *)
Native ==
  INSTANCE DexPool WITH
    data_len        <- chain[PoolAccount].data_len,
    is_initialized  <- chain[PoolAccount].is_initialized,
    reserve         <- chain[PoolAccount].reserve,
    lp_supply       <- chain[PoolAccount].lp_supply,
    fee_numerator   <- chain[PoolAccount].fee_numerator,
    fee_denominator <- chain[PoolAccount].fee_denominator,
    supply  <- [m \in Mints |-> chain[Mint(m)]],
    balance <- [m \in Mints |-> [holder \in Holders |-> chain[TokenAccount(m, holder)]]]

ImplementsDexPool == Native!Spec
=============================================================================
