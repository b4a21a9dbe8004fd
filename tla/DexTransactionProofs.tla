------------------------ MODULE DexTransactionProofs ------------------------
(***************************************************************************)
(* Transactions that run call by call, beside others and with all-or-none  *)
(* effect, implement DexPool, for every number of users, width, endowment, *)
(* fee and amount.  The argument: the copies of a running transaction are  *)
(* the ledger's accounts after the calls it has made, because no other     *)
(* transaction can write an account it has locked; so when it ends, its    *)
(* calls have had on the ledger the effect, or the failure, of DexPool's   *)
(* one step.                                                               *)
(***************************************************************************)
EXTENDS DexTransaction, AmmMathProofs

-----------------------------------------------------------------------------
(* The inductive invariant.                                                *)

Locked(u, r) == Writes(u, r) \cup Reads(r)

(* The accounts a transaction locked, as a ledger has them.                *)
Part(ids, ledger)    == [id \in ids |-> ledger[id]]
Loaded(u, r, ledger) == Part(Locked(u, r), ledger)

(* Copies after the first k of some calls.                                 *)
After(calls, copies, k) ==
  CASE k = 0 -> copies
    [] k = 1 -> Executed(calls[1], copies)
    [] k = 2 -> Executed(calls[2], Executed(calls[1], copies))
    [] k = 3 -> Executed(calls[3], Executed(calls[2], Executed(calls[1], copies)))

AnyCall ==
  [mint : Mints, from : Holders \cup {Nobody}, to : Holders \cup {Nobody}, n : U64]

IsTx(x) == x = [phase |-> x.phase, req |-> x.req, calls |-> x.calls,
                copies |-> x.copies, pool |-> x.pool]

HasLoaded(u, x, ledger) ==
  /\ x.phase = "loaded"
  /\ x.copies = Loaded(u, x.req, ledger)
  /\ x.pool = NewPool(0) /\ x.calls = << >>

(* The pool the handler deserialised is still the ledger's, and passed its *)
(* checks.                                                                 *)
HasChecked(x, ledger) ==
  IF x.req.op \in TokenProgramOps
  THEN x.pool = NewPool(0)
  ELSE x.pool = ledger[PoolAccount] /\ Passes(EarlyChecks(x.pool, x.req))

(* The first k calls were accepted, the others are still to be made.       *)
HasCalled(u, x, ledger, k) ==
  LET calls  == Calls(u, x.pool, x.req)
      copies == Loaded(u, x.req, ledger)
  IN  /\ k \in 0..Len(calls)
      /\ x.calls \in Seq(AnyCall)
      /\ Len(x.calls) = Len(calls) - k
      /\ \A i \in 1..Len(x.calls) : x.calls[i] = calls[k + i]
      /\ x.copies = After(calls, copies, k)
      /\ \A i \in 1..k : Accepted(calls[i], After(calls, copies, i - 1))

TxOK(u, x, ledger) ==
  /\ IsTx(x)
  /\ x.req \in Requests(u)
  /\ \/ HasLoaded(u, x, ledger)
     \/ /\ x.phase = "calling"
        /\ HasChecked(x, ledger)
        /\ \E k \in 0..3 : HasCalled(u, x, ledger, k)

Apart(u, r, v, s) == Writes(u, r) \cap Locked(v, s) = {}

HasAccounts(ledger) == ledger = [id \in AccountIds |-> ledger[id]]

LedgerOK ==
  /\ HasAccounts(chain)
  /\ chain[PoolAccount] \in Pools
  /\ \A id \in AccountIds \ {PoolAccount} : chain[id] \in U64

IInv ==
  /\ LedgerOK
  /\ tx = [u \in Users |-> tx[u]]
  /\ \A u \in Running : TxOK(u, tx[u], chain)
  /\ \A u, v \in Running : u # v => Apart(u, tx[u].req, v, tx[v].req)

-----------------------------------------------------------------------------
(* The accounts of the ledger are all different.                           *)
LEMMA AccountsDiffer ==
  /\ \A m \in Mints : Mint(m) # PoolAccount
  /\ \A m, h, k : TokenAccount(m, h) # PoolAccount
  /\ \A m \in Mints, h \in Int, k \in Mints : Mint(k) # TokenAccount(m, h)
  /\ \A m, k : Mint(m) = Mint(k) <=> m = k
  /\ \A m, h, k, g : TokenAccount(m, h) = TokenAccount(k, g) <=> m = k /\ h = g
BY DEF Mint, TokenAccount, PoolAccount, Mints, Tokens

LEMMA Numbers ==
  /\ MaxU64 \in Nat \ {0} /\ U64 \subseteq Nat /\ None \notin U64
  /\ Amounts \subseteq U64 /\ Minimums \subseteq U64
  /\ Users \subseteq Nat \ {0} /\ Vault \in Nat /\ Vault \notin Users /\ Nobody \in Int
  /\ Holders \subseteq Nat /\ Nobody \notin Holders
BY MaxU64Assumption, DexTransactionAssumption
   DEF U64, None, Users, Vault, Nobody, Holders

-----------------------------------------------------------------------------
(* The formulas give an amount or None.                                    *)
LEMMA DivIsSome ==
  ASSUME NEW m \in Nat, NEW n \in Nat \ {0}
  PROVE  ToU64(m \div n) \in U64 \cup {None}
<1>1. m \div n \in Nat
  BY DivBounds
<1>2. QED
  BY <1>1, MaxU64Assumption DEF ToU64, U64

LEMMA RemovalIsAmount ==
  ASSUME NEW lp \in U64, NEW r \in U64, NEW S \in U64
  PROVE  RemovalAmount(lp, r, S) \in U64 \cup {None}
<1>1. lp * r \in Nat /\ S \in Nat
  BY Numbers
<1>2. QED
  BY <1>1, DivIsSome DEF RemovalAmount, CheckedDiv

LEMMA SharesAreAmount ==
  ASSUME NEW a \in U64, NEW b \in U64, NEW ra \in U64, NEW rb \in U64, NEW S \in U64
  PROVE  CalculateLpTokens(a, b, ra, rb, S) \in U64 \cup {None}
<1> DEFINE lp == CalculateLpTokens(a, b, ra, rb, S)
<1>1. CASE S = 0
  BY <1>1, FirstLpTokens
<1>2. CASE S # 0 /\ 0 \in {ra, rb}
  BY <1>2 DEF CalculateLpTokens
<1>3. CASE S # 0 /\ 0 \notin {ra, rb}
  BY <1>3, LaterLpTokens
<1>4. QED
  BY <1>1, <1>2, <1>3

LEMMA SwapIsAmount ==
  ASSUME NEW a \in U64, NEW rin \in U64, NEW rout \in U64, NEW fn \in U64, NEW fd \in U64
  PROVE  SwapOutput(a, rin, rout, fn, fd) \in U64 \cup {None}
<1> DEFINE ff  == FeeFactor(fn, fd)
           num == SwapNumerator(a, rout, ff)
           den == SwapDenominator(a, rin, ff, fd)
<1>1. CASE ff < 0 \/ 0 \in {rin, rout, a, fd}
  BY <1>1 DEF SwapOutput
<1>2. CASE ~(ff < 0) /\ 0 \notin {rin, rout, a, fd}
  <2>1. /\ ff \in Nat /\ a \in Nat /\ rout \in Nat
        /\ rin \in Nat \ {0} /\ fd \in Nat \ {0}
    BY <1>2, Numbers DEF FeeFactor
  <2> HIDE DEF ff
  <2>2. num \in Nat
    BY <2>1 DEF SwapNumerator
  <2>3. rin * fd \in Nat \ {0} /\ a * ff \in Nat
    BY <2>1, Z3
  <2>4. den \in Nat \ {0}
    BY <2>3 DEF SwapDenominator
  <2> HIDE DEF num, den
  <2>5. ToU64(CheckedDiv(num, den)) \in U64 \cup {None}
    BY <2>2, <2>4, DivIsSome DEF CheckedDiv
  <2>6. QED
    BY <2>5 DEF SwapOutput, ff, num, den
<1>3. QED
  BY <1>1, <1>2

-----------------------------------------------------------------------------
(* What a table of checks that all pass has excluded.                      *)
LEMMA RowsPass ==
  ASSUME NEW checks, NEW n \in Nat, DOMAIN checks = 1..n
  PROVE  Passes(checks) <=> \A i \in 1..n : checks[i] = "Ok"
BY DEF Passes, Failed

LEMMA AddPassed ==
  ASSUME NEW pool, NEW r, Passes(AddChecks(pool, r))
  PROVE  /\ 0 \notin {r.a, r.b} /\ pool.data_len = POOL_SIZE /\ pool.is_initialized
         /\ LpTokens(pool, r) \notin {None, 0} /\ ~(LpTokens(pool, r) < r.min)
<1> DEFINE checks == AddChecks(pool, r)
<1>1. DOMAIN checks = 1..6
  BY DEF AddChecks
<1>2. \A i \in 1..6 : checks[i] = "Ok"
  BY <1>1, RowsPass
<1>3. QED
  BY <1>2 DEF AddChecks, Check

LEMMA RemovePassed ==
  ASSUME NEW pool, NEW r, Passes(RemoveChecks(pool, r))
  PROVE  /\ r.lp # 0 /\ pool.data_len = POOL_SIZE /\ pool.is_initialized
         /\ \A t \in Tokens : Removal(pool, r, t) # None
         /\ ~(Removal(pool, r, "A") < r.min_a \/ Removal(pool, r, "B") < r.min_b)
<1> DEFINE checks == RemoveChecks(pool, r)
<1>1. DOMAIN checks = 1..5
  BY DEF RemoveChecks
<1>2. \A i \in 1..5 : checks[i] = "Ok"
  BY <1>1, RowsPass
<1>3. QED
  BY <1>2 DEF RemoveChecks, Check

LEMMA SwapPassed ==
  ASSUME NEW pool, NEW r, Passes(SwapChecks(pool, r))
  PROVE  /\ r.n # 0 /\ pool.data_len = POOL_SIZE /\ pool.is_initialized
         /\ \A t \in Tokens : pool.reserve[t] # 0
         /\ AmountOut(pool, r) \notin {None, 0} /\ ~(AmountOut(pool, r) < r.min)
<1> DEFINE checks == SwapChecks(pool, r)
<1>1. DOMAIN checks = 1..7
  BY DEF SwapChecks
<1>2. \A i \in 1..7 : checks[i] = "Ok"
  BY <1>1, RowsPass
<1>3. QED
  BY <1>2 DEF SwapChecks, Check

LEMMA InitPassed ==
  ASSUME NEW pool, NEW r, Passes(InitChecks(pool, r))
  PROVE  /\ ~(r.fee[2] = 0 \/ r.fee[1] >= r.fee[2]) /\ r.derived
         /\ ~(pool.data_len < POOL_SIZE)
         /\ ~(pool.data_len = POOL_SIZE /\ pool.is_initialized)
<1> DEFINE checks == InitChecks(pool, r)
<1>1. DOMAIN checks = 1..4
  BY DEF InitChecks
<1>2. \A i \in 1..4 : checks[i] = "Ok"
  BY <1>1, RowsPass
<1>3. QED
  BY <1>2 DEF InitChecks, Check

-----------------------------------------------------------------------------
(* The fields of a request.                                                *)
LEMMA RequestFields ==
  ASSUME NEW u \in Users, NEW r \in Requests(u)
  PROVE  \/ r.op = "InitializePool" /\ r.fee \in Fees /\ r.derived \in BOOLEAN
         \/ r.op = "AddLiquidity" /\ r.a \in Amounts /\ r.b \in Amounts /\ r.min \in Minimums
         \/ r.op = "RemoveLiquidity" /\ r.lp \in Amounts
              /\ r.min_a \in Minimums /\ r.min_b \in Minimums
         \/ r.op = "Swap" /\ r.n \in Amounts /\ r.min \in Minimums /\ r.tin \in Tokens
         \/ r.op = "GetPoolInfo"
         \/ r.op = "Transfer" /\ r.mint \in DirectTransfers /\ r.to \in Holders \ {u}
              /\ r.n \in Amounts /\ (r.mint = "LP" => r.to # Vault)
         \/ r.op = "Burn" /\ r.mint \in DirectBurns /\ r.n \in Amounts
<1>1. CASE r \in [op : {"Transfer"}, mint : DirectTransfers \ {"LP"}, to : Holders \ {u}, n : Amounts]
  BY <1>1
<1>2. CASE r \in [op : {"Transfer"}, mint : DirectTransfers \cap {"LP"}, to : Users \ {u}, n : Amounts]
  BY <1>2, Numbers DEF Holders
<1>3. QED
  BY <1>1, <1>2 DEF Requests

(* A call is between different accounts that the transaction has locked.   *)
GoodCall(call, locked) ==
  /\ call \in AnyCall /\ call.from # call.to
  /\ call.from # Nobody => TokenAccount(call.mint, call.from) \in locked
  /\ call.to # Nobody => TokenAccount(call.mint, call.to) \in locked
  /\ Nobody \in {call.from, call.to} => Mint(call.mint) \in locked

LEMMA CallIsGood ==
  ASSUME NEW m \in Mints, NEW from \in Holders \cup {Nobody},
         NEW to \in Holders \cup {Nobody}, from # to, NEW n \in U64, NEW locked,
         from # Nobody => TokenAccount(m, from) \in locked,
         to # Nobody => TokenAccount(m, to) \in locked,
         Nobody \in {from, to} => Mint(m) \in locked
  PROVE  GoodCall(Call(m, from, to, n), locked)
BY DEF GoodCall, Call, AnyCall

LEMMA OneCall ==
  ASSUME NEW locked, NEW c, GoodCall(c, locked), NEW calls, calls = <<c>>
  PROVE  /\ calls \in Seq(AnyCall) /\ Len(calls) \in 0..3
         /\ \A i \in 1..Len(calls) : GoodCall(calls[i], locked)
<1>1. c \in AnyCall
  BY DEF GoodCall
<1>2. QED
  BY <1>1

LEMMA TwoCalls ==
  ASSUME NEW locked, NEW c, NEW d, GoodCall(c, locked), GoodCall(d, locked),
         NEW calls, calls = <<c, d>>
  PROVE  /\ calls \in Seq(AnyCall) /\ Len(calls) \in 0..3
         /\ \A i \in 1..Len(calls) : GoodCall(calls[i], locked)
<1>1. c \in AnyCall /\ d \in AnyCall
  BY DEF GoodCall
<1>2. QED
  BY <1>1

LEMMA ThreeCalls ==
  ASSUME NEW locked, NEW c, NEW d, NEW e,
         GoodCall(c, locked), GoodCall(d, locked), GoodCall(e, locked),
         NEW calls, calls = <<c, d, e>>
  PROVE  /\ calls \in Seq(AnyCall) /\ Len(calls) \in 0..3
         /\ \A i \in 1..Len(calls) : GoodCall(calls[i], locked)
<1>1. c \in AnyCall /\ d \in AnyCall /\ e \in AnyCall
  BY DEF GoodCall
<1>2. QED
  BY <1>1

(* A handler goes on with a pool that passed its checks.                   *)
Handled(pool, r) ==
  r.op \notin TokenProgramOps => pool \in Pools /\ Passes(EarlyChecks(pool, r))

(* Every call a handler makes after its checks passed is one.              *)
LEMMA CallsAreGood ==
  ASSUME NEW u \in Users, NEW r \in Requests(u), NEW pool, Handled(pool, r)
  PROVE  LET calls == Calls(u, pool, r)
         IN  /\ calls \in Seq(AnyCall) /\ Len(calls) \in 0..3
             /\ \A i \in 1..Len(calls) : GoodCall(calls[i], Locked(u, r))
<1> DEFINE locked == Locked(u, r)
           calls  == Calls(u, pool, r)
<1> SUFFICES /\ calls \in Seq(AnyCall) /\ Len(calls) \in 0..3
             /\ \A i \in 1..Len(calls) : GoodCall(calls[i], locked)
  OBVIOUS
<1>1. /\ Tokens \subseteq Mints /\ "LP" \in Mints /\ u \in Holders /\ Vault \in Holders
      /\ u # Vault /\ u # Nobody /\ Vault # Nobody /\ "A" \in Tokens /\ "B" \in Tokens
      /\ r.op \notin TokenProgramOps =>
           /\ pool \in Pools
           /\ pool.reserve["A"] \in U64 /\ pool.reserve["B"] \in U64 /\ pool.lp_supply \in U64
           /\ pool.fee_numerator \in U64 /\ pool.fee_denominator \in U64
  BY Numbers DEF Mints, Holders, Tokens, Pools, Handled
<1>2. CASE r.op = "AddLiquidity"
  <2>1. LpTokens(pool, r) \in U64
    <3>1. LpTokens(pool, r) # None
      BY <1>2, AddPassed DEF EarlyChecks, TokenProgramOps, Handled
    <3>2. r.a \in U64 /\ r.b \in U64
      BY <1>2, RequestFields, Numbers
    <3>3. QED
      BY <1>1, <1>2, <3>1, <3>2, SharesAreAmount DEF LpTokens, TokenProgramOps
  <2>2. calls = AddCalls(u, pool, r)
    BY <1>2 DEF Calls
  <2>3. r.a \in U64 /\ r.b \in U64
    BY <1>2, RequestFields, Numbers
  <2>4. /\ \A t \in Tokens : TokenAccount(t, u) \in locked /\ TokenAccount(t, Vault) \in locked
        /\ TokenAccount("LP", u) \in locked /\ Mint("LP") \in locked
    BY <1>2 DEF Locked, Writes, TokensAndVaults, ShareAccounts
  <2>5. /\ GoodCall(Call("A", u, Vault, r.a), locked)
        /\ GoodCall(Call("B", u, Vault, r.b), locked)
        /\ GoodCall(Call("LP", Nobody, u, LpTokens(pool, r)), locked)
    BY <1>1, <2>1, <2>3, <2>4, CallIsGood
  <2> HIDE DEF locked, calls
  <2>6. QED
    BY <2>2, <2>5, ThreeCalls DEF AddCalls
<1>3. CASE r.op = "RemoveLiquidity"
  <2>1. \A t \in Tokens : Removal(pool, r, t) \in U64
    <3>1. \A t \in Tokens : Removal(pool, r, t) # None /\ pool.reserve[t] \in U64
      BY <1>1, <1>3, RemovePassed DEF EarlyChecks, TokenProgramOps, Pools, Handled, Tokens
    <3>2. r.lp \in U64
      BY <1>3, RequestFields, Numbers
    <3>3. QED
      BY <1>1, <1>3, <3>1, <3>2, RemovalIsAmount DEF Removal, TokenProgramOps
  <2>2. calls = RemoveCalls(u, pool, r)
    BY <1>3 DEF Calls
  <2>3. r.lp \in U64
    BY <1>3, RequestFields, Numbers
  <2>4. /\ \A t \in Tokens : TokenAccount(t, u) \in locked /\ TokenAccount(t, Vault) \in locked
        /\ TokenAccount("LP", u) \in locked /\ Mint("LP") \in locked
    BY <1>3 DEF Locked, Writes, TokensAndVaults, ShareAccounts
  <2>5. /\ GoodCall(Call("LP", u, Nobody, r.lp), locked)
        /\ GoodCall(Call("A", Vault, u, Removal(pool, r, "A")), locked)
        /\ GoodCall(Call("B", Vault, u, Removal(pool, r, "B")), locked)
    BY <1>1, <2>1, <2>3, <2>4, CallIsGood
  <2> HIDE DEF locked, calls
  <2>6. QED
    BY <2>2, <2>5, ThreeCalls DEF RemoveCalls
<1>4. CASE r.op = "Swap"
  <2>1. Other(r.tin) \in Tokens /\ r.tin \in Tokens /\ r.n \in U64
    BY <1>4, RequestFields, Numbers DEF Other, Tokens
  <2>2. AmountOut(pool, r) \in U64
    <3>1. AmountOut(pool, r) # None
      BY <1>4, SwapPassed DEF EarlyChecks, TokenProgramOps, Handled
    <3>2. pool.reserve[r.tin] \in U64 /\ pool.reserve[Other(r.tin)] \in U64
      BY <1>1, <1>4, <2>1 DEF Pools, TokenProgramOps
    <3>3. QED
      BY <1>1, <1>4, <2>1, <3>1, <3>2, SwapIsAmount DEF AmountOut, TokenProgramOps
  <2>3. calls = SwapCalls(u, pool, r)
    BY <1>4 DEF Calls
  <2>4. \A t \in Tokens : TokenAccount(t, u) \in locked /\ TokenAccount(t, Vault) \in locked
    BY <1>4 DEF Locked, Writes, TokensAndVaults
  <2>5. /\ GoodCall(Call(r.tin, u, Vault, r.n), locked)
        /\ GoodCall(Call(Other(r.tin), Vault, u, AmountOut(pool, r)), locked)
    BY <1>1, <2>1, <2>2, <2>4, CallIsGood
  <2> HIDE DEF locked, calls
  <2>6. QED
    BY <2>3, <2>5, TwoCalls DEF SwapCalls
<1>5. CASE r.op = "Transfer"
  <2>1. /\ r.mint \in Mints /\ r.to \in Holders /\ r.to # u /\ r.n \in U64
    BY <1>5, RequestFields, Numbers, DexTransactionAssumption
  <2>2. r.to # Nobody
    BY <2>1, Numbers
  <2>3. TokenAccount(r.mint, u) \in locked /\ TokenAccount(r.mint, r.to) \in locked
    BY <1>5 DEF Locked, Writes
  <2>4. GoodCall(Call(r.mint, u, r.to, r.n), locked)
    BY <1>1, <2>1, <2>2, <2>3, CallIsGood
  <2>5. calls = <<Call(r.mint, u, r.to, r.n)>>
    BY <1>5 DEF Calls
  <2> HIDE DEF locked, calls
  <2>6. QED
    BY <2>4, <2>5, OneCall
<1>6. CASE r.op = "Burn"
  <2>1. /\ r.mint \in Mints /\ r.n \in U64
    BY <1>6, RequestFields, Numbers, DexTransactionAssumption
  <2>2. TokenAccount(r.mint, u) \in locked /\ Mint(r.mint) \in locked
    BY <1>6 DEF Locked, Writes
  <2>3. GoodCall(Call(r.mint, u, Nobody, r.n), locked)
    BY <1>1, <2>1, <2>2, CallIsGood
  <2>4. calls = <<Call(r.mint, u, Nobody, r.n)>>
    BY <1>6 DEF Calls
  <2> HIDE DEF locked, calls
  <2>5. QED
    BY <2>3, <2>4, OneCall
<1>7. CASE r.op \in {"InitializePool", "GetPoolInfo"}
  BY <1>7 DEF Calls
<1>8. QED
  BY <1>2, <1>3, <1>4, <1>5, <1>6, <1>7, RequestFields

-----------------------------------------------------------------------------
(* Calls on the copies of a transaction are calls on the whole ledger.     *)

IsLedger(ledger) ==
  /\ HasAccounts(ledger)
  /\ \A id \in AccountIds \ {PoolAccount} : ledger[id] \in U64

Over(copies, ledger) ==
  [id \in AccountIds |-> IF id \in DOMAIN copies THEN copies[id] ELSE ledger[id]]

LEMMA NobodysAccount ==
  ASSUME NEW m \in Mints
  PROVE  TokenAccount(m, Nobody) \notin AccountIds
BY AccountsDiffer, Numbers DEF AccountIds

LEMMA ExecutedOver ==
  ASSUME NEW locked, locked \subseteq AccountIds, NEW copies, DOMAIN copies = locked,
         NEW ledger, NEW c, GoodCall(c, locked)
  PROVE  /\ Over(Executed(c, copies), ledger) = Executed(c, Over(copies, ledger))
         /\ Accepted(c, copies) <=> Accepted(c, Over(copies, ledger))
         /\ DOMAIN Executed(c, copies) = locked
<1> DEFINE whole == Over(copies, ledger)
<1>1. /\ c.mint \in Mints
      /\ c.from = Nobody => TokenAccount(c.mint, c.from) \notin AccountIds
      /\ c.to = Nobody => TokenAccount(c.mint, c.to) \notin AccountIds
  BY NobodysAccount DEF GoodCall, AnyCall
<1>2. DOMAIN Executed(c, copies) = locked /\ DOMAIN whole = AccountIds
  BY DEF Executed, Over
<1>3. ASSUME NEW id \in AccountIds
      PROVE  Over(Executed(c, copies), ledger)[id] = Executed(c, whole)[id]
  <2>1. CASE id \in locked
    BY <1>2, <2>1 DEF Over, Executed
  <2>2. CASE id \notin locked
    <3>1. /\ id # TokenAccount(c.mint, c.from) /\ id # TokenAccount(c.mint, c.to)
          /\ ~(id = Mint(c.mint) /\ c.from = Nobody) /\ ~(id = Mint(c.mint) /\ c.to = Nobody)
      BY <1>1, <2>2 DEF GoodCall
    <3>2. Executed(c, whole)[id] = whole[id]
      BY <1>2, <3>1 DEF Executed
    <3>3. QED
      BY <1>2, <2>2, <3>2 DEF Over
  <2>3. QED
    BY <2>1, <2>2
<1>4. Over(Executed(c, copies), ledger) = Executed(c, whole)
  BY <1>2, <1>3 DEF Over, Executed
<1>5. \A id \in locked : copies[id] = whole[id]
  BY DEF Over
<1> HIDE DEF whole
<1>6. Accepted(c, copies) <=> Accepted(c, whole)
  BY <1>5 DEF GoodCall, Accepted
<1>7. QED
  BY <1>2, <1>4, <1>6 DEF whole

(* An accepted call leaves amounts; a call moves nothing of other mints,   *)
(* and nothing of the pool.                                                *)
LEMMA ExecutedIsLedger ==
  ASSUME NEW ledger, IsLedger(ledger), NEW c, GoodCall(c, AccountIds), Accepted(c, ledger)
  PROVE  IsLedger(Executed(c, ledger))
<1>1. /\ c.n \in Nat /\ c.from # c.to /\ U64 \subseteq Nat /\ MaxU64 \in Nat
      /\ c.mint \in Mints
      /\ c.from = Nobody => TokenAccount(c.mint, c.from) \notin AccountIds
      /\ c.to = Nobody => TokenAccount(c.mint, c.to) \notin AccountIds
  BY Numbers, NobodysAccount DEF GoodCall, AnyCall
<1>2. ASSUME NEW id \in AccountIds \ {PoolAccount}
      PROVE  Executed(c, ledger)[id] \in U64
  <2>1. ledger[id] \in U64 /\ ledger[id] \in Nat
    BY <1>1 DEF IsLedger
  <2>2. id = TokenAccount(c.mint, c.from) => ledger[id] >= c.n
    BY <1>1 DEF Accepted
  <2>3. id = TokenAccount(c.mint, c.to) => ledger[id] + c.n <= MaxU64
    BY <1>1 DEF Accepted
  <2>4. /\ id = Mint(c.mint) /\ c.from = Nobody => ledger[id] + c.n <= MaxU64
        /\ id = Mint(c.mint) /\ c.to = Nobody => ledger[id] >= c.n
    BY DEF Accepted
  <2>5. Executed(c, ledger)[id] \in {ledger[id], ledger[id] - c.n, ledger[id] + c.n}
    BY DEF Executed, IsLedger, HasAccounts
  <2>6. \/ Executed(c, ledger)[id] = ledger[id]
        \/ Executed(c, ledger)[id] = ledger[id] - c.n /\ ledger[id] >= c.n
        \/ Executed(c, ledger)[id] = ledger[id] + c.n /\ ledger[id] + c.n <= MaxU64
    BY <2>2, <2>3, <2>4 DEF Executed, IsLedger, HasAccounts
  <2>7. QED
    BY <1>1, <2>1, <2>6 DEF U64
<1>3. Executed(c, ledger) = [id \in AccountIds |-> Executed(c, ledger)[id]]
  BY DEF Executed, IsLedger, HasAccounts
<1>4. QED
  BY <1>2, <1>3 DEF IsLedger, HasAccounts

LEMMA OtherMint ==
  ASSUME NEW ledger, DOMAIN ledger = AccountIds, NEW c, GoodCall(c, AccountIds)
  PROVE  /\ DOMAIN Executed(c, ledger) = AccountIds
         /\ Executed(c, ledger)[PoolAccount] = ledger[PoolAccount]
         /\ \A m \in Mints \ {c.mint} :
              /\ Executed(c, ledger)[Mint(m)] = ledger[Mint(m)]
              /\ \A h \in Holders :
                   Executed(c, ledger)[TokenAccount(m, h)] = ledger[TokenAccount(m, h)]
BY AccountsDiffer, Numbers DEF Executed, AccountIds, GoodCall, AnyCall

(* Whether a call is accepted depends on the accounts of its mint alone.   *)
LEMMA OtherMintAccepted ==
  ASSUME NEW ledger, DOMAIN ledger = AccountIds, NEW c, NEW d,
         GoodCall(c, AccountIds), GoodCall(d, AccountIds), c.mint # d.mint
  PROVE  Accepted(d, Executed(c, ledger)) <=> Accepted(d, ledger)
<1>1. d.mint \in Mints \ {c.mint}
  BY DEF GoodCall, AnyCall
<1>2. Executed(c, ledger)[Mint(d.mint)] = ledger[Mint(d.mint)]
  BY <1>1, OtherMint
<1>3. \A h \in Holders :
        Executed(c, ledger)[TokenAccount(d.mint, h)] = ledger[TokenAccount(d.mint, h)]
  BY <1>1, OtherMint
<1>4. /\ d.from # Nobody => d.from \in Holders
      /\ d.to # Nobody => d.to \in Holders
  BY DEF GoodCall, AnyCall
<1>5. QED
  BY <1>2, <1>3, <1>4 DEF Accepted

(* What a call does to the accounts of its mint depends on them alone.     *)
SameMint(m, f, g) ==
  f[Mint(m)] = g[Mint(m)] /\ \A h \in Holders : f[TokenAccount(m, h)] = g[TokenAccount(m, h)]

LEMMA SameMintExecuted ==
  ASSUME NEW f, DOMAIN f = AccountIds, NEW g, DOMAIN g = AccountIds,
         NEW c, GoodCall(c, AccountIds), SameMint(c.mint, f, g)
  PROVE  SameMint(c.mint, Executed(c, f), Executed(c, g))
<1>1. c.mint \in Mints /\ Mint(c.mint) \in AccountIds
  BY DEF GoodCall, AnyCall, AccountIds
<1>2. \A h \in Holders : TokenAccount(c.mint, h) \in AccountIds
  BY <1>1 DEF AccountIds
<1>3. Executed(c, f)[Mint(c.mint)] = Executed(c, g)[Mint(c.mint)]
  BY <1>1 DEF Executed, SameMint
<1>4. ASSUME NEW h \in Holders
      PROVE  Executed(c, f)[TokenAccount(c.mint, h)] = Executed(c, g)[TokenAccount(c.mint, h)]
  BY <1>1, <1>2 DEF Executed, SameMint
<1>5. QED
  BY <1>3, <1>4 DEF SameMint

(* At most three calls, of different mints, between accounts of locked.    *)
GoodCalls(calls, locked) ==
  /\ calls \in Seq(AnyCall) /\ Len(calls) \in 0..3
  /\ \A i \in 1..Len(calls) : GoodCall(calls[i], locked)
  /\ \A i, j \in 1..Len(calls) : i # j => calls[i].mint # calls[j].mint

LEMMA GoodCallsWider ==
  ASSUME NEW calls, NEW locked, GoodCalls(calls, locked), locked \subseteq AccountIds
  PROVE  GoodCalls(calls, AccountIds)
BY DEF GoodCalls, GoodCall

LEMMA OneToThree ==
  ASSUME NEW n \in 0..3, NEW k \in 1..n
  PROVE  k \in 1..3 /\ k \in Nat /\ n \in Nat
OBVIOUS

LEMMA UpToThree ==
  ASSUME NEW n \in 0..3, NEW k \in 0..n
  PROVE  k = 0 \/ (k \in {1, 2, 3} /\ k \in 1..n)
<1>1. k \in Int /\ n \in Int /\ 0 <= k /\ k <= n /\ n <= 3
  OBVIOUS
<1>2. k = 0 \/ k = 1 \/ k = 2 \/ k = 3
  BY <1>1
<1>3. k # 0 => k \in 1..n
  BY <1>1
<1>4. QED
  BY <1>2, <1>3

LEMMA AfterOne ==
  ASSUME NEW calls, NEW copies
  PROVE  /\ After(calls, copies, 0) = copies
         /\ \A k \in 1..3 : After(calls, copies, k) = Executed(calls[k], After(calls, copies, k - 1))
<1>1. After(calls, copies, 1) = Executed(calls[1], After(calls, copies, 0))
  BY DEF After
<1>2. After(calls, copies, 2) = Executed(calls[2], After(calls, copies, 1))
  BY DEF After
<1>3. After(calls, copies, 3) = Executed(calls[3], After(calls, copies, 2))
  BY DEF After
<1>4. After(calls, copies, 0) = copies
  BY DEF After
<1>5. QED
  BY <1>1, <1>2, <1>3, <1>4

(* The copies of a transaction, and the ledger with its calls made.        *)
LEMMA AfterOver ==
  ASSUME NEW locked, locked \subseteq AccountIds, NEW calls, GoodCalls(calls, locked),
         NEW ledger, HasAccounts(ledger),
         NEW copies, copies = Part(locked, ledger)
  PROVE  /\ \A k \in 0..Len(calls) :
              /\ Over(After(calls, copies, k), ledger) = After(calls, ledger, k)
              /\ DOMAIN After(calls, copies, k) = locked
              /\ DOMAIN After(calls, ledger, k) = AccountIds
         /\ \A k \in 1..Len(calls) :
              Accepted(calls[k], After(calls, copies, k - 1))
                <=> Accepted(calls[k], After(calls, ledger, k - 1))
<1> DEFINE Same(k) ==
      /\ Over(After(calls, copies, k), ledger) = After(calls, ledger, k)
      /\ DOMAIN After(calls, copies, k) = locked
      /\ DOMAIN After(calls, ledger, k) = AccountIds
<1>1. Same(0)
  <2>1. Over(copies, ledger) = ledger
    BY DEF Over, Part, HasAccounts
  <2>2. DOMAIN copies = locked /\ DOMAIN ledger = AccountIds
    BY DEF Part, HasAccounts
  <2>3. QED
    BY <2>1, <2>2, AfterOne
<1>2. ASSUME NEW k \in 1..Len(calls), Same(k - 1)
      PROVE  /\ Same(k)
             /\ Accepted(calls[k], After(calls, copies, k - 1))
                  <=> Accepted(calls[k], After(calls, ledger, k - 1))
  <2>1. GoodCall(calls[k], locked) /\ k \in 1..3
    BY DEF GoodCalls
  <2>2. PICK f : f = After(calls, copies, k - 1)
    OBVIOUS
  <2>3. PICK g : g = After(calls, ledger, k - 1)
    OBVIOUS
  <2>4. DOMAIN f = locked /\ Over(f, ledger) = g
    BY <1>2, <2>2, <2>3
  <2>5. /\ After(calls, copies, k) = Executed(calls[k], f)
        /\ After(calls, ledger, k) = Executed(calls[k], g)
    BY <2>1, <2>2, <2>3, AfterOne
  <2>6. /\ Over(Executed(calls[k], f), ledger) = Executed(calls[k], g)
        /\ Accepted(calls[k], f) <=> Accepted(calls[k], g)
        /\ DOMAIN Executed(calls[k], f) = locked
    BY <2>1, <2>4, ExecutedOver
  <2>7. DOMAIN Executed(calls[k], g) = AccountIds
    BY <2>6 DEF Over
  <2>8. QED
    BY <2>2, <2>3, <2>5, <2>6, <2>7
<1> HIDE DEF Same
<1>3. Len(calls) \in 0..3
  BY DEF GoodCalls
<1>4. \A k \in 0..Len(calls) : Same(k)
  <2>1. \A k \in 1..Len(calls) : Same(k - 1) => Same(k)
    BY <1>2
  <2>2. 1 \in 1..Len(calls) => Same(1)
    BY <1>1, <2>1
  <2>3. 2 \in 1..Len(calls) => Same(2)
    BY <1>3, <2>1, <2>2
  <2>4. 3 \in 1..Len(calls) => Same(3)
    BY <1>3, <2>1, <2>3
  <2>5. \A k \in 0..Len(calls) : k = 0 \/ (k \in {1, 2, 3} /\ k \in 1..Len(calls))
    BY <1>3, UpToThree
  <2>6. QED
    BY <1>1, <2>2, <2>3, <2>4, <2>5
<1>5. \A k \in 1..Len(calls) : k - 1 \in 0..Len(calls)
  BY <1>3
<1>6. QED
  BY <1>2, <1>4, <1>5 DEF Same

(* Calls of different mints are accepted, and move tokens, as if each were *)
(* the only one.                                                           *)
LEMMA AfterByMint ==
  ASSUME NEW calls, GoodCalls(calls, AccountIds),
         NEW ledger, DOMAIN ledger = AccountIds, NEW k \in 0..Len(calls)
  PROVE  LET after == After(calls, ledger, k)
         IN  /\ DOMAIN after = AccountIds
             /\ after[PoolAccount] = ledger[PoolAccount]
             /\ \A i \in 1..k : SameMint(calls[i].mint, after, Executed(calls[i], ledger))
             /\ \A m \in Mints : (\A i \in 1..k : calls[i].mint # m) => SameMint(m, after, ledger)
             /\ \A i \in 1..Len(calls) :
                  i > k => (Accepted(calls[i], after) <=> Accepted(calls[i], ledger))
<1> DEFINE Holds(n) ==
      LET after == After(calls, ledger, n)
      IN  /\ DOMAIN after = AccountIds
          /\ after[PoolAccount] = ledger[PoolAccount]
          /\ \A i \in 1..n : SameMint(calls[i].mint, after, Executed(calls[i], ledger))
          /\ \A m \in Mints : (\A i \in 1..n : calls[i].mint # m) => SameMint(m, after, ledger)
          /\ \A i \in 1..Len(calls) :
               i > n => (Accepted(calls[i], after) <=> Accepted(calls[i], ledger))
<1>1. Holds(0)
  BY AfterOne DEF SameMint
<1>2. ASSUME NEW n \in 1..Len(calls), Holds(n - 1) PROVE Holds(n)
  <2>1. /\ n \in 1..3 /\ n \in Nat /\ Len(calls) \in Nat
        /\ \A i \in 1..Len(calls) : GoodCall(calls[i], AccountIds) /\ calls[i].mint \in Mints
        /\ \A i, j \in 1..Len(calls) : i # j => calls[i].mint # calls[j].mint
    <3>1. Len(calls) \in 0..3
      BY DEF GoodCalls
    <3>2. \A i \in 1..Len(calls) : GoodCall(calls[i], AccountIds)
      BY DEF GoodCalls
    <3>3. \A i \in 1..Len(calls) : calls[i].mint \in Mints
      BY <3>2 DEF GoodCall, AnyCall
    <3>4. \A i, j \in 1..Len(calls) : i # j => calls[i].mint # calls[j].mint
      BY DEF GoodCalls
    <3>5. n \in 1..3 /\ n \in Nat /\ Len(calls) \in Nat
      BY <3>1, OneToThree
    <3>6. QED
      BY <3>2, <3>3, <3>4, <3>5
  <2>2. PICK f : f = After(calls, ledger, n - 1)
    OBVIOUS
  <2>3. /\ DOMAIN f = AccountIds /\ f[PoolAccount] = ledger[PoolAccount]
        /\ \A i \in 1..(n - 1) : SameMint(calls[i].mint, f, Executed(calls[i], ledger))
        /\ \A m \in Mints : (\A i \in 1..(n - 1) : calls[i].mint # m) => SameMint(m, f, ledger)
        /\ \A i \in 1..Len(calls) :
             i > n - 1 => (Accepted(calls[i], f) <=> Accepted(calls[i], ledger))
    BY <1>2, <2>2
  <2>4. PICK g : g = Executed(calls[n], f)
    OBVIOUS
  <2>5. After(calls, ledger, n) = g
    BY <2>1, <2>2, <2>4, AfterOne
  <2>6. /\ DOMAIN g = AccountIds /\ g[PoolAccount] = f[PoolAccount]
        /\ \A m \in Mints \ {calls[n].mint} : SameMint(m, g, f)
    BY <2>1, <2>3, <2>4, OtherMint DEF SameMint
  <2>7. SameMint(calls[n].mint, g, Executed(calls[n], ledger))
    <3>1. SameMint(calls[n].mint, f, ledger)
      BY <2>1, <2>3
    <3>2. QED
      BY <2>1, <2>3, <2>4, <3>1, SameMintExecuted
  <2>8. ASSUME NEW i \in 1..n PROVE SameMint(calls[i].mint, g, Executed(calls[i], ledger))
    <3>1. CASE i = n
      BY <2>7, <3>1
    <3>2. CASE i # n
      <4>1. i \in 1..(n - 1) /\ i \in 1..Len(calls)
        BY <2>1, <3>2
      <4>2. SameMint(calls[i].mint, f, Executed(calls[i], ledger))
        BY <2>3, <4>1
      <4>3. SameMint(calls[i].mint, g, f)
        BY <2>1, <2>6, <3>2, <4>1
      <4>4. QED
        BY <4>2, <4>3 DEF SameMint
    <3>3. QED
      BY <3>1, <3>2
  <2>9. ASSUME NEW m \in Mints, \A i \in 1..n : calls[i].mint # m PROVE SameMint(m, g, ledger)
    <3>1. SameMint(m, f, ledger) /\ SameMint(m, g, f)
      BY <2>1, <2>3, <2>6, <2>9
    <3>2. QED
      BY <3>1 DEF SameMint
  <2>10. ASSUME NEW i \in 1..Len(calls), i > n
         PROVE  Accepted(calls[i], g) <=> Accepted(calls[i], ledger)
    <3>1. Accepted(calls[i], g) <=> Accepted(calls[i], f)
      BY <2>1, <2>3, <2>4, <2>10, OtherMintAccepted
    <3>2. QED
      BY <2>1, <2>3, <2>10, <3>1
  <2>11. QED
    BY <2>3, <2>5, <2>6, <2>8, <2>9, <2>10
<1> HIDE DEF Holds
<1>3. Len(calls) \in 0..3
  BY DEF GoodCalls
<1>4. Holds(k)
  <2>1. 1 \in 1..Len(calls) => Holds(1)
    BY <1>1, <1>2
  <2>2. 2 \in 1..Len(calls) => Holds(2)
    BY <1>2, <1>3, <2>1
  <2>3. 3 \in 1..Len(calls) => Holds(3)
    BY <1>2, <1>3, <2>2
  <2>4. k = 0 \/ (k \in {1, 2, 3} /\ k \in 1..Len(calls))
    BY <1>3, UpToThree
  <2>5. QED
    BY <1>1, <2>1, <2>2, <2>3, <2>4
<1>5. QED
  BY <1>4 DEF Holds

LEMMA AfterIsLedger ==
  ASSUME NEW calls, GoodCalls(calls, AccountIds), NEW ledger, IsLedger(ledger),
         NEW k \in 0..Len(calls),
         \A i \in 1..k : Accepted(calls[i], After(calls, ledger, i - 1))
  PROVE  IsLedger(After(calls, ledger, k))
<1> DEFINE Fine(n) == IsLedger(After(calls, ledger, n))
<1>1. /\ Len(calls) \in 0..3 /\ k \in 0..3
      /\ \A i \in 1..k : i \in 1..Len(calls) /\ i \in 1..3
  <2>1. Len(calls) \in 0..3
    BY DEF GoodCalls
  <2>2. ASSUME NEW i \in 1..k PROVE i \in 1..Len(calls)
    <3>1. k \in Int /\ Len(calls) \in Int /\ k <= Len(calls)
      BY <2>1
    <3>2. QED
      BY <3>1
  <2>3. QED
    BY <2>1, <2>2, OneToThree, UpToThree
<1>2. \A i \in 1..Len(calls) : GoodCall(calls[i], AccountIds)
  BY DEF GoodCalls
<1>3. ASSUME NEW n \in 1..k, Fine(n - 1) PROVE Fine(n)
  <2>1. n \in 1..3 /\ n \in 1..Len(calls)
    BY <1>1
  <2>2. After(calls, ledger, n) = Executed(calls[n], After(calls, ledger, n - 1))
    BY <2>1, AfterOne
  <2>3. GoodCall(calls[n], AccountIds)
    BY <1>2, <2>1
  <2>4. Accepted(calls[n], After(calls, ledger, n - 1))
    OBVIOUS
  <2>5. QED
    BY <1>3, <2>2, <2>3, <2>4, ExecutedIsLedger
<1>4. Fine(0)
  BY AfterOne
<1> HIDE DEF Fine
<1>5. 1 \in 1..k => Fine(1)
  BY <1>3, <1>4
<1>6. 2 \in 1..k => Fine(2)
  BY <1>1, <1>3, <1>5
<1>7. 3 \in 1..k => Fine(3)
  BY <1>1, <1>3, <1>6
<1>8. k = 0 \/ (k \in {1, 2, 3} /\ k \in 1..k)
  BY <1>1
<1>9. Fine(k)
  BY <1>4, <1>5, <1>6, <1>7, <1>8
<1>10. QED
  BY <1>9 DEF Fine

LEMMA LockedAccounts ==
  ASSUME NEW u \in Users, NEW r \in Requests(u)
  PROVE  /\ Locked(u, r) \subseteq AccountIds
         /\ PoolAccount \in Locked(u, r) <=> r.op \notin TokenProgramOps
<1>1. u \in Holders /\ Vault \in Holders /\ "LP" \in Mints /\ Tokens \subseteq Mints
  BY DEF Holders, Mints
<1>2. r.op = "Transfer" => r.mint \in Mints /\ r.to \in Holders
  BY RequestFields, DexTransactionAssumption
<1>3. r.op = "Burn" => r.mint \in Mints
  BY RequestFields, DexTransactionAssumption
<1>4. \A t, h : TokenAccount(t, h) # PoolAccount
  BY AccountsDiffer
<1>5. \A m \in Mints : Mint(m) # PoolAccount
  BY AccountsDiffer
<1>6. Writes(u, r) \subseteq AccountIds
  BY <1>1, <1>2, <1>3, RequestFields
     DEF Writes, AccountIds, TokensAndVaults, ShareAccounts
<1>7. Reads(r) \subseteq AccountIds
  BY <1>1, RequestFields DEF Reads, AccountIds
<1>8. CASE r.op \in {"Transfer", "Burn"}
  BY <1>2, <1>3, <1>4, <1>5, <1>6, <1>7, <1>8 DEF Locked, Writes, Reads, TokenProgramOps
<1>9. CASE r.op \notin {"Transfer", "Burn"}
  <2>1. PoolAccount \in Locked(u, r)
    BY <1>9, RequestFields DEF Locked, Writes, Reads
  <2>2. QED
    BY <1>6, <1>7, <1>9, <2>1 DEF Locked, TokenProgramOps
<1>10. QED
  BY <1>8, <1>9

(* The calls of a transaction are of different mints.                      *)
LEMMA CallsHaveMints ==
  ASSUME NEW u \in Users, NEW r \in Requests(u), NEW pool, Handled(pool, r)
  PROVE  GoodCalls(Calls(u, pool, r), Locked(u, r))
<1> DEFINE calls == Calls(u, pool, r)
<1> SUFFICES \A i, j \in 1..Len(calls) : i # j => calls[i].mint # calls[j].mint
  BY CallsAreGood DEF GoodCalls
<1>1. CASE r.op = "AddLiquidity"
  BY <1>1 DEF Calls, AddCalls, Call
<1>2. CASE r.op = "RemoveLiquidity"
  BY <1>2 DEF Calls, RemoveCalls, Call
<1>3. CASE r.op = "Swap"
  BY <1>3, RequestFields DEF Calls, SwapCalls, Call, Other, Tokens
<1>4. CASE r.op \in {"Transfer", "Burn"}
  BY <1>4 DEF Calls, Call
<1>5. CASE r.op \in {"InitializePool", "GetPoolInfo"}
  BY <1>5 DEF Calls
<1>6. QED
  BY <1>1, <1>2, <1>3, <1>4, <1>5, RequestFields

(* The pool a handler serialises is a pool.                                *)
LEMMA UpdatedIsPool ==
  ASSUME NEW u \in Users, NEW r \in Requests(u), NEW pool \in Pools,
         ~Overflows(Updated(pool, r))
  PROVE  Updated(pool, r) \in Pools
<1> DEFINE new == Updated(pool, r)
<1>1. /\ pool = [data_len |-> pool.data_len, is_initialized |-> pool.is_initialized,
                 reserve |-> pool.reserve, lp_supply |-> pool.lp_supply,
                 fee_numerator |-> pool.fee_numerator,
                 fee_denominator |-> pool.fee_denominator]
      /\ pool.data_len \in DataLens /\ pool.is_initialized \in BOOLEAN
      /\ pool.reserve \in [Tokens -> U64]
      /\ pool.lp_supply \in U64 /\ pool.fee_numerator \in U64 /\ pool.fee_denominator \in U64
  BY DEF Pools
<1>2. new.lp_supply \in U64 /\ \A t \in Tokens : new.reserve[t] \in U64
  BY DEF Overflows
<1> HIDE DEF new
<1>3. CASE r.op = "InitializePool"
  <2>1. new = [data_len |-> pool.data_len, is_initialized |-> TRUE,
               reserve |-> [t \in Tokens |-> 0], lp_supply |-> 0,
               fee_numerator |-> r.fee[1], fee_denominator |-> r.fee[2]]
    BY <1>3 DEF new, Updated, InitUpdate, NewPool
  <2>2. r.fee[1] \in U64 /\ r.fee[2] \in U64
    BY <1>3, RequestFields, DexTransactionAssumption
  <2>3. 0 \in U64
    BY MaxU64Assumption DEF U64
  <2>4. QED
    BY <1>1, <2>1, <2>2, <2>3 DEF Pools, new
<1>4. CASE r.op \in {"AddLiquidity", "RemoveLiquidity", "Swap"}
  <2>1. /\ new = [data_len |-> pool.data_len, is_initialized |-> pool.is_initialized,
                  reserve |-> new.reserve, lp_supply |-> new.lp_supply,
                  fee_numerator |-> pool.fee_numerator,
                  fee_denominator |-> pool.fee_denominator]
        /\ new.reserve = [t \in Tokens |-> new.reserve[t]]
    <3>1. CASE r.op = "AddLiquidity"
      <4>1. new = AddUpdate(pool, r)
        BY <3>1 DEF new, Updated
      <4>2. QED
        BY <1>1, <4>1 DEF AddUpdate
    <3>2. CASE r.op = "RemoveLiquidity"
      <4>1. new = RemoveUpdate(pool, r)
        BY <3>2 DEF new, Updated
      <4>2. QED
        BY <1>1, <4>1 DEF RemoveUpdate
    <3>3. CASE r.op = "Swap"
      <4>1. new = SwapUpdate(pool, r)
        BY <3>3 DEF new, Updated
      <4>2. QED
        BY <1>1, <4>1 DEF SwapUpdate
    <3>4. QED
      BY <1>4, <3>1, <3>2, <3>3
  <2>2. QED
    BY <1>1, <1>2, <2>1 DEF Pools, new
<1>5. CASE r.op \in {"GetPoolInfo", "Transfer", "Burn"}
  BY <1>5 DEF Updated, new
<1>6. QED
  BY <1>3, <1>4, <1>5, RequestFields DEF new

-----------------------------------------------------------------------------
(* The invariant is inductive.                                             *)

LEMMA InitIInv == Init => IInv
<1> SUFFICES ASSUME Init PROVE IInv
  OBVIOUS
<1>1. PICK len \in DataLens :
        chain = [id \in AccountIds |->
                   IF id = PoolAccount THEN NewPool(len)
                   ELSE IF id \in {Mint(t) : t \in Tokens} THEN NumUsers * Endowment
                   ELSE IF id \in {TokenAccount(t, u) : t \in Tokens, u \in Users}
                        THEN Endowment ELSE 0]
  BY DEF Init
<1>2. NumUsers * Endowment \in U64 /\ Endowment \in U64 /\ 0 \in U64
  <2>1. NumUsers \in Nat /\ Endowment \in Nat /\ MaxU64 \in Nat
    BY MaxU64Assumption, DexTransactionAssumption DEF U64
  <2>2. NumUsers * Endowment \in Nat
    BY <2>1
  <2>3. QED
    BY <2>1, <2>2, DexTransactionAssumption DEF U64
<1>3. PoolAccount \in AccountIds
  BY DEF AccountIds
<1>4. chain[PoolAccount] \in Pools
  BY <1>1, <1>2, <1>3 DEF NewPool, Pools
<1>5. \A id \in AccountIds \ {PoolAccount} : chain[id] \in U64
  BY <1>1, <1>2
<1>6. HasAccounts(chain)
  BY <1>1 DEF HasAccounts
<1>7. Running = {} /\ tx = [u \in Users |-> tx[u]]
  BY DEF Init, Running
<1>8. QED
  BY <1>4, <1>5, <1>6, <1>7 DEF IInv, LedgerOK

(* What is said of a transaction depends on the accounts it locked.        *)
LEMMA TxLocal ==
  ASSUME NEW v \in Users, NEW x, NEW ledger, TxOK(v, x, ledger),
         NEW later, \A id \in Locked(v, x.req) : later[id] = ledger[id]
  PROVE  TxOK(v, x, later)
<1>1. x.req \in Requests(v)
  BY DEF TxOK
<1>2. Loaded(v, x.req, later) = Loaded(v, x.req, ledger)
  BY DEF Loaded, Part
<1>3. x.req.op \notin TokenProgramOps => later[PoolAccount] = ledger[PoolAccount]
  BY <1>1, LockedAccounts
<1>4. HasLoaded(v, x, ledger) => HasLoaded(v, x, later)
  BY <1>2 DEF HasLoaded
<1>5. HasChecked(x, ledger) => HasChecked(x, later)
  BY <1>3 DEF HasChecked
<1>6. \A k \in 0..3 : HasCalled(v, x, ledger, k) => HasCalled(v, x, later, k)
  BY <1>2 DEF HasCalled
<1>7. QED
  BY <1>4, <1>5, <1>6 DEF TxOK

(* One transaction moves on; the others are left alone.                    *)
LEMMA OthersKeepInv ==
  ASSUME IInv, NEW u \in Users, NEW x, tx' = [tx EXCEPT ![u] = x],
         LedgerOK',
         \A v \in Running \ {u} : \A id \in Locked(v, tx[v].req) : chain'[id] = chain[id],
         \/ x = Idle
         \/ /\ TxOK(u, x, chain')
            /\ \A v \in Running \ {u} : /\ Apart(u, x.req, v, tx[v].req)
                                        /\ Apart(v, tx[v].req, u, x.req)
  PROVE  IInv'
<1>1. tx = [v \in Users |-> tx[v]]
  BY DEF IInv
<1>2. /\ tx' = [v \in Users |-> tx'[v]]
      /\ tx'[u] = x /\ \A v \in Users \ {u} : tx'[v] = tx[v]
  BY <1>1
<1>3. Running' \subseteq Running \cup {u} /\ Running' \subseteq Users
      /\ (u \in Running' => x # Idle)
  BY <1>2 DEF Running
<1>4. ASSUME NEW v \in Running' PROVE TxOK(v, tx'[v], chain')
  <2>1. CASE v = u
    BY <1>2, <1>3, <2>1
  <2>2. CASE v # u
    <3>1. v \in Running /\ v \in Users /\ tx'[v] = tx[v]
      BY <1>2, <1>3, <2>2
    <3>2. TxOK(v, tx[v], chain)
      BY <3>1 DEF IInv
    <3>3. \A id \in Locked(v, tx[v].req) : chain'[id] = chain[id]
      BY <2>2, <3>1
    <3>4. QED
      BY <3>1, <3>2, <3>3, TxLocal
  <2>3. QED
    BY <2>1, <2>2
<1>5. ASSUME NEW v \in Running', NEW w \in Running', v # w
      PROVE  Apart(v, tx'[v].req, w, tx'[w].req)
  <2>1. CASE v = u
    BY <1>2, <1>3, <1>5, <2>1
  <2>2. CASE w = u
    BY <1>2, <1>3, <1>5, <2>2
  <2>3. CASE v # u /\ w # u
    <3>1. v \in Running /\ w \in Running /\ tx'[v] = tx[v] /\ tx'[w] = tx[w]
      BY <1>2, <1>3, <2>3
    <3>2. QED
      BY <1>5, <3>1 DEF IInv
  <2>4. QED
    BY <2>1, <2>2, <2>3
<1>6. QED
  BY <1>2, <1>4, <1>5 DEF IInv

LEMMA BeginKeepsInv ==
  ASSUME IInv, NEW u \in Users, NEW r \in Requests(u), Begin(u, r)
  PROVE  IInv'
<1> DEFINE x == [phase |-> "loaded", req |-> r, calls |-> << >>,
                 copies |-> [id \in Writes(u, r) \cup Reads(r) |-> chain[id]],
                 pool |-> NewPool(0)]
<1>1. /\ tx' = [tx EXCEPT ![u] = x] /\ chain' = chain /\ tx[u] = Idle
      /\ \A v \in Running : ~Conflict(u, r, v)
  BY DEF Begin
<1>2. TxOK(u, x, chain')
  <2>1. /\ x.phase = "loaded" /\ x.req = r /\ x.calls = << >>
        /\ x.copies = [id \in Writes(u, r) \cup Reads(r) |-> chain[id]]
        /\ x.pool = NewPool(0) /\ IsTx(x)
    BY DEF IsTx
  <2> HIDE DEF x
  <2>2. QED
    BY <1>1, <2>1 DEF TxOK, HasLoaded, Loaded, Part, Locked
<1>3. x.req = r
  OBVIOUS
<1> HIDE DEF x
<1>4. LedgerOK'
  BY <1>1 DEF IInv, LedgerOK
<1>5. ASSUME NEW v \in Running \ {u}
      PROVE  Apart(u, r, v, tx[v].req) /\ Apart(v, tx[v].req, u, r)
  BY <1>1 DEF Conflict, Apart, Locked
<1>6. QED
  BY <1>1, <1>2, <1>3, <1>4, <1>5, OthersKeepInv

LEMMA AbortKeepsInv ==
  ASSUME IInv, NEW u \in Users, NEW error, Abort(u, error)
  PROVE  IInv'
<1>1. tx' = [tx EXCEPT ![u] = Idle] /\ chain' = chain
  BY DEF Abort, Returns
<1>2. LedgerOK'
  BY <1>1 DEF IInv, LedgerOK
<1>3. QED
  BY <1>1, <1>2, OthersKeepInv

(* What a running transaction is, by its phase.                            *)
LEMMA RunningTx ==
  ASSUME IInv, NEW u \in Running
  PROVE  /\ u \in Users /\ tx = [v \in Users |-> tx[v]] /\ TxOK(u, tx[u], chain)
         /\ tx[u].req \in Requests(u)
         /\ tx[u] = [phase |-> tx[u].phase, req |-> tx[u].req, calls |-> tx[u].calls,
                     copies |-> tx[u].copies, pool |-> tx[u].pool]
         /\ tx[u].phase = "loaded" => HasLoaded(u, tx[u], chain)
         /\ tx[u].phase = "calling" =>
              HasChecked(tx[u], chain) /\ \E k \in 0..3 : HasCalled(u, tx[u], chain, k)
BY DEF IInv, Running, TxOK, IsTx, HasLoaded

LEMMA PoolIsPool ==
  ASSUME IInv
  PROVE  chain[PoolAccount] \in Pools /\ PoolAccount \in AccountIds /\ IsLedger(chain)
<1>1. PoolAccount \in AccountIds
  BY DEF AccountIds
<1>2. QED
  BY <1>1 DEF IInv, LedgerOK, IsLedger

(* A transaction that checked deserialised the ledger's pool.              *)
LEMMA CheckedHandles ==
  ASSUME IInv, NEW x, HasChecked(x, chain)
  PROVE  Handled(x.pool, x.req)
BY PoolIsPool DEF HasChecked, Handled

LEMMA RunChecksKeepsInv ==
  ASSUME IInv, NEW u \in Running, RunChecks(u)
  PROVE  IInv'
<1> DEFINE r      == tx[u].req
           pool   == IF r.op \in TokenProgramOps THEN tx[u].pool ELSE tx[u].copies[PoolAccount]
           checks == IF r.op \in TokenProgramOps THEN << >> ELSE EarlyChecks(pool, r)
           x      == [phase |-> "calling", req |-> r, calls |-> Calls(u, pool, r),
                      copies |-> tx[u].copies, pool |-> pool]
<1>1. /\ u \in Users /\ r \in Requests(u) /\ HasLoaded(u, tx[u], chain)
      /\ tx = [v \in Users |-> tx[v]]
      /\ tx[u] = [phase |-> tx[u].phase, req |-> tx[u].req, calls |-> tx[u].calls,
                  copies |-> tx[u].copies, pool |-> tx[u].pool]
  BY RunningTx DEF RunChecks
<1>2. CASE Abort(u, checks[FirstFailed(checks)])
  BY <1>1, <1>2, AbortKeepsInv
<1>3. CASE /\ Passes(checks)
           /\ tx' = [tx EXCEPT ![u].phase = "calling", ![u].pool = pool,
                               ![u].calls = Calls(u, pool, r)]
           /\ UNCHANGED <<chain, result>>
  <2>1. tx' = [tx EXCEPT ![u] = x] /\ chain' = chain
    <3>1. IsTx(tx[u])
      BY <1>1 DEF IsTx
    <3>2. PICK old, b, c : old = tx[u] /\ b = pool /\ c = Calls(u, pool, r)
      OBVIOUS
    <3>3. PICK y : y = [old EXCEPT !.phase = "calling"]
      OBVIOUS
    <3>4. PICK z : z = [y EXCEPT !.pool = b]
      OBVIOUS
    <3>5. x = [z EXCEPT !.calls = c]
      <4>1. y = [phase |-> "calling", req |-> old.req, calls |-> old.calls,
                 copies |-> old.copies, pool |-> old.pool]
        BY <3>1, <3>2, <3>3 DEF IsTx
      <4>2. z = [phase |-> "calling", req |-> old.req, calls |-> old.calls,
                 copies |-> old.copies, pool |-> b]
        BY <3>4, <4>1
      <4>3. x = [phase |-> "calling", req |-> old.req, calls |-> c,
                 copies |-> old.copies, pool |-> b]
        BY <3>2
      <4> HIDE DEF x, pool
      <4>4. QED
        BY <4>2, <4>3
    <3> HIDE DEF x, pool
    <3>6. tx' = [tx EXCEPT ![u] = [z EXCEPT !.calls = c]]
      BY <1>3, <3>2, <3>3, <3>4
    <3>7. QED
      BY <1>3, <3>5, <3>6
  <2>2. IF r.op \in TokenProgramOps THEN pool = NewPool(0) ELSE pool = chain[PoolAccount]
    BY <1>1, LockedAccounts DEF HasLoaded, Loaded, Part
  <2>3. /\ x.phase = "calling" /\ x.req = r /\ x.calls = Calls(u, pool, r)
        /\ x.copies = Loaded(u, r, chain) /\ x.pool = pool /\ IsTx(x)
    BY <1>1 DEF IsTx, HasLoaded
  <2>4. r.op \notin TokenProgramOps => Passes(EarlyChecks(pool, r))
    BY <1>3
  <2> HIDE DEF x, pool
  <2>5. HasChecked(x, chain)
    BY <2>2, <2>3, <2>4 DEF HasChecked
  <2>6. GoodCalls(x.calls, Locked(u, r))
    BY <1>1, <2>3, <2>5, CheckedHandles, CallsHaveMints
  <2>7. HasCalled(u, x, chain, 0)
    <3>1. x.calls \in Seq(AnyCall) /\ Len(x.calls) \in 0..3 /\ 0 \in 0..Len(x.calls)
      BY <2>6 DEF GoodCalls
    <3>2. After(x.calls, Loaded(u, r, chain), 0) = Loaded(u, r, chain)
      BY AfterOne
    <3>3. QED
      BY <2>3, <3>1, <3>2 DEF HasCalled
  <2>8. TxOK(u, x, chain')
    BY <1>1, <2>1, <2>3, <2>5, <2>7 DEF TxOK
  <2>9. LedgerOK'
    BY <2>1 DEF IInv, LedgerOK
  <2>10. ASSUME NEW v \in Running \ {u}
         PROVE  Apart(u, x.req, v, tx[v].req) /\ Apart(v, tx[v].req, u, x.req)
    BY <2>3 DEF IInv
  <2>11. QED
    BY <1>1, <2>1, <2>8, <2>9, <2>10, OthersKeepInv
<1>4. QED
  BY <1>2, <1>3 DEF RunChecks

(* The calls a running transaction has made and has yet to make.           *)
LEMMA CallingTx ==
  ASSUME IInv, NEW u \in Running, tx[u].phase = "calling"
  PROVE  LET x      == tx[u]
             calls  == Calls(u, x.pool, x.req)
             copies == Loaded(u, x.req, chain)
         IN  /\ HasChecked(x, chain)
             /\ GoodCalls(calls, Locked(u, x.req)) /\ GoodCalls(calls, AccountIds)
             /\ Locked(u, x.req) \subseteq AccountIds
             /\ Len(calls) \in 0..3
             /\ x.calls \in Seq(AnyCall)
             /\ \E k \in 0..Len(calls) :
                  /\ Len(x.calls) = Len(calls) - k
                  /\ \A i \in 1..Len(x.calls) : x.calls[i] = calls[k + i]
                  /\ x.copies = After(calls, copies, k)
                  /\ \A i \in 1..k : Accepted(calls[i], After(calls, copies, i - 1))
<1> DEFINE x      == tx[u]
           calls  == Calls(u, x.pool, x.req)
<1>1. /\ u \in Users /\ x.req \in Requests(u) /\ HasChecked(x, chain)
      /\ \E k \in 0..3 : HasCalled(u, x, chain, k)
  BY RunningTx
<1>2. GoodCalls(calls, Locked(u, x.req)) /\ Locked(u, x.req) \subseteq AccountIds
  BY <1>1, CheckedHandles, CallsHaveMints, LockedAccounts
<1>3. GoodCalls(calls, AccountIds) /\ Len(calls) \in 0..3
  BY <1>2, GoodCallsWider DEF GoodCalls
<1> HIDE DEF calls
<1>4. QED
  BY <1>1, <1>2, <1>3 DEF HasCalled, calls

LEMMA InvokeKeepsInv ==
  ASSUME IInv, NEW u \in Running, Invoke(u)
  PROVE  IInv'
<1> DEFINE r      == tx[u].req
           calls  == Calls(u, tx[u].pool, r)
           copies == Loaded(u, r, chain)
           call   == Head(tx[u].calls)
           x      == [phase |-> "calling", req |-> r, calls |-> Tail(tx[u].calls),
                      copies |-> Executed(call, tx[u].copies), pool |-> tx[u].pool]
<1>1. /\ u \in Users /\ r \in Requests(u) /\ tx[u].phase = "calling" /\ tx[u].calls # << >>
      /\ tx = [v \in Users |-> tx[v]]
      /\ tx[u] = [phase |-> tx[u].phase, req |-> tx[u].req, calls |-> tx[u].calls,
                  copies |-> tx[u].copies, pool |-> tx[u].pool]
  BY RunningTx DEF Invoke
<1>2. CASE FailedCall(u)
  BY <1>1, <1>2, AbortKeepsInv DEF FailedCall
<1>3. CASE /\ Accepted(call, tx[u].copies)
           /\ tx' = [tx EXCEPT ![u].copies = Executed(call, @), ![u].calls = Tail(@)]
           /\ UNCHANGED <<chain, result>>
  <2>1. tx' = [tx EXCEPT ![u] = x] /\ chain' = chain
    <3>1. IsTx(tx[u])
      BY <1>1 DEF IsTx
    <3>2. PICK old, b, c :
            old = tx[u] /\ b = Executed(call, tx[u].copies) /\ c = Tail(tx[u].calls)
      OBVIOUS
    <3>3. PICK w : w = [old EXCEPT !.copies = b]
      OBVIOUS
    <3>4. x = [w EXCEPT !.calls = c]
      <4>1. w = [phase |-> "calling", req |-> old.req, calls |-> old.calls,
                 copies |-> b, pool |-> old.pool]
        BY <1>1, <3>1, <3>2, <3>3 DEF IsTx
      <4>2. x = [phase |-> "calling", req |-> old.req, calls |-> c,
                 copies |-> b, pool |-> old.pool]
        BY <3>2
      <4> HIDE DEF x, call
      <4>3. QED
        BY <4>1, <4>2
    <3> HIDE DEF x, call
    <3>5. tx' = [tx EXCEPT ![u] = [w EXCEPT !.calls = c]]
      BY <1>1, <1>3, <3>2, <3>3
    <3>6. QED
      BY <1>3, <3>4, <3>5
  <2>2. /\ x.phase = "calling" /\ x.req = r /\ x.calls = Tail(tx[u].calls)
        /\ x.copies = Executed(call, tx[u].copies) /\ x.pool = tx[u].pool /\ IsTx(x)
    BY DEF IsTx
  <2> HIDE DEF x
  <2>3. /\ HasChecked(tx[u], chain) /\ GoodCalls(calls, Locked(u, r))
        /\ Len(calls) \in 0..3 /\ tx[u].calls \in Seq(AnyCall)
    BY <1>1, CallingTx
  <2>4. PICK k \in 0..Len(calls) :
          /\ Len(tx[u].calls) = Len(calls) - k
          /\ \A i \in 1..Len(tx[u].calls) : tx[u].calls[i] = calls[k + i]
          /\ tx[u].copies = After(calls, copies, k)
          /\ \A i \in 1..k : Accepted(calls[i], After(calls, copies, i - 1))
    BY <1>1, CallingTx
  <2> HIDE DEF r, calls, copies
  <2>5. PICK n \in 0..3 : n = Len(calls)
    BY <2>3
  <2>6. PICK s \in Seq(AnyCall) : s = tx[u].calls
    BY <2>3
  <2>7. /\ s # << >> /\ Len(s) = n - k /\ k \in 0..n
        /\ \A i \in 1..Len(s) : s[i] = calls[k + i]
    BY <1>1, <2>4, <2>5, <2>6
  <2>8. Len(s) >= 1 /\ k \in Nat /\ k + 1 \in 1..n /\ k + 1 \in 0..3
    <3>1. Len(s) \in Nat /\ Len(s) # 0
      BY <2>7
    <3>2. k \in Nat /\ n \in Nat /\ n <= 3
      BY <2>5, <2>7
    <3>3. QED
      BY <2>7, <3>1, <3>2
  <2>9. Head(s) = calls[k + 1]
    <3>1. 1 \in 1..Len(s)
      BY <2>8
    <3>2. Head(s) = s[1]
      BY <2>7
    <3>3. QED
      BY <2>7, <3>1, <3>2
  <2>10. /\ Tail(s) \in Seq(AnyCall) /\ Len(Tail(s)) = n - (k + 1)
         /\ \A i \in 1..Len(Tail(s)) : Tail(s)[i] = calls[(k + 1) + i]
    <3>1. Tail(s) \in Seq(AnyCall) /\ Len(Tail(s)) = Len(s) - 1
      BY <2>7
    <3>2. Len(Tail(s)) = n - (k + 1)
      BY <2>5, <2>7, <2>8, <3>1
    <3>3. ASSUME NEW i \in 1..Len(Tail(s)) PROVE Tail(s)[i] = calls[(k + 1) + i]
      <4>1. i \in Nat /\ i + 1 \in 1..Len(s)
        BY <2>8, <3>1
      <4>2. Tail(s)[i] = s[i + 1]
        BY <2>7, <3>1, <3>3
      <4>3. k + (i + 1) = (k + 1) + i
        BY <2>8, <4>1
      <4>4. QED
        BY <2>7, <4>1, <4>2, <4>3
    <3>4. QED
      BY <3>1, <3>2, <3>3
  <2>11. call = calls[k + 1]
    BY <2>6, <2>9
  <2>12. x.copies = After(calls, copies, k + 1)
    <3>1. k + 1 \in 1..3 /\ (k + 1) - 1 = k
      BY <2>8
    <3>2. After(calls, copies, k + 1) = Executed(calls[k + 1], After(calls, copies, k))
      BY <3>1, AfterOne
    <3>3. QED
      BY <2>2, <2>4, <2>11, <3>2
  <2> HIDE DEF call
  <2>13. ASSUME NEW i \in 1..(k + 1) PROVE Accepted(calls[i], After(calls, copies, i - 1))
    <3>1. CASE i = k + 1
      <4>1. i - 1 = k
        BY <2>8, <3>1
      <4>2. Accepted(call, After(calls, copies, k))
        BY <1>3, <2>4
      <4>3. QED
        BY <2>11, <3>1, <4>1, <4>2
    <3>2. CASE i # k + 1
      <4>1. i \in 1..k
        BY <2>8, <3>2
      <4>2. QED
        BY <2>4, <4>1
    <3>3. QED
      BY <3>1, <3>2
  <2>14. HasCalled(u, x, chain, k + 1)
    <3>1. k + 1 \in 0..Len(calls)
      BY <2>5, <2>8
    <3>2. QED
      BY <2>2, <2>5, <2>6, <2>10, <2>12, <2>13, <3>1 DEF HasCalled, calls, copies
  <2>15. HasChecked(x, chain)
    BY <2>2, <2>3 DEF HasChecked, r
  <2>16. TxOK(u, x, chain')
    BY <1>1, <2>1, <2>2, <2>8, <2>14, <2>15 DEF TxOK
  <2>17. LedgerOK'
    BY <2>1 DEF IInv, LedgerOK
  <2>18. ASSUME NEW v \in Running \ {u}
         PROVE  Apart(u, x.req, v, tx[v].req) /\ Apart(v, tx[v].req, u, x.req)
    BY <2>2 DEF IInv, r
  <2>19. QED
    BY <1>1, <2>1, <2>16, <2>17, <2>18, OthersKeepInv
<1>4. QED
  BY <1>2, <1>3 DEF Invoke

(* Calls that were made were accepted, whatever the order.                 *)
LEMMA CallsWereAccepted ==
  ASSUME NEW locked, locked \subseteq AccountIds, NEW calls, GoodCalls(calls, locked),
         NEW ledger, HasAccounts(ledger),
         NEW copies, copies = Part(locked, ledger),
         NEW i \in 1..Len(calls)
  PROVE  /\ Accepted(calls[i], After(calls, copies, i - 1)) <=> Accepted(calls[i], ledger)
         /\ Accepted(calls[i], After(calls, ledger, i - 1)) <=> Accepted(calls[i], ledger)
<1>1. GoodCalls(calls, AccountIds) /\ DOMAIN ledger = AccountIds
  BY GoodCallsWider DEF HasAccounts
<1>2. i - 1 \in 0..Len(calls) /\ i > i - 1
  BY DEF GoodCalls
<1>3. Accepted(calls[i], After(calls, ledger, i - 1)) <=> Accepted(calls[i], ledger)
  BY <1>1, <1>2, AfterByMint
<1>4. Accepted(calls[i], After(calls, copies, i - 1))
        <=> Accepted(calls[i], After(calls, ledger, i - 1))
  BY AfterOver
<1>5. QED
  BY <1>3, <1>4

(* What a transaction that ends well leaves on the ledger: the effect of   *)
(* each of its calls, all of them accepted, and its update of the pool.    *)
LEMMA FinishLedger ==
  ASSUME IInv, NEW u \in Running, Finish(u),
         ~Overflows(Updated(tx[u].pool, tx[u].req))
  PROVE  LET r     == tx[u].req
             calls == Calls(u, tx[u].pool, r)
         IN  /\ LedgerOK'
             /\ \A id \in AccountIds \ Writes(u, r) : chain'[id] = chain[id]
             /\ chain'[PoolAccount] = IF r.op \in TokenProgramOps THEN chain[PoolAccount]
                                      ELSE Updated(chain[PoolAccount], r)
             /\ \A i \in 1..Len(calls) : /\ Accepted(calls[i], chain)
                                         /\ SameMint(calls[i].mint, chain', Executed(calls[i], chain))
             /\ \A m \in Mints : (\A i \in 1..Len(calls) : calls[i].mint # m)
                                    => SameMint(m, chain', chain)
<1> DEFINE r      == tx[u].req
           calls  == Calls(u, tx[u].pool, r)
           n      == Len(calls)
           copies == Loaded(u, r, chain)
           after  == After(calls, chain, n)
<1>1. /\ u \in Users /\ r \in Requests(u) /\ tx[u].phase = "calling" /\ tx[u].calls = << >>
      /\ chain' = [id \in AccountIds |->
                     IF id \in Writes(u, r)
                     THEN [i \in DOMAIN tx[u].copies |->
                             IF i = PoolAccount THEN Updated(tx[u].pool, r)
                             ELSE tx[u].copies[i]][id]
                     ELSE chain[id]]
  BY RunningTx DEF Finish
<1>2. /\ HasChecked(tx[u], chain) /\ GoodCalls(calls, Locked(u, r))
      /\ GoodCalls(calls, AccountIds) /\ Locked(u, r) \subseteq AccountIds
      /\ n \in 0..3
  BY <1>1, CallingTx
<1>3. /\ tx[u].copies = After(calls, copies, n)
      /\ \A i \in 1..n : Accepted(calls[i], After(calls, copies, i - 1))
  <2>1. PICK k \in 0..n :
          /\ Len(tx[u].calls) = n - k
          /\ tx[u].copies = After(calls, copies, k)
          /\ \A i \in 1..k : Accepted(calls[i], After(calls, copies, i - 1))
    BY <1>1, CallingTx
  <2>2. k = n
    <3>1. Len(tx[u].calls) = 0
      BY <1>1
    <3> HIDE DEF n
    <3>2. k \in Nat /\ n \in Nat
      BY <1>2
    <3>3. QED
      BY <2>1, <3>1, <3>2
  <2>3. QED
    BY <2>1, <2>2
<1>4. /\ HasAccounts(chain) /\ IsLedger(chain)
      /\ DOMAIN chain = AccountIds /\ PoolAccount \in AccountIds
      /\ chain[PoolAccount] \in Pools
  BY PoolIsPool DEF IInv, LedgerOK, HasAccounts
<1>5. copies = Part(Locked(u, r), chain)
  BY DEF Loaded
<1>6. n \in 0..n
  <2> HIDE DEF n
  <2>1. QED
    BY <1>2
<1>7. \A i \in 1..n : Accepted(calls[i], chain) /\ Accepted(calls[i], After(calls, chain, i - 1))
  <2> HIDE DEF calls, copies
  <2>1. QED
    BY <1>2, <1>3, <1>4, <1>5, CallsWereAccepted
<1> HIDE DEF n, calls, copies
<1>8. Over(tx[u].copies, chain) = after /\ DOMAIN tx[u].copies = Locked(u, r)
  BY <1>2, <1>3, <1>4, <1>5, <1>6, AfterOver, SMTT(30) DEF n
<1>9. IsLedger(after)
  BY <1>2, <1>4, <1>6, <1>7, AfterIsLedger DEF n
<1>10. /\ DOMAIN after = AccountIds /\ after[PoolAccount] = chain[PoolAccount]
       /\ \A i \in 1..n : SameMint(calls[i].mint, after, Executed(calls[i], chain))
       /\ \A m \in Mints : (\A i \in 1..n : calls[i].mint # m) => SameMint(m, after, chain)
  BY <1>2, <1>4, <1>6, AfterByMint DEF n
<1> HIDE DEF after
<1>11. ASSUME NEW id \in AccountIds \ {PoolAccount}
       PROVE  chain'[id] = after[id]
  <2>1. CASE id \in Writes(u, r)
    <3>1. id \in DOMAIN tx[u].copies
      BY <1>8, <2>1 DEF Locked
    <3>2. chain'[id] = tx[u].copies[id]
      BY <1>1, <1>11, <2>1, <3>1
    <3>3. Over(tx[u].copies, chain)[id] = tx[u].copies[id]
      BY <1>11, <3>1 DEF Over
    <3>4. QED
      BY <1>8, <3>2, <3>3
  <2>2. CASE id \notin Writes(u, r)
    <3>1. chain'[id] = chain[id]
      BY <1>1, <1>11, <2>2
    <3>2. CASE id \in Reads(r)
      <4>1. r.op \in {"InitializePool", "GetPoolInfo"}
        BY <1>1, <3>2, RequestFields DEF Reads
      <4>2. calls = << >>
        BY <4>1 DEF calls, Calls
      <4>3. n = 0
        BY <4>2 DEF n
      <4>4. after = chain
        BY <4>3, AfterOne DEF after
      <4>5. QED
        BY <3>1, <4>4
    <3>3. CASE id \notin Reads(r)
      <4>1. Over(tx[u].copies, chain)[id] = chain[id]
        BY <1>8, <1>11, <2>2, <3>3 DEF Over, Locked
      <4>2. QED
        BY <1>8, <3>1, <4>1
    <3>4. QED
      BY <3>2, <3>3
  <2>3. QED
    BY <2>1, <2>2
<1>12. chain'[PoolAccount] = IF r.op \in TokenProgramOps THEN chain[PoolAccount]
                             ELSE Updated(chain[PoolAccount], r)
  <2>1. CASE r.op \in TokenProgramOps
    <3>1. PoolAccount \notin Writes(u, r)
      BY <1>1, <2>1, LockedAccounts DEF Locked
    <3>2. QED
      BY <1>1, <1>4, <2>1, <3>1
  <2>2. CASE r.op \notin TokenProgramOps
    <3>1. tx[u].pool = chain[PoolAccount]
      BY <1>2, <2>2 DEF HasChecked
    <3>2. CASE PoolAccount \in Writes(u, r)
      <4>1. PoolAccount \in DOMAIN tx[u].copies
        BY <1>8, <3>2 DEF Locked
      <4>2. chain'[PoolAccount] = Updated(tx[u].pool, r)
        BY <1>1, <1>4, <3>2, <4>1
      <4>3. QED
        BY <2>2, <3>1, <4>2
    <3>3. CASE PoolAccount \notin Writes(u, r)
      <4>1. r.op = "GetPoolInfo"
        BY <1>1, <2>2, <3>3, RequestFields DEF Writes, TokenProgramOps
      <4>2. Updated(chain[PoolAccount], r) = chain[PoolAccount]
        BY <4>1 DEF Updated
      <4>3. chain'[PoolAccount] = chain[PoolAccount]
        BY <1>1, <1>4, <3>3
      <4>4. QED
        BY <2>2, <4>2, <4>3
    <3>4. QED
      BY <3>2, <3>3
  <2>3. QED
    BY <2>1, <2>2
<1>13. \A m \in Mints : SameMint(m, chain', after)
  BY <1>11, AccountsDiffer DEF SameMint, AccountIds
<1>14. /\ \A i \in 1..n : SameMint(calls[i].mint, chain', Executed(calls[i], chain))
       /\ \A m \in Mints : (\A i \in 1..n : calls[i].mint # m) => SameMint(m, chain', chain)
  <2>1. \A i \in 1..n : calls[i].mint \in Mints
    BY <1>2 DEF GoodCalls, GoodCall, AnyCall, n
  <2>2. QED
    BY <1>10, <1>13, <2>1 DEF SameMint
<1>15. chain'[PoolAccount] \in Pools
  <2>1. CASE r.op \in TokenProgramOps
    BY <1>4, <1>12, <2>1
  <2>2. CASE r.op \notin TokenProgramOps
    <3>1. tx[u].pool = chain[PoolAccount]
      BY <1>2, <2>2 DEF HasChecked
    <3>2. QED
      BY <1>1, <1>4, <1>12, <2>2, <3>1, UpdatedIsPool
  <2>3. QED
    BY <2>1, <2>2
<1>16. LedgerOK'
  <2>1. HasAccounts(chain')
    BY <1>1 DEF HasAccounts
  <2>2. \A id \in AccountIds \ {PoolAccount} : chain'[id] \in U64
    BY <1>9, <1>11 DEF IsLedger
  <2>3. QED
    BY <1>15, <2>1, <2>2 DEF LedgerOK
<1>17. \A id \in AccountIds \ Writes(u, r) : chain'[id] = chain[id]
  BY <1>1
<1>18. QED
  BY <1>7, <1>12, <1>14, <1>16, <1>17 DEF n, calls

LEMMA FinishKeepsInv ==
  ASSUME IInv, NEW u \in Running, Finish(u)
  PROVE  IInv'
<1>1. u \in Users /\ tx[u].req \in Requests(u)
  BY RunningTx
<1>2. CASE Overflows(Updated(tx[u].pool, tx[u].req))
  BY <1>1, <1>2, AbortKeepsInv DEF Finish
<1>3. CASE ~Overflows(Updated(tx[u].pool, tx[u].req))
  <2>1. tx' = [tx EXCEPT ![u] = Idle]
    BY <1>3 DEF Finish, Returns
  <2>2. LedgerOK' /\ \A id \in AccountIds \ Writes(u, tx[u].req) : chain'[id] = chain[id]
    BY <1>3, FinishLedger
  <2>3. ASSUME NEW v \in Running \ {u}, NEW id \in Locked(v, tx[v].req)
        PROVE  chain'[id] = chain[id]
    <3>1. Apart(u, tx[u].req, v, tx[v].req)
      BY DEF IInv
    <3>2. id \notin Writes(u, tx[u].req)
      BY <2>3, <3>1 DEF Apart
    <3>3. id \in AccountIds
      BY <2>3, RunningTx, LockedAccounts
    <3>4. QED
      BY <2>2, <3>2, <3>3
  <2>4. QED
    BY <1>1, <2>1, <2>2, <2>3, OthersKeepInv
<1>4. QED
  BY <1>2, <1>3

LEMMA StepIInv ==
  ASSUME IInv, [Next]_vars
  PROVE  IInv'
<1>1. CASE UNCHANGED vars
  BY <1>1 DEF vars, IInv, LedgerOK, Running
<1>2. CASE Next
  BY <1>2, BeginKeepsInv, RunChecksKeepsInv, InvokeKeepsInv, FinishKeepsInv DEF Next, Step
<1>3. QED
  BY <1>1, <1>2

(* The inductive invariant: what a running transaction has read, and the   *)
(* copies its calls have left, agree with the ledger, because nobody else  *)
(* can write the accounts it holds.                                        *)
THEOREM DexTransactionInvariant == Spec => []IInv
<1>1. IInv /\ [Next]_vars => IInv'
  BY StepIInv
<1>2. QED
  BY InitIInv, <1>1, PTL DEF Spec

-----------------------------------------------------------------------------
(* The ledger holds amounts and one pool; a transaction has copies of what *)
(* it locked, and nothing else.                                            *)
THEOREM DexTransactionTypeOK == Spec => []TypeOK
<1>1. ASSUME IInv PROVE TypeOK
  <2>1. DOMAIN chain = AccountIds /\ chain[PoolAccount] \in Pools
        /\ \A id \in AccountIds \ {PoolAccount} : chain[id] \in U64
    BY <1>1 DEF IInv, LedgerOK, HasAccounts
  <2>2. ASSUME NEW u \in Running
        PROVE  /\ tx[u].phase \in {"loaded", "calling"}
               /\ tx[u].req \in Requests(u)
               /\ DOMAIN tx[u].copies = Locked(u, tx[u].req)
               /\ \A id \in DOMAIN tx[u].copies \ {PoolAccount} : tx[u].copies[id] \in U64
    <3> DEFINE r == tx[u].req
    <3>1. /\ u \in Users /\ r \in Requests(u) /\ Locked(u, r) \subseteq AccountIds
          /\ IsLedger(chain) /\ HasAccounts(chain)
          /\ Loaded(u, r, chain) = Part(Locked(u, r), chain)
          /\ DOMAIN Loaded(u, r, chain) = Locked(u, r)
          /\ \A id \in Locked(u, r) : Loaded(u, r, chain)[id] = chain[id]
      BY <1>1, RunningTx, LockedAccounts, PoolIsPool DEF IInv, LedgerOK, Loaded, Part
    <3>2. CASE HasLoaded(u, tx[u], chain)
      BY <2>1, <3>1, <3>2 DEF HasLoaded
    <3>3. CASE tx[u].phase = "calling"
      <4> DEFINE calls  == Calls(u, tx[u].pool, r)
                 copies == Loaded(u, r, chain)
      <4>1. /\ GoodCalls(calls, Locked(u, r)) /\ GoodCalls(calls, AccountIds)
            /\ Len(calls) \in 0..3
        BY <1>1, <3>3, CallingTx
      <4>2. PICK k \in 0..Len(calls) :
              /\ tx[u].copies = After(calls, copies, k)
              /\ \A i \in 1..k : Accepted(calls[i], After(calls, copies, i - 1))
        BY <1>1, <3>3, CallingTx
      <4> HIDE DEF calls, copies
      <4>3. /\ Over(After(calls, copies, k), chain) = After(calls, chain, k)
            /\ DOMAIN After(calls, copies, k) = Locked(u, r)
        BY <3>1, <4>1, <4>2, AfterOver DEF copies
      <4>4. PICK n \in 0..3 : n = Len(calls)
        BY <4>1
      <4>5. \A i \in 1..k : i \in 1..n
        BY <4>2, <4>4
      <4>6. \A i \in 1..k : Accepted(calls[i], After(calls, chain, i - 1))
        BY <3>1, <4>1, <4>2, <4>4, <4>5, CallsWereAccepted DEF copies
      <4>7. IsLedger(After(calls, chain, k))
        BY <3>1, <4>1, <4>2, <4>6, AfterIsLedger
      <4>8. \A id \in Locked(u, r) \ {PoolAccount} : tx[u].copies[id] \in U64
        BY <3>1, <4>2, <4>3, <4>7 DEF IsLedger, Over
      <4>9. QED
        BY <3>1, <3>3, <4>2, <4>3, <4>8
    <3>4. QED
      BY <1>1, <3>2, <3>3, RunningTx DEF TxOK
  <2>3. QED
    BY <2>1, <2>2 DEF TypeOK, Locked
<1>2. QED
  BY <1>1, DexTransactionInvariant, PTL

(* A handler never writes back, nor reports, a pool that another           *)
(* transaction has changed since it read it.                               *)
THEOREM DexTransactionReadsAreCurrent == Spec => []ReadsAreCurrent
<1>1. IInv => ReadsAreCurrent
  BY RunningTx DEF ReadsAreCurrent, HasChecked
<1>2. QED
  BY <1>1, DexTransactionInvariant, PTL

-----------------------------------------------------------------------------
(* What DexPool makes of the ledger, under the mapping of Native.          *)

LEMMA NativeNames ==
  /\ Native!Tokens = Tokens /\ Native!Mints = Mints /\ Native!Users = Users
  /\ Native!Accounts = Holders /\ Native!Vault = Vault /\ Native!POOL_SIZE = POOL_SIZE
  /\ Native!None = None /\ Native!U64 = U64 /\ Native!MaxU128 = MaxU128
BY DEF Native!Tokens, Tokens, Native!Mints, Mints, Native!Users, Users, Native!Accounts,
       Holders, Native!Vault, Vault, Native!POOL_SIZE, POOL_SIZE, Native!None, None,
       Native!U64, U64, Native!MaxU128, MaxU128

LEMMA NativeChecks ==
  /\ \A fails, error : Native!Check(fails, error) = Check(fails, error)
  /\ \A checks : Native!Passes(checks) <=> Passes(checks)
  /\ \A checks : Native!FirstFailed(checks) = FirstFailed(checks)
BY DEF Native!Check, Check, Native!Passes, Passes, Native!Failed, Failed,
       Native!FirstFailed, FirstFailed

LEMMA NativeRemoval ==
  ASSUME NEW lp, NEW r, NEW S
  PROVE  Native!RemovalAmount(lp, r, S) = RemovalAmount(lp, r, S)
BY DEF Native!RemovalAmount, RemovalAmount, Native!CheckedDiv, CheckedDiv,
       Native!ToU64, ToU64, Native!None, None

LEMMA NativeShares ==
  ASSUME NEW a, NEW b, NEW ra, NEW rb, NEW S
  PROVE  Native!CalculateLpTokens(a, b, ra, rb, S) = CalculateLpTokens(a, b, ra, rb, S)
<1>1. \A v : Native!ToU64(v) = ToU64(v)
  BY DEF Native!ToU64, ToU64, Native!None, None
<1>2. \A v : Native!IntegerSqrt(v) = IntegerSqrt(v)
  BY DEF Native!IntegerSqrt, IntegerSqrt, Native!IsSqrt, IsSqrt
<1>3. \A m, n : Native!Smaller(m, n) = Smaller(m, n)
  BY DEF Native!Smaller, Smaller
<1>4. \A m, n, k : Native!ProportionalShare(m, n, k) = ProportionalShare(m, n, k)
  BY DEF Native!ProportionalShare, ProportionalShare, Native!CheckedDiv, CheckedDiv
<1>5. QED
  BY <1>1, <1>2, <1>3, <1>4
     DEF Native!CalculateLpTokens, CalculateLpTokens, Native!None, None

LEMMA NativeOutput ==
  ASSUME NEW a, NEW rin, NEW rout, NEW fn, NEW fd
  PROVE  Native!SwapOutput(a, rin, rout, fn, fd) = SwapOutput(a, rin, rout, fn, fd)
<1>1. \A v : Native!ToU64(v) = ToU64(v)
  BY DEF Native!ToU64, ToU64, Native!None, None
<1>2. QED
  BY <1>1 DEF Native!SwapOutput, SwapOutput, Native!FeeFactor, FeeFactor,
       Native!SwapNumerator, SwapNumerator, Native!SwapDenominator, SwapDenominator,
       Native!CheckedDiv, CheckedDiv, Native!None, None, Native!MaxU128, MaxU128

(* The checks of DexPool's instruction: the early checks, then whether     *)
(* each call is accepted, then whether the update overflows.               *)
FullChecks(u, r) ==
  CASE r.op = "InitializePool"  -> Native!InitChecks(r.fee[1], r.fee[2], r.derived)
    [] r.op = "AddLiquidity"    -> Native!AddChecks(u, r.a, r.b, r.min)
    [] r.op = "RemoveLiquidity" -> Native!RemoveChecks(u, r.lp, r.min_a, r.min_b)
    [] r.op = "Swap"            -> Native!SwapChecks(u, r.n, r.min, r.tin)
    [] r.op = "GetPoolInfo"     -> Native!InfoChecks

(* e early checks, n calls.                                                *)
Table(u, r, e, n) ==
  LET full  == FullChecks(u, r)
      pool  == chain[PoolAccount]
      early == EarlyChecks(pool, r)
      calls == Calls(u, pool, r)
  IN  /\ e \in Nat /\ n \in 0..3 /\ Len(calls) = n
      /\ DOMAIN early = 1..e
      /\ DOMAIN full = IF n = 0 THEN 1..e ELSE 1..(e + n + 1)
      /\ \A i \in 1..e : full[i] = early[i]
      /\ Passes(early) =>
           /\ \A j \in 1..n : full[e + j] = Check(~Accepted(calls[j], chain), "TokenError")
           /\ IF n = 0 THEN ~Overflows(Updated(pool, r))
              ELSE full[e + n + 1] = Check(Overflows(Updated(pool, r)), "Overflow")

LEMMA PoolFields ==
  ASSUME IInv
  PROVE  LET pool == chain[PoolAccount]
         IN  /\ pool \in Pools /\ pool.reserve \in [Tokens -> U64]
             /\ pool.reserve["A"] \in U64 /\ pool.reserve["B"] \in U64
             /\ pool.lp_supply \in U64 /\ U64 \subseteq Nat
             /\ "A" \in Tokens /\ "B" \in Tokens /\ Tokens = {"A", "B"}
BY PoolIsPool, Numbers DEF Pools, Tokens

(* The pools that the handlers serialise, field by field.                  *)
LEMMA PoolRecord ==
  ASSUME NEW pool \in Pools
  PROVE  /\ pool = [data_len |-> pool.data_len, is_initialized |-> pool.is_initialized,
                    reserve |-> pool.reserve, lp_supply |-> pool.lp_supply,
                    fee_numerator |-> pool.fee_numerator,
                    fee_denominator |-> pool.fee_denominator]
         /\ pool.reserve \in [Tokens -> U64] /\ "A" \in Tokens /\ "B" \in Tokens
BY DEF Pools, Tokens

LEMMA AddUpdateFields ==
  ASSUME NEW pool \in Pools, NEW r
  PROVE  LET new == AddUpdate(pool, r)
         IN  /\ new.data_len = pool.data_len /\ new.is_initialized = pool.is_initialized
             /\ new.reserve = [pool.reserve EXCEPT !["A"] = @ + r.a, !["B"] = @ + r.b]
             /\ new.lp_supply = pool.lp_supply + LpTokens(pool, r)
             /\ new.fee_numerator = pool.fee_numerator
             /\ new.fee_denominator = pool.fee_denominator
<1> PICK old : old = pool
  OBVIOUS
<1>1. /\ old = [data_len |-> old.data_len, is_initialized |-> old.is_initialized,
                reserve |-> old.reserve, lp_supply |-> old.lp_supply,
                fee_numerator |-> old.fee_numerator, fee_denominator |-> old.fee_denominator]
  BY PoolRecord
<1>2. QED
  BY <1>1 DEF AddUpdate

LEMMA RemoveUpdateFields ==
  ASSUME NEW pool \in Pools, NEW r
  PROVE  LET new == RemoveUpdate(pool, r)
         IN  /\ new.data_len = pool.data_len /\ new.is_initialized = pool.is_initialized
             /\ new.reserve = [t \in Tokens |-> pool.reserve[t] - Removal(pool, r, t)]
             /\ new.lp_supply = pool.lp_supply - r.lp
             /\ new.fee_numerator = pool.fee_numerator
             /\ new.fee_denominator = pool.fee_denominator
<1> PICK old : old = pool
  OBVIOUS
<1>1. /\ old = [data_len |-> old.data_len, is_initialized |-> old.is_initialized,
                reserve |-> old.reserve, lp_supply |-> old.lp_supply,
                fee_numerator |-> old.fee_numerator, fee_denominator |-> old.fee_denominator]
  BY PoolRecord
<1>2. QED
  BY <1>1 DEF RemoveUpdate

LEMMA SwapUpdateFields ==
  ASSUME NEW pool \in Pools, NEW r, r.tin \in Tokens
  PROVE  LET new == SwapUpdate(pool, r)
         IN  /\ new.data_len = pool.data_len /\ new.is_initialized = pool.is_initialized
             /\ new.reserve = [t \in Tokens |-> IF t = r.tin THEN pool.reserve[t] + r.n
                                               ELSE pool.reserve[t] - AmountOut(pool, r)]
             /\ new.lp_supply = pool.lp_supply
             /\ new.fee_numerator = pool.fee_numerator
             /\ new.fee_denominator = pool.fee_denominator
<1> PICK old : old = pool
  OBVIOUS
<1>1. /\ old = [data_len |-> old.data_len, is_initialized |-> old.is_initialized,
                reserve |-> old.reserve, lp_supply |-> old.lp_supply,
                fee_numerator |-> old.fee_numerator, fee_denominator |-> old.fee_denominator]
      /\ old.reserve \in [Tokens -> U64]
  BY PoolRecord
<1> DEFINE new == SwapUpdate(old, r)
<1>2. /\ new.data_len = old.data_len /\ new.is_initialized = old.is_initialized
      /\ new.reserve = [old.reserve EXCEPT ![r.tin] = @ + r.n,
                                           ![Other(r.tin)] = @ - AmountOut(old, r)]
      /\ new.lp_supply = old.lp_supply
      /\ new.fee_numerator = old.fee_numerator /\ new.fee_denominator = old.fee_denominator
  BY <1>1 DEF SwapUpdate
<1>3. Other(r.tin) # r.tin /\ \A t \in Tokens : t # r.tin => t = Other(r.tin)
  BY DEF Other, Tokens
<1> HIDE DEF new
<1>4. new.reserve = [t \in Tokens |-> IF t = r.tin THEN old.reserve[t] + r.n
                                     ELSE old.reserve[t] - AmountOut(old, r)]
  BY <1>1, <1>2, <1>3
<1>5. QED
  BY <1>2, <1>4 DEF new

(* The token program's tests, in DexPool and here.                         *)
LEMMA NativeTransfers ==
  ASSUME NEW m \in Mints, NEW from \in Holders, NEW to \in Holders, NEW n
  PROVE  Native!CanTransfer(m, from, to, n) <=> Accepted(Call(m, from, to, n), chain)
BY Numbers DEF Native!CanTransfer, Accepted, Call

LEMMA NativeMints ==
  ASSUME NEW m \in Mints, NEW u \in Holders, NEW n
  PROVE  /\ Native!CanMint(m, u, n) <=> Accepted(Call(m, Nobody, u, n), chain)
         /\ Native!CanBurn(m, u, n) <=> Accepted(Call(m, u, Nobody, n), chain)
BY Numbers DEF Native!CanMint, Native!CanBurn, Accepted, Call

LEMMA AddTable ==
  ASSUME IInv, NEW u \in Users, NEW r \in Requests(u), r.op = "AddLiquidity"
  PROVE  Table(u, r, 6, 3)
<1> DEFINE pool  == chain[PoolAccount]
           full  == Native!AddChecks(u, r.a, r.b, r.min)
           early == AddChecks(pool, r)
           calls == AddCalls(u, pool, r)
           lp    == LpTokens(pool, r)
<1>1. FullChecks(u, r) = full /\ EarlyChecks(pool, r) = early /\ Calls(u, pool, r) = calls
  BY DEF FullChecks, EarlyChecks, Calls
<1>2. Native!LpTokens(r.a, r.b) = lp
  BY NativeShares DEF Native!LpTokens, LpTokens
<1>3. DOMAIN early = 1..6 /\ DOMAIN full = 1..10 /\ Len(calls) = 3
  BY DEF AddChecks, Native!AddChecks, AddCalls
<1>4. \A i \in 1..6 : full[i] = early[i]
  <2>1. /\ full[1] = early[1] /\ full[2] = early[2] /\ full[3] = early[3]
        /\ full[4] = early[4] /\ full[5] = early[5] /\ full[6] = early[6]
    BY <1>2 DEF AddChecks, Native!AddChecks, Native!Check, Check, Native!Parses,
                Native!POOL_SIZE, POOL_SIZE, Native!None, None
  <2> HIDE DEF full, early
  <2>2. QED
    BY <2>1
<1>5. ASSUME NEW j \in 1..3
      PROVE  full[6 + j] = Check(~Accepted(calls[j], chain), "TokenError")
  <2>1. u \in Holders /\ Vault \in Holders /\ "A" \in Mints /\ "B" \in Mints /\ "LP" \in Mints
    BY DEF Holders, Mints, Tokens
  <2>2. /\ full[7] = Native!Check(~Native!CanTransfer("A", u, Native!Vault, r.a), "TokenError")
        /\ full[8] = Native!Check(~Native!CanTransfer("B", u, Native!Vault, r.b), "TokenError")
        /\ full[9] = Native!Check(~Native!CanMint("LP", u, lp), "TokenError")
    BY <1>2 DEF Native!AddChecks
  <2>3. /\ calls[1] = Call("A", u, Vault, r.a) /\ calls[2] = Call("B", u, Vault, r.b)
        /\ calls[3] = Call("LP", Nobody, u, lp)
    BY DEF AddCalls
  <2> HIDE DEF full, calls, lp
  <2>4. /\ full[7] = Check(~Accepted(calls[1], chain), "TokenError")
        /\ full[8] = Check(~Accepted(calls[2], chain), "TokenError")
        /\ full[9] = Check(~Accepted(calls[3], chain), "TokenError")
    BY <2>1, <2>2, <2>3, NativeNames, NativeTransfers, NativeMints DEF Native!Check, Check
  <2>5. QED
    BY <2>4
<1>6. ASSUME Passes(early)
      PROVE  full[10] = Check(Overflows(Updated(pool, r)), "Overflow")
  <2>1. lp \in U64 /\ r.a \in U64 /\ r.b \in U64
    <3>1. lp # None
      BY <1>6, AddPassed
    <3>2. r.a \in U64 /\ r.b \in U64
      BY RequestFields, Numbers
    <3>3. QED
      BY <3>1, <3>2, PoolFields, SharesAreAmount DEF LpTokens
  <2>2. full[10] = Native!Check(\/ pool.reserve["A"] + r.a > MaxU64
                                \/ pool.reserve["B"] + r.b > MaxU64
                                \/ pool.lp_supply + lp > MaxU64, "Overflow")
    BY <1>2 DEF Native!AddChecks
  <2>3. Updated(pool, r) = AddUpdate(pool, r)
    BY DEF Updated
  <2> HIDE DEF lp, pool, full
  <2>4. /\ Updated(pool, r).lp_supply = pool.lp_supply + lp
        /\ Updated(pool, r).reserve["A"] = pool.reserve["A"] + r.a
        /\ Updated(pool, r).reserve["B"] = pool.reserve["B"] + r.b
    <3>1. pool \in Pools /\ pool.reserve \in [Tokens -> U64] /\ "A" \in Tokens /\ "B" \in Tokens
      BY PoolFields DEF pool
    <3>2. /\ Updated(pool, r).lp_supply = pool.lp_supply + LpTokens(pool, r)
          /\ Updated(pool, r).reserve
               = [pool.reserve EXCEPT !["A"] = @ + r.a, !["B"] = @ + r.b]
      BY <2>3, <3>1, AddUpdateFields
    <3>3. QED
      BY <3>1, <3>2 DEF lp
  <2>5. Overflows(Updated(pool, r)) <=> \/ pool.reserve["A"] + r.a > MaxU64
                                        \/ pool.reserve["B"] + r.b > MaxU64
                                        \/ pool.lp_supply + lp > MaxU64
    BY <2>1, <2>4, PoolFields, MaxU64Assumption DEF Overflows, pool, U64
  <2>6. QED
    BY <2>2, <2>5 DEF Native!Check, Check
<1> HIDE DEF pool, full, early, calls
<1>7. QED
  BY <1>1, <1>3, <1>4, <1>5, <1>6 DEF Table, pool

LEMMA RemoveTable ==
  ASSUME IInv, NEW u \in Users, NEW r \in Requests(u), r.op = "RemoveLiquidity"
  PROVE  Table(u, r, 5, 3)
<1> DEFINE pool  == chain[PoolAccount]
           full  == Native!RemoveChecks(u, r.lp, r.min_a, r.min_b)
           early == RemoveChecks(pool, r)
           calls == RemoveCalls(u, pool, r)
           out_a == Removal(pool, r, "A")
           out_b == Removal(pool, r, "B")
<1>1. FullChecks(u, r) = full /\ EarlyChecks(pool, r) = early /\ Calls(u, pool, r) = calls
  BY DEF FullChecks, EarlyChecks, Calls
<1>2. Native!Removal("A", r.lp) = out_a /\ Native!Removal("B", r.lp) = out_b
  BY NativeRemoval DEF Native!Removal, Removal
<1>3. DOMAIN early = 1..5 /\ DOMAIN full = 1..9 /\ Len(calls) = 3
  BY DEF RemoveChecks, Native!RemoveChecks, RemoveCalls
<1>4. \A i \in 1..5 : full[i] = early[i]
  <2>1. /\ full[1] = early[1] /\ full[2] = early[2] /\ full[3] = early[3]
        /\ full[5] = early[5]
    BY <1>2 DEF RemoveChecks, Native!RemoveChecks, Native!Check, Check, Native!Parses,
                Native!POOL_SIZE, POOL_SIZE
  <2>2. full[4] = early[4]
    <3>1. full[4] = Native!Check(None \in {out_a, out_b}, "InsufficientLiquidity")
      BY <1>2, NativeNames DEF Native!RemoveChecks
    <3>2. early[4] = Check(\E t \in Tokens : Removal(pool, r, t) = None, "InsufficientLiquidity")
      BY DEF RemoveChecks
    <3>3. None \in {out_a, out_b} <=> \E t \in Tokens : Removal(pool, r, t) = None
      BY DEF Tokens
    <3> HIDE DEF full, early, out_a, out_b, pool
    <3>4. QED
      BY <3>1, <3>2, <3>3 DEF Native!Check, Check
  <2> HIDE DEF full, early
  <2>3. QED
    BY <2>1, <2>2
<1>5. ASSUME NEW j \in 1..3
      PROVE  full[5 + j] = Check(~Accepted(calls[j], chain), "TokenError")
  <2>1. u \in Holders /\ Vault \in Holders /\ "A" \in Mints /\ "B" \in Mints /\ "LP" \in Mints
    BY DEF Holders, Mints, Tokens
  <2>2. /\ full[6] = Native!Check(~Native!CanBurn("LP", u, r.lp), "TokenError")
        /\ full[7] = Native!Check(~Native!CanTransfer("A", Native!Vault, u, out_a), "TokenError")
        /\ full[8] = Native!Check(~Native!CanTransfer("B", Native!Vault, u, out_b), "TokenError")
    BY <1>2 DEF Native!RemoveChecks
  <2>3. /\ calls[1] = Call("LP", u, Nobody, r.lp) /\ calls[2] = Call("A", Vault, u, out_a)
        /\ calls[3] = Call("B", Vault, u, out_b)
    BY DEF RemoveCalls
  <2> HIDE DEF full, calls, out_a, out_b
  <2>4. /\ full[6] = Check(~Accepted(calls[1], chain), "TokenError")
        /\ full[7] = Check(~Accepted(calls[2], chain), "TokenError")
        /\ full[8] = Check(~Accepted(calls[3], chain), "TokenError")
    BY <2>1, <2>2, <2>3, NativeNames, NativeTransfers, NativeMints DEF Native!Check, Check
  <2>5. QED
    BY <2>4
<1>6. ASSUME Passes(early)
      PROVE  full[9] = Check(Overflows(Updated(pool, r)), "Overflow")
  <2>1. out_a \in U64 /\ out_b \in U64 /\ r.lp \in U64
    <3>1. out_a # None /\ out_b # None
      BY <1>6, RemovePassed DEF Tokens
    <3>2. r.lp \in U64
      BY RequestFields, Numbers
    <3>3. QED
      BY <3>1, <3>2, PoolFields, RemovalIsAmount DEF Removal
  <2>2. full[9] = Native!Check(\/ out_a > pool.reserve["A"]
                               \/ out_b > pool.reserve["B"]
                               \/ r.lp > pool.lp_supply, "Overflow")
    BY <1>2 DEF Native!RemoveChecks
  <2>3. Updated(pool, r) = RemoveUpdate(pool, r)
    BY DEF Updated
  <2> HIDE DEF pool, full
  <2>4. /\ Updated(pool, r).lp_supply = pool.lp_supply - r.lp
        /\ Updated(pool, r).reserve["A"] = pool.reserve["A"] - out_a
        /\ Updated(pool, r).reserve["B"] = pool.reserve["B"] - out_b
    <3>1. pool \in Pools /\ "A" \in Tokens /\ "B" \in Tokens
      BY PoolFields DEF pool
    <3>2. /\ Updated(pool, r).lp_supply = pool.lp_supply - r.lp
          /\ Updated(pool, r).reserve
               = [t \in Tokens |-> pool.reserve[t] - Removal(pool, r, t)]
      BY <2>3, <3>1, RemoveUpdateFields
    <3>3. QED
      BY <3>1, <3>2
  <2> HIDE DEF out_a, out_b
  <2>5. Overflows(Updated(pool, r)) <=> \/ out_a > pool.reserve["A"]
                                        \/ out_b > pool.reserve["B"]
                                        \/ r.lp > pool.lp_supply
    BY <2>1, <2>4, PoolFields, MaxU64Assumption DEF Overflows, pool, U64
  <2>6. QED
    BY <2>2, <2>5 DEF Native!Check, Check
<1> HIDE DEF pool, full, early, calls
<1>7. QED
  BY <1>1, <1>3, <1>4, <1>5, <1>6 DEF Table, pool

LEMMA SwapTable ==
  ASSUME IInv, NEW u \in Users, NEW r \in Requests(u), r.op = "Swap"
  PROVE  Table(u, r, 7, 2)
<1> DEFINE pool  == chain[PoolAccount]
           full  == Native!SwapChecks(u, r.n, r.min, r.tin)
           early == SwapChecks(pool, r)
           calls == SwapCalls(u, pool, r)
           out   == AmountOut(pool, r)
           tout  == Other(r.tin)
<1>1. FullChecks(u, r) = full /\ EarlyChecks(pool, r) = early /\ Calls(u, pool, r) = calls
  BY DEF FullChecks, EarlyChecks, Calls
<1>2. Native!AmountOut(r.n, r.tin) = out /\ Native!Other(r.tin) = tout
  BY NativeOutput DEF Native!AmountOut, AmountOut, Native!Other, Other
<1>3. DOMAIN early = 1..7 /\ DOMAIN full = 1..10 /\ Len(calls) = 2
  BY DEF SwapChecks, Native!SwapChecks, SwapCalls
<1>4. \A i \in 1..7 : full[i] = early[i]
  <2>1. /\ full[1] = early[1] /\ full[2] = early[2] /\ full[3] = early[3]
        /\ full[5] = early[5] /\ full[6] = early[6] /\ full[7] = early[7]
    BY <1>2 DEF SwapChecks, Native!SwapChecks, Native!Check, Check, Native!Parses,
                Native!POOL_SIZE, POOL_SIZE, Native!None, None
  <2>2. full[4] = early[4]
    <3>1. full[4] = Native!Check(0 \in {pool.reserve["A"], pool.reserve["B"]},
                                 "InsufficientLiquidity")
      BY DEF Native!SwapChecks
    <3>2. early[4] = Check(\E t \in Tokens : pool.reserve[t] = 0, "InsufficientLiquidity")
      BY DEF SwapChecks
    <3>3. 0 \in {pool.reserve["A"], pool.reserve["B"]} <=> \E t \in Tokens : pool.reserve[t] = 0
      BY DEF Tokens
    <3> HIDE DEF full, early, pool
    <3>4. QED
      BY <3>1, <3>2, <3>3 DEF Native!Check, Check
  <2> HIDE DEF full, early
  <2>3. QED
    BY <2>1, <2>2
<1>5. r.tin \in Tokens /\ tout \in Tokens /\ tout # r.tin /\ r.n \in U64
  BY RequestFields, Numbers DEF Other, Tokens
<1>6. ASSUME NEW j \in 1..2
      PROVE  full[7 + j] = Check(~Accepted(calls[j], chain), "TokenError")
  <2>1. u \in Holders /\ Vault \in Holders /\ r.tin \in Mints /\ tout \in Mints
    BY <1>5 DEF Holders, Mints
  <2>2. /\ full[8] = Native!Check(~Native!CanTransfer(r.tin, u, Native!Vault, r.n), "TokenError")
        /\ full[9] = Native!Check(~Native!CanTransfer(tout, Native!Vault, u, out), "TokenError")
    BY <1>2 DEF Native!SwapChecks
  <2>3. /\ calls[1] = Call(r.tin, u, Vault, r.n) /\ calls[2] = Call(tout, Vault, u, out)
    BY DEF SwapCalls
  <2> HIDE DEF full, calls, out, tout
  <2>4. /\ full[8] = Check(~Accepted(calls[1], chain), "TokenError")
        /\ full[9] = Check(~Accepted(calls[2], chain), "TokenError")
    BY <2>1, <2>2, <2>3, NativeNames, NativeTransfers DEF Native!Check, Check
  <2>5. QED
    BY <2>4
<1>7. ASSUME Passes(early)
      PROVE  full[10] = Check(Overflows(Updated(pool, r)), "Overflow")
  <2>1. out \in U64
    <3>1. out # None
      BY <1>7, SwapPassed
    <3>2. pool.reserve[r.tin] \in U64 /\ pool.reserve[tout] \in U64
          /\ pool.fee_numerator \in U64 /\ pool.fee_denominator \in U64
      BY <1>5, PoolFields DEF Pools
    <3>3. QED
      BY <1>5, <3>1, <3>2, SwapIsAmount DEF AmountOut
  <2>2. full[10] = Native!Check(\/ pool.reserve[r.tin] + r.n > MaxU64
                                \/ out > pool.reserve[tout], "Overflow")
    BY <1>2 DEF Native!SwapChecks
  <2>3. Updated(pool, r) = SwapUpdate(pool, r)
    BY DEF Updated
  <2> HIDE DEF pool, full
  <2>4. pool \in Pools /\ pool.reserve \in [Tokens -> U64] /\ pool.lp_supply \in U64
    BY PoolFields DEF pool
  <2>5. /\ Updated(pool, r).lp_supply = pool.lp_supply
        /\ Updated(pool, r).reserve
             = [t \in Tokens |-> IF t = r.tin THEN pool.reserve[t] + r.n
                                 ELSE pool.reserve[t] - out]
    BY <1>5, <2>3, <2>4, SwapUpdateFields
  <2> HIDE DEF out, tout
  <2>6. /\ Updated(pool, r).reserve[r.tin] = pool.reserve[r.tin] + r.n
        /\ Updated(pool, r).reserve[tout] = pool.reserve[tout] - out
        /\ \A t \in Tokens : t = r.tin \/ t = tout
    <3>1. \A t \in Tokens : t = r.tin \/ t = tout
      BY <1>5 DEF Tokens
    <3>2. QED
      BY <1>5, <2>4, <2>5, <3>1
  <2>7. /\ pool.reserve[r.tin] \in Nat /\ pool.reserve[r.tin] <= MaxU64
        /\ pool.reserve[tout] \in Nat /\ pool.reserve[tout] <= MaxU64
        /\ out \in Nat /\ r.n \in Nat /\ MaxU64 \in Nat
    BY <1>5, <2>1, <2>4, MaxU64Assumption DEF U64
  <2>8. Overflows(Updated(pool, r)) <=> \/ pool.reserve[r.tin] + r.n > MaxU64
                                        \/ out > pool.reserve[tout]
    <3>1. Overflows(Updated(pool, r)) <=> \/ pool.reserve[r.tin] + r.n \notin U64
                                          \/ pool.reserve[tout] - out \notin U64
      BY <1>5, <2>4, <2>5, <2>6 DEF Overflows
    <3>2. QED
      BY <2>7, <3>1 DEF U64
  <2>9. QED
    BY <2>2, <2>8 DEF Native!Check, Check
<1> HIDE DEF pool, full, early, calls
<1>8. QED
  BY <1>1, <1>3, <1>4, <1>6, <1>7 DEF Table, pool

LEMMA InitializeTable ==
  ASSUME IInv, NEW u \in Users, NEW r \in Requests(u), r.op = "InitializePool"
  PROVE  Table(u, r, 4, 0)
<1> DEFINE pool  == chain[PoolAccount]
           full  == Native!InitChecks(r.fee[1], r.fee[2], r.derived)
           early == InitChecks(pool, r)
<1>1. FullChecks(u, r) = full /\ EarlyChecks(pool, r) = early /\ Calls(u, pool, r) = << >>
  BY DEF FullChecks, EarlyChecks, Calls
<1>2. DOMAIN early = 1..4 /\ DOMAIN full = 1..4
  BY DEF InitChecks, Native!InitChecks
<1>3. \A i \in 1..4 : full[i] = early[i]
  <2>1. full[1] = early[1] /\ full[2] = early[2] /\ full[3] = early[3] /\ full[4] = early[4]
    BY DEF InitChecks, Native!InitChecks, Native!Check, Check, Native!DoubleInit,
           Native!Parses, Native!POOL_SIZE, POOL_SIZE
  <2> HIDE DEF full, early
  <2>2. QED
    BY <2>1
<1>4. ~Overflows(Updated(pool, r))
  <2>1. 0 \in U64
    BY MaxU64Assumption DEF U64
  <2>2. Updated(pool, r).lp_supply = 0 /\ Updated(pool, r).reserve = [t \in Tokens |-> 0]
    BY DEF Updated, InitUpdate, NewPool
  <2>3. QED
    BY <2>1, <2>2 DEF Overflows
<1> HIDE DEF pool, full, early
<1>5. QED
  BY <1>1, <1>2, <1>3, <1>4 DEF Table, pool

LEMMA InfoTable ==
  ASSUME IInv, NEW u \in Users, NEW r \in Requests(u), r.op = "GetPoolInfo"
  PROVE  Table(u, r, 2, 0)
<1> DEFINE pool  == chain[PoolAccount]
           full  == Native!InfoChecks
           early == InfoChecks(pool)
<1>1. FullChecks(u, r) = full /\ EarlyChecks(pool, r) = early /\ Calls(u, pool, r) = << >>
  BY DEF FullChecks, EarlyChecks, Calls
<1>2. DOMAIN early = 1..2 /\ DOMAIN full = 1..2
  BY DEF InfoChecks, Native!InfoChecks
<1>3. \A i \in 1..2 : full[i] = early[i]
  <2>1. full[1] = early[1] /\ full[2] = early[2]
    BY DEF InfoChecks, Native!InfoChecks, Native!Check, Check, Native!Parses,
           Native!POOL_SIZE, POOL_SIZE
  <2> HIDE DEF full, early
  <2>2. QED
    BY <2>1
<1>4. ~Overflows(Updated(pool, r))
  <2>1. Updated(pool, r) = pool
    BY DEF Updated
  <2>2. QED
    BY <2>1, PoolFields DEF Overflows
<1> HIDE DEF pool, full, early
<1>5. QED
  BY <1>1, <1>2, <1>3, <1>4 DEF Table, pool

LEMMA EveryTable ==
  ASSUME IInv, NEW u \in Users, NEW r \in Requests(u), r.op \notin TokenProgramOps
  PROVE  \E e \in Nat : \E n \in 0..3 : Table(u, r, e, n)
<1>1. r.op \in {"InitializePool", "AddLiquidity", "RemoveLiquidity", "Swap", "GetPoolInfo"}
  BY RequestFields DEF TokenProgramOps
<1>2. QED
  BY <1>1, AddTable, RemoveTable, SwapTable, InitializeTable, InfoTable

-----------------------------------------------------------------------------
(* A table of checks fails first where all earlier rows pass.              *)
LEMMA FirstIs ==
  ASSUME NEW t, NEW m \in Nat, DOMAIN t = 1..m, NEW k \in 1..m,
         t[k] # "Ok", \A i \in 1..(k - 1) : t[i] = "Ok"
  PROVE  ~Passes(t) /\ FirstFailed(t) = k
<1>1. k \in Failed(t) /\ \A i \in Failed(t) : k <= i
  BY DEF Failed
<1>2. Failed(t) \subseteq Int
  BY DEF Failed
<1>3. \A i \in Failed(t) : (\A j \in Failed(t) : i <= j) => i = k
  <2>1. k \in Int
    OBVIOUS
  <2>2. QED
    BY <1>1, <1>2, <2>1
<1>4. QED
  BY <1>1, <1>3 DEF FirstFailed, Passes

LEMMA FirstExists ==
  ASSUME NEW t, NEW m \in Nat, DOMAIN t = 1..m, ~Passes(t)
  PROVE  \E k \in 1..m : t[k] # "Ok" /\ \A i \in 1..(k - 1) : t[i] = "Ok"
<1>1. Failed(t) \subseteq Nat /\ Failed(t) # {}
  BY DEF Failed, Passes
<1>2. PICK k \in Failed(t) : \A i \in Failed(t) : k <= i
  BY <1>1, LeastNat
<1>3. k \in 1..m /\ t[k] # "Ok"
  BY <1>2 DEF Failed
<1>4. ASSUME NEW i \in 1..(k - 1) PROVE t[i] = "Ok"
  <2>1. i \in 1..m /\ ~(k <= i)
    BY <1>3
  <2>2. QED
    BY <1>2, <2>1 DEF Failed
<1>5. QED
  BY <1>3, <1>4

(* The instruction of DexPool returns what the transaction returns.        *)
LEMMA EarlyIsFirst ==
  ASSUME IInv, NEW u \in Users, NEW r \in Requests(u), r.op \notin TokenProgramOps,
         ~Passes(EarlyChecks(chain[PoolAccount], r))
  PROVE  LET early == EarlyChecks(chain[PoolAccount], r)
             full  == FullChecks(u, r)
         IN  ~Passes(full) /\ full[FirstFailed(full)] = early[FirstFailed(early)]
<1> DEFINE early == EarlyChecks(chain[PoolAccount], r)
           full  == FullChecks(u, r)
<1>1. PICK e \in Nat, n \in 0..3 : Table(u, r, e, n)
  BY EveryTable
<1>2. /\ DOMAIN early = 1..e
      /\ DOMAIN full = IF n = 0 THEN 1..e ELSE 1..(e + n + 1)
      /\ \A i \in 1..e : full[i] = early[i]
  BY <1>1 DEF Table
<1> HIDE DEF early, full
<1>3. PICK k \in 1..e : early[k] # "Ok" /\ \A i \in 1..(k - 1) : early[i] = "Ok"
  BY <1>2, FirstExists DEF early
<1>4. full[k] # "Ok" /\ \A i \in 1..(k - 1) : full[i] = "Ok"
  <2>1. \A i \in 1..(k - 1) : i \in 1..e
    OBVIOUS
  <2>2. QED
    BY <1>2, <1>3, <2>1
<1>5. PICK m \in Nat : DOMAIN full = 1..m /\ k \in 1..m
  <2>1. e + n + 1 \in Nat /\ k \in 1..(e + n + 1)
    OBVIOUS
  <2>2. QED
    BY <1>2, <2>1
<1>6. FirstFailed(early) = k
  BY <1>2, <1>3, FirstIs
<1>7. ~Passes(full) /\ FirstFailed(full) = k
  BY <1>4, <1>5, FirstIs
<1>8. QED
  BY <1>2, <1>3, <1>6, <1>7 DEF early, full

(* Once the early checks pass, the calls decide, then the update.          *)
LEMMA CallsAreNext ==
  ASSUME IInv, NEW u \in Users, NEW r \in Requests(u), r.op \notin TokenProgramOps,
         Passes(EarlyChecks(chain[PoolAccount], r))
  PROVE  LET full  == FullChecks(u, r)
             calls == Calls(u, chain[PoolAccount], r)
             late  == Overflows(Updated(chain[PoolAccount], r))
         IN  /\ \A k \in 1..Len(calls) :
                  (\A i \in 1..(k - 1) : Accepted(calls[i], chain)) /\ ~Accepted(calls[k], chain)
                     => ~Passes(full) /\ full[FirstFailed(full)] = "TokenError"
             /\ (\A i \in 1..Len(calls) : Accepted(calls[i], chain)) /\ late
                  => /\ ~Passes(full) /\ full[FirstFailed(full)] = "Overflow"
                     /\ Failed(full) = {Len(full)}
             /\ (\A i \in 1..Len(calls) : Accepted(calls[i], chain)) /\ ~late => Passes(full)
<1> DEFINE early == EarlyChecks(chain[PoolAccount], r)
           full  == FullChecks(u, r)
           calls == Calls(u, chain[PoolAccount], r)
           late  == Overflows(Updated(chain[PoolAccount], r))
<1>1. PICK e \in Nat, n \in 0..3 : Table(u, r, e, n)
  BY EveryTable
<1>2. /\ Len(calls) = n
      /\ DOMAIN early = 1..e
      /\ DOMAIN full = IF n = 0 THEN 1..e ELSE 1..(e + n + 1)
      /\ \A i \in 1..e : full[i] = early[i]
      /\ \A j \in 1..n : full[e + j] = Check(~Accepted(calls[j], chain), "TokenError")
      /\ IF n = 0 THEN ~late ELSE full[e + n + 1] = Check(late, "Overflow")
  BY <1>1 DEF Table
<1>3. \A i \in 1..e : early[i] = "Ok"
  BY <1>2 DEF Passes, Failed
<1> HIDE DEF early, full, calls, late
<1>4. n \in Nat /\ e + n + 1 \in Nat
  OBVIOUS
<1>5. ASSUME NEW k \in 1..n, \A i \in 1..(k - 1) : Accepted(calls[i], chain)
      PROVE  \A i \in 1..(e + k - 1) : full[i] = "Ok"
  <2> SUFFICES ASSUME NEW i \in 1..(e + k - 1) PROVE full[i] = "Ok"
    OBVIOUS
  <2>1. CASE i \in 1..e
    BY <1>2, <1>3, <2>1
  <2>2. CASE i \notin 1..e
    <3>1. i - e \in 1..(k - 1) /\ i - e \in 1..n /\ e + (i - e) = i
      BY <1>4, <2>2
    <3>2. full[i] = Check(~Accepted(calls[i - e], chain), "TokenError")
      BY <1>2, <3>1
    <3>3. QED
      BY <1>5, <3>1, <3>2 DEF Check
  <2>3. QED
    BY <2>1, <2>2
<1>6. ASSUME NEW k \in 1..n, \A i \in 1..(k - 1) : Accepted(calls[i], chain),
             ~Accepted(calls[k], chain)
      PROVE  ~Passes(full) /\ full[FirstFailed(full)] = "TokenError"
  <2>1. full[e + k] = "TokenError"
    BY <1>2, <1>6 DEF Check
  <2>2. \A i \in 1..((e + k) - 1) : full[i] = "Ok"
    BY <1>5, <1>6
  <2>3. e + k \in 1..(e + n + 1) /\ DOMAIN full = 1..(e + n + 1)
    BY <1>2, <1>4
  <2>4. ~Passes(full) /\ FirstFailed(full) = e + k
    BY <1>4, <2>1, <2>2, <2>3, FirstIs
  <2>5. QED
    BY <2>1, <2>4
<1>7. ASSUME \A i \in 1..n : Accepted(calls[i], chain)
      PROVE  \A i \in 1..(e + n) : full[i] = "Ok"
  <2> SUFFICES ASSUME NEW i \in 1..(e + n) PROVE full[i] = "Ok"
    OBVIOUS
  <2>1. CASE i \in 1..e
    BY <1>2, <1>3, <2>1
  <2>2. CASE i \notin 1..e
    <3>1. i - e \in 1..n /\ e + (i - e) = i
      BY <1>4, <2>2
    <3>2. full[i] = Check(~Accepted(calls[i - e], chain), "TokenError")
      BY <1>2, <3>1
    <3>3. QED
      BY <1>7, <3>1, <3>2 DEF Check
  <2>3. QED
    BY <2>1, <2>2
<1>8. ASSUME \A i \in 1..n : Accepted(calls[i], chain), late
      PROVE  /\ ~Passes(full) /\ full[FirstFailed(full)] = "Overflow"
             /\ Failed(full) = {Len(full)}
  <2>1. DOMAIN full = 1..(e + n + 1) /\ full[e + n + 1] = "Overflow"
    BY <1>2, <1>8 DEF Check
  <2>2. \A i \in 1..((e + n + 1) - 1) : full[i] = "Ok"
    BY <1>4, <1>7, <1>8
  <2>3. e + n + 1 \in 1..(e + n + 1)
    BY <1>4
  <2>4. ~Passes(full) /\ FirstFailed(full) = e + n + 1
    BY <1>4, <2>1, <2>2, <2>3, FirstIs
  <2>5. Len(full) = e + n + 1
    BY <1>4, <2>1
  <2>6. Failed(full) = {e + n + 1}
    <3>1. \A i \in 1..(e + n + 1) : i = e + n + 1 \/ i \in 1..((e + n + 1) - 1)
      BY <1>4
    <3>2. QED
      BY <2>1, <2>2, <2>3, <3>1 DEF Failed
  <2>7. QED
    BY <2>1, <2>4, <2>5, <2>6
<1>9. ASSUME \A i \in 1..n : Accepted(calls[i], chain), ~late
      PROVE  Passes(full)
  <2>1. CASE n = 0
    BY <1>2, <1>3, <2>1 DEF Passes, Failed
  <2>2. CASE n # 0
    <3>1. full[e + n + 1] = "Ok" /\ DOMAIN full = 1..(e + n + 1)
      BY <1>2, <1>9, <2>2 DEF Check
    <3>2. \A i \in 1..(e + n + 1) : i = e + n + 1 \/ i \in 1..(e + n)
      BY <1>4
    <3>3. QED
      BY <1>7, <1>9, <3>1, <3>2 DEF Passes, Failed
  <2>3. QED
    BY <2>1, <2>2
<1>10. QED
  BY <1>2, <1>6, <1>8, <1>9 DEF full, calls, late

-----------------------------------------------------------------------------
(* What DexPool's token program does to the balances, one by one.          *)
Bal(ledger) == [m \in Mints |-> [h \in Holders |-> ledger[TokenAccount(m, h)]]]
Sup(ledger) == [m \in Mints |-> ledger[Mint(m)]]

Balances == [Mints -> [Holders -> Int]]

LEMMA BooksAreInt ==
  ASSUME NEW ledger, \A id \in AccountIds \ {PoolAccount} : ledger[id] \in U64
  PROVE  /\ Bal(ledger) \in Balances /\ Sup(ledger) \in [Mints -> Int]
         /\ \A m \in Mints : Sup(ledger)[m] = ledger[Mint(m)]
         /\ \A m \in Mints, h \in Holders : Bal(ledger)[m][h] = ledger[TokenAccount(m, h)]
<1>1. \A m \in Mints : ledger[Mint(m)] \in Int
  BY AccountsDiffer, Numbers DEF AccountIds
<1>2. \A m \in Mints, h \in Holders : ledger[TokenAccount(m, h)] \in Int
  BY AccountsDiffer, Numbers DEF AccountIds
<1>3. QED
  BY <1>1, <1>2 DEF Bal, Sup, Balances

LEMMA NativeTransferMoves ==
  ASSUME NEW bal \in Balances, NEW m \in Mints, NEW from \in Holders, NEW to \in Holders,
         NEW n \in Int, from # to
  PROVE  LET moved == Native!Transfer(bal, m, from, to, n)
         IN  /\ moved \in Balances
             /\ moved[m][from] = bal[m][from] - n
             /\ moved[m][to] = bal[m][to] + n
             /\ \A h \in Holders \ {from, to} : moved[m][h] = bal[m][h]
             /\ \A k \in Mints \ {m} : moved[k] = bal[k]
<1>1. bal[m] \in [Holders -> Int] /\ bal \in [Mints -> [Holders -> Int]]
  BY DEF Balances
<1> DEFINE row == [bal[m] EXCEPT ![from] = @ - n, ![to] = @ + n]
<1>2. row \in [Holders -> Int]
  BY <1>1
<1>3. /\ row[from] = bal[m][from] - n /\ row[to] = bal[m][to] + n
      /\ \A h \in Holders \ {from, to} : row[h] = bal[m][h]
  BY <1>1
<1>4. Native!Transfer(bal, m, from, to, n) = [bal EXCEPT ![m] = row]
  BY <1>1 DEF Native!Transfer
<1> HIDE DEF row
<1>5. QED
  BY <1>1, <1>2, <1>3, <1>4 DEF Balances

(* Two families of balances are the same if all balances are.              *)
LEMMA SameBalances ==
  ASSUME NEW b \in Balances, NEW c \in Balances,
         \A m \in Mints : \A h \in Holders : b[m][h] = c[m][h]
  PROVE  b = c
<1>1. ASSUME NEW m \in Mints PROVE b[m] = c[m]
  <2>1. b[m] \in [Holders -> Int] /\ c[m] \in [Holders -> Int]
    BY DEF Balances
  <2>2. QED
    BY <2>1
<1>2. QED
  BY <1>1 DEF Balances

LEMMA CallMoves ==
  ASSUME NEW ledger, DOMAIN ledger = AccountIds, NEW later, NEW m \in Mints,
         NEW from \in Holders \cup {Nobody}, NEW to \in Holders \cup {Nobody}, from # to, NEW n,
         SameMint(m, later, Executed(Call(m, from, to, n), ledger))
  PROVE  /\ \A h \in Holders :
              later[TokenAccount(m, h)] = IF h = from THEN ledger[TokenAccount(m, h)] - n
                                          ELSE IF h = to THEN ledger[TokenAccount(m, h)] + n
                                          ELSE ledger[TokenAccount(m, h)]
         /\ later[Mint(m)] = IF from = Nobody THEN ledger[Mint(m)] + n
                             ELSE IF to = Nobody THEN ledger[Mint(m)] - n
                             ELSE ledger[Mint(m)]
<1> DEFINE c == Call(m, from, to, n)
<1>1. c.mint = m /\ c.from = from /\ c.to = to /\ c.n = n
  BY DEF Call
<1> HIDE DEF c
<1>2. ASSUME NEW h \in Holders
      PROVE  Executed(c, ledger)[TokenAccount(m, h)] =
               IF h = from THEN ledger[TokenAccount(m, h)] - n
               ELSE IF h = to THEN ledger[TokenAccount(m, h)] + n
               ELSE ledger[TokenAccount(m, h)]
  <2>1. TokenAccount(m, h) \in AccountIds /\ h \in Int
    BY Numbers DEF AccountIds
  <2>2. /\ TokenAccount(m, h) = TokenAccount(c.mint, c.from) <=> h = from
        /\ TokenAccount(m, h) = TokenAccount(c.mint, c.to) <=> h = to
        /\ TokenAccount(m, h) # Mint(c.mint)
    BY <1>1, <2>1, AccountsDiffer
  <2>3. QED
    BY <1>1, <2>1, <2>2 DEF Executed
<1>3. Executed(c, ledger)[Mint(m)] = IF from = Nobody THEN ledger[Mint(m)] + n
                                     ELSE IF to = Nobody THEN ledger[Mint(m)] - n
                                     ELSE ledger[Mint(m)]
  <2>1. Mint(m) \in AccountIds
    BY DEF AccountIds
  <2>2. /\ Mint(m) # TokenAccount(c.mint, c.from) /\ Mint(m) # TokenAccount(c.mint, c.to)
        /\ Mint(m) = Mint(c.mint)
    BY <1>1, AccountsDiffer, Numbers
  <2>3. QED
    BY <1>1, <2>1, <2>2 DEF Executed
<1>4. QED
  BY <1>2, <1>3 DEF SameMint, c

-----------------------------------------------------------------------------
(* The steps of a transaction as steps of DexPool.                         *)

(* The step of DexPool that a request of the program asks for.             *)
Instruction(u, r) ==
  CASE r.op = "InitializePool"  -> Native!InitializePool(r.fee[1], r.fee[2], r.derived)
    [] r.op = "AddLiquidity"    -> Native!AddLiquidity(u, r.a, r.b, r.min)
    [] r.op = "RemoveLiquidity" -> Native!RemoveLiquidity(u, r.lp, r.min_a, r.min_b)
    [] r.op = "Swap"            -> Native!Swap(u, r.n, r.min, r.tin)
    [] r.op = "GetPoolInfo"     -> Native!GetPoolInfo

LEMMA InstructionIsNext ==
  ASSUME NEW u \in Users, NEW r \in Requests(u), r.op \notin TokenProgramOps,
         Instruction(u, r)
  PROVE  Native!Next
<1>1. CASE r.op = "InitializePool"
  <2>1. Native!InitializePool(r.fee[1], r.fee[2], r.derived) /\ r.fee \in Fees /\ r.derived \in BOOLEAN
    BY <1>1, RequestFields DEF Instruction
  <2>2. QED
    BY <2>1 DEF Native!Next
<1>2. CASE r.op = "AddLiquidity"
  <2>1. /\ Native!AddLiquidity(u, r.a, r.b, r.min)
        /\ r.a \in Amounts /\ r.b \in Amounts /\ r.min \in Minimums /\ u \in Native!Users
    BY <1>2, RequestFields, NativeNames DEF Instruction
  <2>2. QED
    BY <2>1 DEF Native!Next
<1>3. CASE r.op = "RemoveLiquidity"
  <2>1. /\ Native!RemoveLiquidity(u, r.lp, r.min_a, r.min_b)
        /\ r.lp \in Amounts /\ r.min_a \in Minimums /\ r.min_b \in Minimums /\ u \in Native!Users
    BY <1>3, RequestFields, NativeNames DEF Instruction
  <2>2. QED
    BY <2>1 DEF Native!Next
<1>4. CASE r.op = "Swap"
  <2>1. /\ Native!Swap(u, r.n, r.min, r.tin)
        /\ r.n \in Amounts /\ r.min \in Minimums /\ r.tin \in Native!Tokens /\ u \in Native!Users
    BY <1>4, RequestFields, NativeNames DEF Instruction
  <2>2. QED
    BY <2>1 DEF Native!Next
<1>5. CASE r.op = "GetPoolInfo"
  BY <1>5 DEF Native!Next, Instruction
<1>6. QED
  BY <1>1, <1>2, <1>3, <1>4, <1>5, RequestFields DEF TokenProgramOps

LEMMA RejectIsInstruction ==
  ASSUME NEW u \in Users, NEW r \in Requests(u), r.op \notin TokenProgramOps,
         Native!Reject(FullChecks(u, r))
  PROVE  Instruction(u, r)
<1>1. CASE r.op = "InitializePool"
  BY <1>1 DEF FullChecks, Instruction, Native!InitializePool
<1>2. CASE r.op = "AddLiquidity"
  BY <1>2 DEF FullChecks, Instruction, Native!AddLiquidity
<1>3. CASE r.op = "RemoveLiquidity"
  BY <1>3 DEF FullChecks, Instruction, Native!RemoveLiquidity
<1>4. CASE r.op = "Swap"
  BY <1>4 DEF FullChecks, Instruction, Native!Swap
<1>5. CASE r.op = "GetPoolInfo"
  BY <1>5 DEF FullChecks, Instruction, Native!GetPoolInfo
<1>6. QED
  BY <1>1, <1>2, <1>3, <1>4, <1>5, RequestFields DEF TokenProgramOps

LEMMA SameLedger ==
  ASSUME chain' = chain
  PROVE  /\ UNCHANGED <<Native!poolVars, Native!tokenVars>>
         /\ result' = result => UNCHANGED Native!vars
BY DEF Native!poolVars, Native!tokenVars, Native!vars

LEMMA AbortIsReject ==
  ASSUME NEW u \in Users, NEW error, tx[u].req \in Requests(u), Abort(u, error),
         tx[u].req.op \notin TokenProgramOps =>
           LET full == FullChecks(u, tx[u].req)
           IN  ~Passes(full) /\ full[FirstFailed(full)] = error
  PROVE  [Native!Next]_(Native!vars)
<1> DEFINE r == tx[u].req
<1>1. CASE r.op \in TokenProgramOps
  BY <1>1, SameLedger DEF Abort, Returns
<1>2. CASE r.op \notin TokenProgramOps
  <2>1. result' = error /\ chain' = chain
    BY <1>2 DEF Abort, Returns
  <2>2. Native!Reject(FullChecks(u, r))
    BY <1>2, <2>1, SameLedger, NativeChecks DEF Native!Reject
  <2>3. QED
    BY <1>2, <2>2, RejectIsInstruction, InstructionIsNext
<1>3. QED
  BY <1>1, <1>2

-----------------------------------------------------------------------------
(* What some calls of different mints did to the ledger.                   *)
Made(calls) ==
  /\ \A i \in 1..Len(calls) : SameMint(calls[i].mint, chain', Executed(calls[i], chain))
  /\ \A m \in Mints : (\A i \in 1..Len(calls) : calls[i].mint # m) => SameMint(m, chain', chain)

(* A successful end: the checks of DexPool's instruction pass, the calls   *)
(* have had their effect and the updated pool is in the ledger.            *)
Settled(u, r) ==
  /\ IInv /\ LedgerOK'
  /\ Passes(EarlyChecks(chain[PoolAccount], r)) /\ Passes(FullChecks(u, r))
  /\ Made(Calls(u, chain[PoolAccount], r))
  /\ chain'[PoolAccount] = Updated(chain[PoolAccount], r)
  /\ result' = "Ok"

Put(bal, m, h, n) == [bal EXCEPT ![m][h] = n]

LEMMA PutMoves ==
  ASSUME NEW bal \in Balances, NEW m \in Mints, NEW holder \in Holders, NEW n \in Int
  PROVE  LET new == Put(bal, m, holder, n)
         IN  /\ new \in Balances
             /\ new[m][holder] = n
             /\ \A h \in Holders \ {holder} : new[m][h] = bal[m][h]
             /\ \A k \in Mints \ {m} : new[k] = bal[k]
<1>1. bal[m] \in [Holders -> Int] /\ bal \in [Mints -> [Holders -> Int]]
  BY DEF Balances
<1> DEFINE row == [bal[m] EXCEPT ![holder] = n]
<1>2. row \in [Holders -> Int] /\ row[holder] = n /\ \A h \in Holders \ {holder} : row[h] = bal[m][h]
  BY <1>1
<1>3. Put(bal, m, holder, n) = [bal EXCEPT ![m] = row]
  BY <1>1 DEF Put
<1> HIDE DEF row
<1>4. QED
  BY <1>1, <1>2, <1>3 DEF Balances

LEMMA Books ==
  ASSUME LedgerOK, LedgerOK'
  PROVE  /\ DOMAIN chain = AccountIds
         /\ Bal(chain) \in Balances /\ Sup(chain) \in [Mints -> Int]
         /\ Bal(chain)' \in Balances /\ Sup(chain)' \in [Mints -> Int]
         /\ \A m \in Mints : Sup(chain)[m] = chain[Mint(m)] /\ Sup(chain)'[m] = chain'[Mint(m)]
         /\ \A m \in Mints, h \in Holders : /\ Bal(chain)[m][h] = chain[TokenAccount(m, h)]
                                            /\ Bal(chain)'[m][h] = chain'[TokenAccount(m, h)]
<1>1. /\ \A id \in AccountIds \ {PoolAccount} : chain[id] \in U64
      /\ \A id \in AccountIds \ {PoolAccount} : chain'[id] \in U64
      /\ DOMAIN chain = AccountIds
  BY DEF LedgerOK, HasAccounts
<1>2. Bal(chain)' = Bal(chain') /\ Sup(chain)' = Sup(chain')
  BY DEF Bal, Sup
<1>3. QED
  BY <1>1, <1>2, BooksAreInt

LEMMA AddSettles ==
  ASSUME NEW u \in Users, NEW r \in Requests(u), r.op = "AddLiquidity", Settled(u, r)
  PROVE  Instruction(u, r)
<1> DEFINE pool   == chain[PoolAccount]
           na     == r.a
           nb     == r.b
           lp     == LpTokens(pool, r)
           calls  == AddCalls(u, pool, r)
           paid_a == Native!Transfer(Bal(chain), "A", u, Vault, na)
           paid   == Native!Transfer(paid_a, "B", u, Vault, nb)
           sum    == paid["LP"][u] + lp
           all    == Put(paid, "LP", u, sum)
<1>1. /\ lp \in Int /\ na \in Int /\ nb \in Int
      /\ u \in Holders /\ Vault \in Holders /\ u # Vault /\ u # Nobody /\ Vault # Nobody
      /\ "A" \in Mints /\ "B" \in Mints /\ "LP" \in Mints /\ Mints = {"A", "B", "LP"}
      /\ IInv /\ Passes(AddChecks(pool, r))
  <2>1. IInv /\ Passes(AddChecks(pool, r))
    BY DEF Settled, EarlyChecks
  <2>2. r.a \in U64 /\ r.b \in U64
    BY RequestFields, Numbers
  <2>3. lp \in U64
    BY <2>1, <2>2, AddPassed, PoolFields, SharesAreAmount DEF LpTokens
  <2>4. /\ u \in Holders /\ Vault \in Holders /\ u # Vault /\ u # Nobody /\ Vault # Nobody
    BY Numbers DEF Holders
  <2>5. "A" \in Mints /\ "B" \in Mints /\ "LP" \in Mints /\ Mints = {"A", "B", "LP"}
    BY DEF Mints, Tokens
  <2> HIDE DEF lp, pool
  <2>6. lp \in Int
    BY <2>3, Numbers
  <2>7. na \in Int /\ nb \in Int
    <3>1. \A n \in U64 : n \in Int
      BY Numbers
    <3>2. QED
      BY <2>2, <3>1, Zenon
  <2>8. QED
    BY <2>1, <2>4, <2>5, <2>6, <2>7
<1>2. /\ SameMint("A", chain', Executed(Call("A", u, Vault, na), chain))
      /\ SameMint("B", chain', Executed(Call("B", u, Vault, nb), chain))
      /\ SameMint("LP", chain', Executed(Call("LP", Nobody, u, lp), chain))
  <2>1. Made(calls)
    BY DEF Settled, Calls
  <2>2. /\ Len(calls) = 3 /\ calls[1] = Call("A", u, Vault, na)
        /\ calls[2] = Call("B", u, Vault, nb) /\ calls[3] = Call("LP", Nobody, u, lp)
    BY DEF AddCalls
  <2>3. /\ calls[1].mint = "A" /\ calls[2].mint = "B" /\ calls[3].mint = "LP"
    BY <2>2 DEF Call
  <2> HIDE DEF calls, lp
  <2>4. QED
    BY <2>1, <2>2, <2>3 DEF Made
<1> HIDE DEF pool, lp, calls, na, nb
<1>3. Bal(chain)' = all
  <2>1. /\ DOMAIN chain = AccountIds /\ Bal(chain) \in Balances /\ Bal(chain)' \in Balances
        /\ \A m \in Mints, h \in Holders : /\ Bal(chain)[m][h] = chain[TokenAccount(m, h)]
                                           /\ Bal(chain)'[m][h] = chain'[TokenAccount(m, h)]
    BY Books DEF Settled, IInv
  <2>2. /\ paid_a \in Balances
        /\ paid_a["A"][u] = Bal(chain)["A"][u] - na
        /\ paid_a["A"][Vault] = Bal(chain)["A"][Vault] + na
        /\ \A h \in Holders \ {u, Vault} : paid_a["A"][h] = Bal(chain)["A"][h]
        /\ \A k \in Mints \ {"A"} : paid_a[k] = Bal(chain)[k]
    BY <1>1, <2>1, NativeTransferMoves
  <2> HIDE DEF paid_a
  <2>3. /\ paid \in Balances
        /\ paid["B"][u] = paid_a["B"][u] - nb
        /\ paid["B"][Vault] = paid_a["B"][Vault] + nb
        /\ \A h \in Holders \ {u, Vault} : paid["B"][h] = paid_a["B"][h]
        /\ \A k \in Mints \ {"B"} : paid[k] = paid_a[k]
    <3>1. /\ "B" \in Mints /\ u \in Holders /\ Vault \in Holders /\ u # Vault
          /\ nb \in Int /\ paid_a \in Balances
      BY <1>1, <2>2
    <3>2. QED
      BY <3>1, NativeTransferMoves
  <2> HIDE DEF paid
  <2>4. sum \in Int
    BY <1>1, <2>3 DEF Balances
  <2> HIDE DEF sum
  <2>5. /\ all \in Balances
        /\ all["LP"][u] = sum
        /\ \A h \in Holders \ {u} : all["LP"][h] = paid["LP"][h]
        /\ \A k \in Mints \ {"LP"} : all[k] = paid[k]
    <3>1. paid \in Balances /\ "LP" \in Mints /\ u \in Holders
      BY <1>1, <2>3
    <3>2. all = Put(paid, "LP", u, sum)
      OBVIOUS
    <3> HIDE DEF all
    <3>3. all \in Balances
      BY <2>4, <3>1, <3>2, PutMoves
    <3>4. all["LP"][u] = sum
      BY <2>4, <3>1, <3>2, PutMoves
    <3>5. \A h \in Holders \ {u} : all["LP"][h] = paid["LP"][h]
      BY <2>4, <3>1, <3>2, PutMoves
    <3>6. \A k \in Mints \ {"LP"} : all[k] = paid[k]
      BY <2>4, <3>1, <3>2, PutMoves
    <3> QED
      BY <3>3, <3>4, <3>5, <3>6
  <2> HIDE DEF all
  <2>6. ASSUME NEW h \in Holders PROVE Bal(chain)'["A"][h] = all["A"][h]
    <3>1. chain'[TokenAccount("A", h)] = IF h = u THEN chain[TokenAccount("A", h)] - na
                                         ELSE IF h = Vault THEN chain[TokenAccount("A", h)] + na
                                         ELSE chain[TokenAccount("A", h)]
      BY <1>1, <1>2, <2>1, CallMoves
    <3>2. QED
      BY <1>1, <2>1, <2>2, <2>3, <2>5, <3>1
  <2>7. ASSUME NEW h \in Holders PROVE Bal(chain)'["B"][h] = all["B"][h]
    <3>1. chain'[TokenAccount("B", h)] = IF h = u THEN chain[TokenAccount("B", h)] - nb
                                         ELSE IF h = Vault THEN chain[TokenAccount("B", h)] + nb
                                         ELSE chain[TokenAccount("B", h)]
      BY <1>1, <1>2, <2>1, CallMoves
    <3>2. QED
      BY <1>1, <2>1, <2>2, <2>3, <2>5, <3>1
  <2>8. ASSUME NEW h \in Holders PROVE Bal(chain)'["LP"][h] = all["LP"][h]
    <3>1. /\ Nobody \in Holders \cup {Nobody} /\ u \in Holders \cup {Nobody} /\ Nobody # u
          /\ "LP" \in Mints /\ DOMAIN chain = AccountIds
          /\ SameMint("LP", chain', Executed(Call("LP", Nobody, u, lp), chain))
      BY <1>1, <1>2, <2>1
    <3>2. \A g \in Holders :
            chain'[TokenAccount("LP", g)] = IF g = Nobody THEN chain[TokenAccount("LP", g)] - lp
                                            ELSE IF g = u THEN chain[TokenAccount("LP", g)] + lp
                                            ELSE chain[TokenAccount("LP", g)]
      BY <3>1, CallMoves
    <3>3. h # Nobody
      BY Numbers
    <3>4. QED
      BY <1>1, <2>1, <2>2, <2>3, <2>5, <3>2, <3>3 DEF sum
  <2>9. QED
    BY <1>1, <2>1, <2>5, <2>6, <2>7, <2>8, SameBalances
<1>4. Sup(chain)' = [Sup(chain) EXCEPT !["LP"] = @ + lp]
  <2>1. /\ DOMAIN chain = AccountIds /\ Sup(chain) \in [Mints -> Int] /\ Sup(chain)' \in [Mints -> Int]
        /\ \A m \in Mints : Sup(chain)[m] = chain[Mint(m)] /\ Sup(chain)'[m] = chain'[Mint(m)]
    BY Books DEF Settled, IInv
  <2>2. /\ chain'[Mint("A")] = chain[Mint("A")] /\ chain'[Mint("B")] = chain[Mint("B")]
        /\ chain'[Mint("LP")] = chain[Mint("LP")] + lp
    BY <1>1, <1>2, <2>1, CallMoves
  <2>3. QED
    BY <1>1, <2>1, <2>2
<1>5. /\ chain'[PoolAccount].data_len = pool.data_len
      /\ chain'[PoolAccount].is_initialized = pool.is_initialized
      /\ chain'[PoolAccount].reserve = [pool.reserve EXCEPT !["A"] = @ + na, !["B"] = @ + nb]
      /\ chain'[PoolAccount].lp_supply = pool.lp_supply + lp
      /\ chain'[PoolAccount].fee_numerator = pool.fee_numerator
      /\ chain'[PoolAccount].fee_denominator = pool.fee_denominator
  <2>1. chain'[PoolAccount] = AddUpdate(pool, r)
    BY DEF Settled, Updated, pool
  <2>2. pool \in Pools
    BY <1>1, PoolFields DEF pool
  <2>3. QED
    BY <2>1, <2>2, AddUpdateFields DEF lp, na, nb
<1>6. Native!Accept(Native!AddChecks(u, r.a, r.b, r.min))
  BY NativeChecks DEF Settled, FullChecks, Native!Accept
<1>7. Native!LpTokens(r.a, r.b) = lp /\ Native!Vault = Vault
  BY NativeShares, NativeNames DEF Native!LpTokens, LpTokens, lp, pool
<1>8. Native!AddLiquidity(u, r.a, r.b, r.min)
  BY <1>3, <1>4, <1>5, <1>6, <1>7
     DEF Native!AddLiquidity, Native!LpSupplyAfterAdd, Bal, Sup, Put, pool, na, nb
<1>9. QED
  BY <1>8 DEF Instruction

LEMMA RemoveSettles ==
  ASSUME NEW u \in Users, NEW r \in Requests(u), r.op = "RemoveLiquidity", Settled(u, r)
  PROVE  Instruction(u, r)
<1> DEFINE pool   == chain[PoolAccount]
           lp     == r.lp
           na     == Removal(pool, r, "A")
           nb     == Removal(pool, r, "B")
           calls  == RemoveCalls(u, pool, r)
           rest   == Bal(chain)["LP"][u] - lp
           burned == Put(Bal(chain), "LP", u, rest)
           paid_a == Native!Transfer(burned, "A", Vault, u, na)
           all    == Native!Transfer(paid_a, "B", Vault, u, nb)
<1>1. /\ lp \in Int /\ na \in Int /\ nb \in Int
      /\ u \in Holders /\ Vault \in Holders /\ u # Vault /\ u # Nobody /\ Vault # Nobody
      /\ "A" \in Mints /\ "B" \in Mints /\ "LP" \in Mints /\ Mints = {"A", "B", "LP"}
      /\ IInv /\ Passes(RemoveChecks(pool, r))
  <2>1. IInv /\ Passes(RemoveChecks(pool, r))
    BY DEF Settled, EarlyChecks
  <2>2. lp \in U64
    BY RequestFields, Numbers
  <2>3. na \in U64 /\ nb \in U64
    BY <2>1, <2>2, RemovePassed, PoolFields, RemovalIsAmount DEF Removal
  <2>4. /\ u \in Holders /\ Vault \in Holders /\ u # Vault /\ u # Nobody /\ Vault # Nobody
    BY Numbers DEF Holders
  <2>5. "A" \in Mints /\ "B" \in Mints /\ "LP" \in Mints /\ Mints = {"A", "B", "LP"}
    BY DEF Mints, Tokens
  <2> HIDE DEF lp, pool, na, nb
  <2>6. lp \in Int /\ na \in Int /\ nb \in Int
    BY <2>2, <2>3, Numbers
  <2>7. QED
    BY <2>1, <2>4, <2>5, <2>6
<1>2. /\ SameMint("LP", chain', Executed(Call("LP", u, Nobody, lp), chain))
      /\ SameMint("A", chain', Executed(Call("A", Vault, u, na), chain))
      /\ SameMint("B", chain', Executed(Call("B", Vault, u, nb), chain))
  <2>1. Made(calls)
    BY DEF Settled, Calls
  <2>2. /\ Len(calls) = 3 /\ calls[1] = Call("LP", u, Nobody, lp)
        /\ calls[2] = Call("A", Vault, u, na) /\ calls[3] = Call("B", Vault, u, nb)
    BY DEF RemoveCalls
  <2>3. /\ calls[1].mint = "LP" /\ calls[2].mint = "A" /\ calls[3].mint = "B"
    BY <2>2 DEF Call
  <2> HIDE DEF calls, lp, na, nb
  <2>4. QED
    BY <2>1, <2>2, <2>3 DEF Made
<1> HIDE DEF pool, lp, calls, na, nb
<1>3. Bal(chain)' = all
  <2>1. /\ DOMAIN chain = AccountIds /\ Bal(chain) \in Balances /\ Bal(chain)' \in Balances
        /\ \A m \in Mints, h \in Holders : /\ Bal(chain)[m][h] = chain[TokenAccount(m, h)]
                                           /\ Bal(chain)'[m][h] = chain'[TokenAccount(m, h)]
    BY Books DEF Settled, IInv
  <2>2. rest \in Int
    BY <1>1, <2>1 DEF Balances
  <2>3. /\ burned \in Balances
        /\ burned["LP"][u] = rest
        /\ \A h \in Holders \ {u} : burned["LP"][h] = Bal(chain)["LP"][h]
        /\ \A k \in Mints \ {"LP"} : burned[k] = Bal(chain)[k]
    <3> PICK new : new = burned
      OBVIOUS
    <3> HIDE DEF rest
    <3>1. new = Put(Bal(chain), "LP", u, rest)
      OBVIOUS
    <3> HIDE DEF burned
    <3>2. "LP" \in Mints /\ u \in Holders /\ Bal(chain) \in Balances
      BY <1>1, <2>1
    <3>3. new \in Balances /\ new["LP"][u] = rest
      BY <2>2, <3>1, <3>2, PutMoves
    <3>4. \A h \in Holders \ {u} : new["LP"][h] = Bal(chain)["LP"][h]
      BY <2>2, <3>1, <3>2, PutMoves
    <3>5. \A k \in Mints \ {"LP"} : new[k] = Bal(chain)[k]
      BY <2>2, <3>1, <3>2, PutMoves
    <3>6. QED
      BY <3>3, <3>4, <3>5
  <2> HIDE DEF burned
  <2>4. /\ paid_a \in Balances
        /\ paid_a["A"][Vault] = burned["A"][Vault] - na
        /\ paid_a["A"][u] = burned["A"][u] + na
        /\ \A h \in Holders \ {Vault, u} : paid_a["A"][h] = burned["A"][h]
        /\ \A k \in Mints \ {"A"} : paid_a[k] = burned[k]
    BY <1>1, <2>3, NativeTransferMoves
  <2> HIDE DEF paid_a
  <2>5. /\ all \in Balances
        /\ all["B"][Vault] = paid_a["B"][Vault] - nb
        /\ all["B"][u] = paid_a["B"][u] + nb
        /\ \A h \in Holders \ {Vault, u} : all["B"][h] = paid_a["B"][h]
        /\ \A k \in Mints \ {"B"} : all[k] = paid_a[k]
    BY <1>1, <2>4, NativeTransferMoves
  <2> HIDE DEF all
  <2>6. ASSUME NEW h \in Holders PROVE Bal(chain)'["A"][h] = all["A"][h]
    <3>1. chain'[TokenAccount("A", h)] = IF h = Vault THEN chain[TokenAccount("A", h)] - na
                                         ELSE IF h = u THEN chain[TokenAccount("A", h)] + na
                                         ELSE chain[TokenAccount("A", h)]
      BY <1>1, <1>2, <2>1, CallMoves
    <3>2. QED
      BY <1>1, <2>1, <2>3, <2>4, <2>5, <3>1
  <2>7. ASSUME NEW h \in Holders PROVE Bal(chain)'["B"][h] = all["B"][h]
    <3>1. chain'[TokenAccount("B", h)] = IF h = Vault THEN chain[TokenAccount("B", h)] - nb
                                         ELSE IF h = u THEN chain[TokenAccount("B", h)] + nb
                                         ELSE chain[TokenAccount("B", h)]
      BY <1>1, <1>2, <2>1, CallMoves
    <3>2. QED
      BY <1>1, <2>1, <2>3, <2>4, <2>5, <3>1
  <2>8. ASSUME NEW h \in Holders PROVE Bal(chain)'["LP"][h] = all["LP"][h]
    <3>1. /\ Nobody \in Holders \cup {Nobody} /\ u \in Holders \cup {Nobody} /\ u # Nobody
          /\ "LP" \in Mints /\ DOMAIN chain = AccountIds
          /\ SameMint("LP", chain', Executed(Call("LP", u, Nobody, lp), chain))
      BY <1>1, <1>2, <2>1
    <3>2. \A g \in Holders :
            chain'[TokenAccount("LP", g)] = IF g = u THEN chain[TokenAccount("LP", g)] - lp
                                            ELSE IF g = Nobody THEN chain[TokenAccount("LP", g)] + lp
                                            ELSE chain[TokenAccount("LP", g)]
      BY <3>1, CallMoves
    <3>3. h # Nobody
      BY Numbers
    <3>4. QED
      BY <1>1, <2>1, <2>3, <2>4, <2>5, <3>2, <3>3 DEF rest
  <2>9. QED
    BY <1>1, <2>1, <2>5, <2>6, <2>7, <2>8, SameBalances
<1>4. Sup(chain)' = [Sup(chain) EXCEPT !["LP"] = @ - lp]
  <2>1. /\ DOMAIN chain = AccountIds /\ Sup(chain) \in [Mints -> Int] /\ Sup(chain)' \in [Mints -> Int]
        /\ \A m \in Mints : Sup(chain)[m] = chain[Mint(m)] /\ Sup(chain)'[m] = chain'[Mint(m)]
    BY Books DEF Settled, IInv
  <2>2. chain'[Mint("A")] = chain[Mint("A")]
    BY <1>1, <1>2, <2>1, CallMoves
  <2>3. chain'[Mint("B")] = chain[Mint("B")]
    BY <1>1, <1>2, <2>1, CallMoves
  <2>4. chain'[Mint("LP")] = chain[Mint("LP")] - lp
    <3>1. /\ Nobody \in Holders \cup {Nobody} /\ u \in Holders \cup {Nobody}
          /\ u # Nobody /\ "LP" \in Mints /\ DOMAIN chain = AccountIds
          /\ SameMint("LP", chain', Executed(Call("LP", u, Nobody, lp), chain))
      BY <1>1, <1>2, <2>1
    <3>2. QED
      BY <3>1, CallMoves
  <2>5. QED
    BY <1>1, <2>1, <2>2, <2>3, <2>4
<1>5. /\ chain'[PoolAccount].data_len = pool.data_len
      /\ chain'[PoolAccount].is_initialized = pool.is_initialized
      /\ chain'[PoolAccount].reserve = [pool.reserve EXCEPT !["A"] = @ - na, !["B"] = @ - nb]
      /\ chain'[PoolAccount].lp_supply = pool.lp_supply - lp
      /\ chain'[PoolAccount].fee_numerator = pool.fee_numerator
      /\ chain'[PoolAccount].fee_denominator = pool.fee_denominator
  <2>1. chain'[PoolAccount] = RemoveUpdate(pool, r)
    BY DEF Settled, Updated, pool
  <2>2. pool \in Pools /\ pool.reserve \in [Tokens -> U64]
    BY <1>1, PoolFields DEF pool
  <2>3. [t \in Tokens |-> pool.reserve[t] - Removal(pool, r, t)]
          = [pool.reserve EXCEPT !["A"] = @ - na, !["B"] = @ - nb]
    BY <2>2 DEF Tokens, na, nb
  <2>4. QED
    BY <2>1, <2>2, <2>3, RemoveUpdateFields DEF lp
<1>6. Native!Accept(Native!RemoveChecks(u, r.lp, r.min_a, r.min_b))
  BY NativeChecks DEF Settled, FullChecks, Native!Accept
<1>7. Native!Removal("A", r.lp) = na /\ Native!Removal("B", r.lp) = nb /\ Native!Vault = Vault
  BY NativeRemoval, NativeNames DEF Native!Removal, Removal, na, nb, pool
<1>8. Native!RemoveLiquidity(u, r.lp, r.min_a, r.min_b)
  BY <1>3, <1>4, <1>5, <1>6, <1>7
     DEF Native!RemoveLiquidity, Native!LpSupplyAfterRemove, Bal, Sup, Put, pool, lp
<1>9. QED
  BY <1>8 DEF Instruction

LEMMA SwapSettles ==
  ASSUME NEW u \in Users, NEW r \in Requests(u), r.op = "Swap", Settled(u, r)
  PROVE  Instruction(u, r)
<1> DEFINE pool  == chain[PoolAccount]
           n     == r.n
           tin   == r.tin
           tout  == Other(tin)
           out   == AmountOut(pool, r)
           calls == SwapCalls(u, pool, r)
           paid  == Native!Transfer(Bal(chain), tin, u, Vault, n)
           all   == Native!Transfer(paid, tout, Vault, u, out)
<1>1. /\ n \in Int /\ out \in Int
      /\ u \in Holders /\ Vault \in Holders /\ u # Vault /\ u # Nobody /\ Vault # Nobody
      /\ tin \in Tokens /\ tin \in Mints /\ tout \in Mints /\ tin # tout
      /\ "LP" \in Mints /\ Mints = {tin, tout, "LP"} /\ "LP" \notin {tin, tout}
      /\ Tokens = {tin, tout}
      /\ IInv /\ Passes(SwapChecks(pool, r))
  <2>1. IInv /\ Passes(SwapChecks(pool, r))
    BY DEF Settled, EarlyChecks
  <2>2. n \in U64 /\ tin \in Tokens
    BY RequestFields, Numbers
  <2>3. /\ tin \in Mints /\ tout \in Mints /\ tin # tout /\ tout \in Tokens
        /\ "LP" \in Mints /\ Mints = {tin, tout, "LP"} /\ "LP" \notin {tin, tout}
        /\ Tokens = {tin, tout}
    BY <2>2 DEF Mints, Tokens, Other
  <2>4. out \in U64
    <3>1. /\ pool.reserve[tin] \in U64 /\ pool.reserve[tout] \in U64
          /\ pool.fee_numerator \in U64 /\ pool.fee_denominator \in U64
      BY <2>1, <2>2, <2>3, PoolFields DEF Pools
    <3>2. QED
      BY <2>1, <2>2, <3>1, SwapPassed, SwapIsAmount DEF AmountOut
  <2>5. /\ u \in Holders /\ Vault \in Holders /\ u # Vault /\ u # Nobody /\ Vault # Nobody
    BY Numbers DEF Holders
  <2> HIDE DEF n, pool, out, tin, tout
  <2>6. n \in Int /\ out \in Int
    BY <2>2, <2>4, Numbers
  <2>7. QED
    BY <2>1, <2>2, <2>3, <2>5, <2>6
<1>2. /\ SameMint(tin, chain', Executed(Call(tin, u, Vault, n), chain))
      /\ SameMint(tout, chain', Executed(Call(tout, Vault, u, out), chain))
      /\ SameMint("LP", chain', chain)
  <2>1. Made(calls)
    BY DEF Settled, Calls
  <2>2. /\ Len(calls) = 2 /\ calls[1] = Call(tin, u, Vault, n)
        /\ calls[2] = Call(tout, Vault, u, out)
    BY DEF SwapCalls
  <2>3. calls[1].mint = tin /\ calls[2].mint = tout
    BY <2>2 DEF Call
  <2> HIDE DEF calls, n, out, tin, tout
  <2>4. /\ SameMint(tin, chain', Executed(Call(tin, u, Vault, n), chain))
        /\ SameMint(tout, chain', Executed(Call(tout, Vault, u, out), chain))
    BY <2>1, <2>2, <2>3 DEF Made
  <2>5. \A i \in 1..Len(calls) : calls[i].mint # "LP"
    <3>1. \A i \in 1..Len(calls) : i = 1 \/ i = 2
      BY <2>2
    <3>2. QED
      BY <1>1, <2>3, <3>1
  <2>6. QED
    BY <1>1, <2>1, <2>4, <2>5 DEF Made
<1> HIDE DEF pool, n, tin, tout, out, calls
<1>3. Bal(chain)' = all
  <2>1. /\ DOMAIN chain = AccountIds /\ Bal(chain) \in Balances /\ Bal(chain)' \in Balances
        /\ \A m \in Mints, h \in Holders : /\ Bal(chain)[m][h] = chain[TokenAccount(m, h)]
                                           /\ Bal(chain)'[m][h] = chain'[TokenAccount(m, h)]
    BY Books DEF Settled, IInv
  <2>2. /\ paid \in Balances
        /\ paid[tin][u] = Bal(chain)[tin][u] - n
        /\ paid[tin][Vault] = Bal(chain)[tin][Vault] + n
        /\ \A h \in Holders \ {u, Vault} : paid[tin][h] = Bal(chain)[tin][h]
        /\ \A k \in Mints \ {tin} : paid[k] = Bal(chain)[k]
    BY <1>1, <2>1, NativeTransferMoves
  <2> HIDE DEF paid
  <2>3. /\ all \in Balances
        /\ all[tout][Vault] = paid[tout][Vault] - out
        /\ all[tout][u] = paid[tout][u] + out
        /\ \A h \in Holders \ {Vault, u} : all[tout][h] = paid[tout][h]
        /\ \A k \in Mints \ {tout} : all[k] = paid[k]
    BY <1>1, <2>2, NativeTransferMoves
  <2> HIDE DEF all
  <2>4. ASSUME NEW h \in Holders PROVE Bal(chain)'[tin][h] = all[tin][h]
    <3>1. chain'[TokenAccount(tin, h)] = IF h = u THEN chain[TokenAccount(tin, h)] - n
                                         ELSE IF h = Vault THEN chain[TokenAccount(tin, h)] + n
                                         ELSE chain[TokenAccount(tin, h)]
      BY <1>1, <1>2, <2>1, CallMoves
    <3>2. QED
      BY <1>1, <2>1, <2>2, <2>3, <3>1
  <2>5. ASSUME NEW h \in Holders PROVE Bal(chain)'[tout][h] = all[tout][h]
    <3>1. chain'[TokenAccount(tout, h)] = IF h = Vault THEN chain[TokenAccount(tout, h)] - out
                                          ELSE IF h = u THEN chain[TokenAccount(tout, h)] + out
                                          ELSE chain[TokenAccount(tout, h)]
      BY <1>1, <1>2, <2>1, CallMoves
    <3>2. QED
      BY <1>1, <2>1, <2>2, <2>3, <3>1
  <2>6. ASSUME NEW h \in Holders PROVE Bal(chain)'["LP"][h] = all["LP"][h]
    BY <1>1, <1>2, <2>1, <2>2, <2>3 DEF SameMint
  <2>7. QED
    BY <1>1, <2>1, <2>3, <2>4, <2>5, <2>6, SameBalances
<1>4. Sup(chain)' = Sup(chain)
  <2>1. /\ DOMAIN chain = AccountIds /\ Sup(chain) \in [Mints -> Int] /\ Sup(chain)' \in [Mints -> Int]
        /\ \A m \in Mints : Sup(chain)[m] = chain[Mint(m)] /\ Sup(chain)'[m] = chain'[Mint(m)]
    BY Books DEF Settled, IInv
  <2>2. /\ chain'[Mint(tin)] = chain[Mint(tin)] /\ chain'[Mint(tout)] = chain[Mint(tout)]
    BY <1>1, <1>2, <2>1, CallMoves
  <2>3. chain'[Mint("LP")] = chain[Mint("LP")]
    BY <1>2 DEF SameMint
  <2>4. QED
    BY <1>1, <2>1, <2>2, <2>3
<1>5. /\ chain'[PoolAccount].data_len = pool.data_len
      /\ chain'[PoolAccount].is_initialized = pool.is_initialized
      /\ chain'[PoolAccount].reserve = [pool.reserve EXCEPT ![tin] = @ + n, ![tout] = @ - out]
      /\ chain'[PoolAccount].lp_supply = pool.lp_supply
      /\ chain'[PoolAccount].fee_numerator = pool.fee_numerator
      /\ chain'[PoolAccount].fee_denominator = pool.fee_denominator
  <2>1. chain'[PoolAccount] = SwapUpdate(pool, r)
    BY DEF Settled, Updated, pool
  <2>2. pool \in Pools /\ pool.reserve \in [Tokens -> U64]
    BY <1>1, PoolFields DEF pool
  <2>3. [t \in Tokens |-> IF t = tin THEN pool.reserve[t] + n ELSE pool.reserve[t] - out]
          = [pool.reserve EXCEPT ![tin] = @ + n, ![tout] = @ - out]
    BY <1>1, <2>2
  <2> DEFINE new == SwapUpdate(pool, r)
  <2>4. r.tin \in Tokens
    BY <1>1 DEF tin
  <2>5. /\ new.data_len = pool.data_len /\ new.is_initialized = pool.is_initialized
        /\ new.reserve = [t \in Tokens |-> IF t = r.tin THEN pool.reserve[t] + r.n
                                          ELSE pool.reserve[t] - AmountOut(pool, r)]
        /\ new.lp_supply = pool.lp_supply
        /\ new.fee_numerator = pool.fee_numerator
        /\ new.fee_denominator = pool.fee_denominator
    BY <2>2, <2>4, SwapUpdateFields
  <2> HIDE DEF new
  <2>6. new.reserve = [t \in Tokens |-> IF t = tin THEN pool.reserve[t] + n
                                         ELSE pool.reserve[t] - out]
    BY <2>5 DEF n, tin, out
  <2>7. chain'[PoolAccount] = new
    BY <2>1 DEF new
  <2>8. QED
    BY <2>3, <2>5, <2>6, <2>7
<1>6. Native!Accept(Native!SwapChecks(u, r.n, r.min, r.tin))
  BY NativeChecks DEF Settled, FullChecks, Native!Accept
<1>7. /\ Native!AmountOut(r.n, r.tin) = out /\ Native!Vault = Vault
      /\ Native!Other(r.tin) = tout
  BY NativeOutput, NativeNames
     DEF Native!AmountOut, AmountOut, out, pool, Native!Other, Other, tout, tin
<1>8. Native!Swap(u, r.n, r.min, r.tin)
  BY <1>3, <1>4, <1>5, <1>6, <1>7
     DEF Native!Swap, Native!ReserveAfterSwap, Bal, Sup, pool, n, tin
<1>9. QED
  BY <1>8 DEF Instruction

LEMMA InitializeSettles ==
  ASSUME NEW u \in Users, NEW r \in Requests(u), r.op = "InitializePool", Settled(u, r)
  PROVE  Instruction(u, r)
<1>1. Calls(u, chain[PoolAccount], r) = << >>
  BY DEF Calls
<1>2. \A m \in Mints : SameMint(m, chain', chain)
  BY <1>1 DEF Settled, Made
<1>3. Bal(chain)' = Bal(chain) /\ Sup(chain)' = Sup(chain)
  BY <1>2 DEF SameMint, Bal, Sup
<1>4. chain'[PoolAccount] = InitUpdate(chain[PoolAccount], r)
  BY DEF Settled, Updated
<1> DEFINE new == InitUpdate(chain[PoolAccount], r)
<1>5. /\ new.data_len = chain[PoolAccount].data_len /\ new.is_initialized = TRUE
      /\ new.reserve = [t \in Tokens |-> 0] /\ new.lp_supply = 0
      /\ new.fee_numerator = r.fee[1] /\ new.fee_denominator = r.fee[2]
  BY DEF InitUpdate, NewPool
<1>6. Native!Accept(Native!InitChecks(r.fee[1], r.fee[2], r.derived))
  BY NativeChecks DEF Settled, FullChecks, Native!Accept
<1> HIDE DEF new
<1>7. Native!InitializePool(r.fee[1], r.fee[2], r.derived)
  BY <1>3, <1>4, <1>5, <1>6, NativeNames
     DEF Native!InitializePool, Native!tokenVars, Bal, Sup, new
<1>8. QED
  BY <1>7 DEF Instruction

LEMMA InfoSettles ==
  ASSUME NEW u \in Users, NEW r \in Requests(u), r.op = "GetPoolInfo", Settled(u, r)
  PROVE  Instruction(u, r)
<1>1. Calls(u, chain[PoolAccount], r) = << >> /\ chain'[PoolAccount] = chain[PoolAccount]
  BY DEF Calls, Settled, Updated
<1>2. \A m \in Mints : SameMint(m, chain', chain)
  BY <1>1 DEF Settled, Made
<1>3. Bal(chain)' = Bal(chain) /\ Sup(chain)' = Sup(chain)
  BY <1>2 DEF SameMint, Bal, Sup
<1>4. Native!Accept(Native!InfoChecks)
  BY NativeChecks DEF Settled, FullChecks, Native!Accept
<1>5. Native!GetPoolInfo
  BY <1>1, <1>3, <1>4
     DEF Native!GetPoolInfo, Native!poolVars, Native!tokenVars, Bal, Sup
<1>6. QED
  BY <1>5 DEF Instruction

(* A user's own call to the token program; of nothing, it changes nothing. *)
LEMMA TransferSettles ==
  ASSUME IInv, LedgerOK', NEW u \in Users, NEW r \in Requests(u), r.op = "Transfer",
         Accepted(Call(r.mint, u, r.to, r.n), chain),
         Made(<<Call(r.mint, u, r.to, r.n)>>),
         chain'[PoolAccount] = chain[PoolAccount], result' = result
  PROVE  [Native!Next]_(Native!vars)
<1> DEFINE n     == r.n
           m     == r.mint
           to    == r.to
           c     == Call(m, u, to, n)
           moved == Native!Transfer(Bal(chain), m, u, to, n)
<1>1. /\ n \in Int /\ n >= 0 /\ n \in Amounts
      /\ m \in Mints /\ m \in DirectTransfers /\ u \in Holders /\ to \in Holders
      /\ u # to /\ (m = "LP" => to # Vault)
  <2>1. n \in Amounts /\ m \in DirectTransfers /\ to \in Holders \ {u} /\ (m = "LP" => to # Vault)
    BY RequestFields
  <2>2. n \in U64
    BY <2>1, Numbers
  <2>3. m \in Mints /\ u \in Holders
    BY <2>1, DexTransactionAssumption DEF Holders
  <2> HIDE DEF n, m, to
  <2>4. n \in Int /\ n >= 0
    BY <2>2, MaxU64Assumption DEF U64
  <2>5. QED
    BY <2>1, <2>3, <2>4
<1>2. Accepted(c, chain) /\ Made(<<c>>)
  OBVIOUS
<1> HIDE DEF n, m, to
<1>3. c.mint = m
  BY DEF Call
<1> HIDE DEF c
<1>4. SameMint(m, chain', Executed(c, chain)) /\ \A k \in Mints \ {m} : SameMint(k, chain', chain)
  <2> DEFINE calls == <<c>>
  <2>1. Len(calls) = 1 /\ calls[1] = c /\ Made(calls)
    BY <1>2
  <2> HIDE DEF calls
  <2>2. QED
    BY <1>3, <2>1 DEF Made
<1>5. /\ DOMAIN chain = AccountIds /\ Bal(chain) \in Balances /\ Bal(chain)' \in Balances
      /\ \A k \in Mints, h \in Holders : /\ Bal(chain)[k][h] = chain[TokenAccount(k, h)]
                                         /\ Bal(chain)'[k][h] = chain'[TokenAccount(k, h)]
      /\ Sup(chain) \in [Mints -> Int] /\ Sup(chain)' \in [Mints -> Int]
      /\ \A k \in Mints : Sup(chain)[k] = chain[Mint(k)] /\ Sup(chain)'[k] = chain'[Mint(k)]
  BY Books DEF IInv
<1>6. /\ \A h \in Holders :
           chain'[TokenAccount(m, h)] = IF h = u THEN chain[TokenAccount(m, h)] - n
                                        ELSE IF h = to THEN chain[TokenAccount(m, h)] + n
                                        ELSE chain[TokenAccount(m, h)]
      /\ chain'[Mint(m)] = chain[Mint(m)]
  <2>1. u # Nobody /\ to # Nobody
    BY <1>1, Numbers
  <2>2. QED
    BY <1>1, <1>4, <1>5, <2>1, CallMoves DEF c
<1>7. Sup(chain)' = Sup(chain)
  <2>1. \A k \in Mints : chain'[Mint(k)] = chain[Mint(k)]
    BY <1>4, <1>6 DEF SameMint
  <2>2. QED
    BY <1>5, <2>1
<1>8. CASE n = 0
  <2>1. \A k \in Mints : \A h \in Holders : Bal(chain)'[k][h] = Bal(chain)[k][h]
    <3> SUFFICES ASSUME NEW k \in Mints, NEW h \in Holders
                 PROVE  Bal(chain)'[k][h] = Bal(chain)[k][h]
      OBVIOUS
    <3>1. CASE k = m
      <4>1. Bal(chain)[k][h] \in Int
        BY <1>5 DEF Balances
      <4>2. QED
        BY <1>5, <1>6, <1>8, <3>1, <4>1
    <3>2. CASE k # m
      BY <1>4, <1>5, <3>2 DEF SameMint
    <3>3. QED
      BY <3>1, <3>2
  <2>2. Bal(chain)' = Bal(chain)
    BY <1>5, <2>1, SameBalances
  <2>3. QED
    BY <1>7, <2>2 DEF Native!vars, Bal, Sup
<1>9. CASE n # 0
  <2>1. /\ moved \in Balances
        /\ moved[m][u] = Bal(chain)[m][u] - n
        /\ moved[m][to] = Bal(chain)[m][to] + n
        /\ \A h \in Holders \ {u, to} : moved[m][h] = Bal(chain)[m][h]
        /\ \A k \in Mints \ {m} : moved[k] = Bal(chain)[k]
    BY <1>1, <1>5, NativeTransferMoves
  <2> HIDE DEF moved
  <2>2. \A k \in Mints : \A h \in Holders : Bal(chain)'[k][h] = moved[k][h]
    <3> SUFFICES ASSUME NEW k \in Mints, NEW h \in Holders
                 PROVE  Bal(chain)'[k][h] = moved[k][h]
      OBVIOUS
    <3>1. CASE k = m
      BY <1>1, <1>5, <1>6, <2>1, <3>1
    <3>2. CASE k # m
      BY <1>4, <1>5, <2>1, <3>2 DEF SameMint
    <3>3. QED
      BY <3>1, <3>2
  <2>3. Bal(chain)' = moved
    BY <1>5, <2>1, <2>2, SameBalances
  <2>4. Native!CanTransfer(m, u, to, n)
    BY <1>1, <1>2, NativeTransfers DEF c
  <2>5. n > 0
    BY <1>1, <1>9
  <2>6. Native!DirectTransfer(m, u, to, n)
    BY <1>1, <1>7, <2>3, <2>4, <2>5, NativeNames
       DEF Native!DirectTransfer, Native!poolVars, Bal, Sup, moved
  <2>7. u \in Native!Users /\ to \in Native!Accounts
    BY <1>1, NativeNames
  <2>8. Native!Next
    BY <1>1, <2>6, <2>7 DEF Native!Next
  <2>9. QED
    BY <2>8
<1>10. QED
  BY <1>8, <1>9

LEMMA BurnSettles ==
  ASSUME IInv, LedgerOK', NEW u \in Users, NEW r \in Requests(u), r.op = "Burn",
         Accepted(Call(r.mint, u, Nobody, r.n), chain),
         Made(<<Call(r.mint, u, Nobody, r.n)>>),
         chain'[PoolAccount] = chain[PoolAccount], result' = result
  PROVE  [Native!Next]_(Native!vars)
<1> DEFINE n    == r.n
           m    == r.mint
           c    == Call(m, u, Nobody, n)
           rest == Bal(chain)[m][u] - n
           left == Put(Bal(chain), m, u, rest)
<1>1. /\ n \in Int /\ n >= 0 /\ n \in Amounts
      /\ m \in Mints /\ m \in DirectBurns /\ u \in Holders /\ u # Nobody
  <2>1. n \in Amounts /\ m \in DirectBurns
    BY RequestFields
  <2>2. n \in U64
    BY <2>1, Numbers
  <2>3. m \in Mints /\ u \in Holders /\ u # Nobody
    BY <2>1, Numbers, DexTransactionAssumption DEF Holders
  <2> HIDE DEF n, m
  <2>4. n \in Int /\ n >= 0
    BY <2>2, MaxU64Assumption DEF U64
  <2>5. QED
    BY <2>1, <2>3, <2>4
<1>2. Accepted(c, chain) /\ Made(<<c>>)
  OBVIOUS
<1> HIDE DEF n, m
<1>3. c.mint = m
  BY DEF Call
<1> HIDE DEF c
<1>4. SameMint(m, chain', Executed(c, chain)) /\ \A k \in Mints \ {m} : SameMint(k, chain', chain)
  <2> DEFINE calls == <<c>>
  <2>1. Len(calls) = 1 /\ calls[1] = c /\ Made(calls)
    BY <1>2
  <2> HIDE DEF calls
  <2>2. QED
    BY <1>3, <2>1 DEF Made
<1>5. /\ DOMAIN chain = AccountIds /\ Bal(chain) \in Balances /\ Bal(chain)' \in Balances
      /\ \A k \in Mints, h \in Holders : /\ Bal(chain)[k][h] = chain[TokenAccount(k, h)]
                                         /\ Bal(chain)'[k][h] = chain'[TokenAccount(k, h)]
      /\ Sup(chain) \in [Mints -> Int] /\ Sup(chain)' \in [Mints -> Int]
      /\ \A k \in Mints : Sup(chain)[k] = chain[Mint(k)] /\ Sup(chain)'[k] = chain'[Mint(k)]
  BY Books DEF IInv
<1>6. /\ \A h \in Holders :
           chain'[TokenAccount(m, h)] = IF h = u THEN chain[TokenAccount(m, h)] - n
                                        ELSE chain[TokenAccount(m, h)]
      /\ chain'[Mint(m)] = chain[Mint(m)] - n
  <2>1. /\ Nobody \in Holders \cup {Nobody} /\ u \in Holders \cup {Nobody} /\ u # Nobody
        /\ m \in Mints /\ DOMAIN chain = AccountIds
        /\ SameMint(m, chain', Executed(Call(m, u, Nobody, n), chain))
    BY <1>1, <1>4, <1>5 DEF c
  <2>2. /\ \A h \in Holders :
             chain'[TokenAccount(m, h)] = IF h = u THEN chain[TokenAccount(m, h)] - n
                                          ELSE IF h = Nobody THEN chain[TokenAccount(m, h)] + n
                                          ELSE chain[TokenAccount(m, h)]
        /\ chain'[Mint(m)] = IF u = Nobody THEN chain[Mint(m)] + n
                             ELSE IF Nobody = Nobody THEN chain[Mint(m)] - n
                             ELSE chain[Mint(m)]
    BY <2>1, CallMoves
  <2>3. \A h \in Holders : h # Nobody
    BY Numbers
  <2>4. QED
    BY <1>1, <2>2, <2>3
<1>7. rest \in Int
  BY <1>1, <1>5 DEF Balances
<1>8. /\ left \in Balances
      /\ left[m][u] = rest
      /\ \A h \in Holders \ {u} : left[m][h] = Bal(chain)[m][h]
      /\ \A k \in Mints \ {m} : left[k] = Bal(chain)[k]
  <2> PICK new : new = left
    OBVIOUS
  <2> HIDE DEF rest
  <2>1. new = Put(Bal(chain), m, u, rest)
    OBVIOUS
  <2> HIDE DEF left
  <2>2. u \in Holders /\ Bal(chain) \in Balances /\ m \in Mints
    BY <1>1, <1>5
  <2>3. new \in Balances /\ new[m][u] = rest
    BY <1>7, <2>1, <2>2, PutMoves
  <2>4. \A h \in Holders \ {u} : new[m][h] = Bal(chain)[m][h]
    BY <1>7, <2>1, <2>2, PutMoves
  <2>5. \A k \in Mints \ {m} : new[k] = Bal(chain)[k]
    BY <1>7, <2>1, <2>2, PutMoves
  <2>6. QED
    BY <2>3, <2>4, <2>5
<1>9. Bal(chain)' = left
  <2> HIDE DEF left
  <2>1. \A k \in Mints : \A h \in Holders : Bal(chain)'[k][h] = left[k][h]
    <3> SUFFICES ASSUME NEW k \in Mints, NEW h \in Holders
                 PROVE  Bal(chain)'[k][h] = left[k][h]
      OBVIOUS
    <3>1. CASE k = m
      BY <1>1, <1>5, <1>6, <1>8, <3>1
    <3>2. CASE k # m
      BY <1>4, <1>5, <1>8, <3>2 DEF SameMint
    <3>3. QED
      BY <3>1, <3>2
  <2>2. QED
    BY <1>5, <1>8, <2>1, SameBalances
<1>10. Sup(chain)' = [Sup(chain) EXCEPT ![m] = @ - n]
  <2>1. \A k \in Mints \ {m} : chain'[Mint(k)] = chain[Mint(k)]
    BY <1>4 DEF SameMint
  <2>2. QED
    BY <1>1, <1>5, <1>6, <2>1
<1>11. CASE n = 0
  <2>1. \A k \in Mints : \A h \in Holders : Bal(chain)'[k][h] = Bal(chain)[k][h]
    <3> SUFFICES ASSUME NEW k \in Mints, NEW h \in Holders
                 PROVE  Bal(chain)'[k][h] = Bal(chain)[k][h]
      OBVIOUS
    <3>1. CASE k = m
      <4>1. Bal(chain)[k][h] \in Int
        BY <1>5 DEF Balances
      <4>2. QED
        BY <1>5, <1>6, <1>11, <3>1, <4>1
    <3>2. CASE k # m
      BY <1>4, <1>5, <3>2 DEF SameMint
    <3>3. QED
      BY <3>1, <3>2
  <2>2. Bal(chain)' = Bal(chain)
    BY <1>5, <2>1, SameBalances
  <2>3. Sup(chain)' = Sup(chain)
    BY <1>1, <1>5, <1>10, <1>11
  <2>4. QED
    BY <2>2, <2>3 DEF Native!vars, Bal, Sup
<1>12. CASE n # 0
  <2>1. Native!CanBurn(m, u, n)
    BY <1>1, <1>2, NativeMints DEF c
  <2>2. n > 0
    BY <1>1, <1>12
  <2>3. Native!DirectBurn(m, u, n)
    BY <1>1, <1>9, <1>10, <2>1, <2>2
       DEF Native!DirectBurn, Native!poolVars, Bal, Sup, Put
  <2>4. u \in Native!Users
    BY NativeNames
  <2>5. Native!Next
    BY <1>1, <2>3, <2>4 DEF Native!Next
  <2>6. QED
    BY <2>5
<1>13. QED
  BY <1>11, <1>12

-----------------------------------------------------------------------------
(* The calls made were acceptable to the ledger, and the next one is to    *)
(* the copies if it is to the ledger.                                      *)
LEMMA CallsSoFar ==
  ASSUME IInv, NEW u \in Running, tx[u].phase = "calling"
  PROVE  LET x     == tx[u]
             calls == Calls(u, x.pool, x.req)
         IN  /\ Len(calls) \in 0..3
             /\ \E k \in 0..Len(calls) :
                  /\ \A i \in 1..k : Accepted(calls[i], chain)
                  /\ x.calls = << >> => k = Len(calls)
                  /\ x.calls # << >> =>
                       /\ k + 1 \in 1..Len(calls)
                       /\ Accepted(Head(x.calls), x.copies) <=> Accepted(calls[k + 1], chain)
<1> DEFINE x      == tx[u]
           calls  == Calls(u, x.pool, x.req)
           copies == Loaded(u, x.req, chain)
           n      == Len(calls)
<1>1. /\ GoodCalls(calls, Locked(u, x.req)) /\ Locked(u, x.req) \subseteq AccountIds
      /\ n \in 0..3 /\ x.calls \in Seq(AnyCall) /\ HasAccounts(chain)
      /\ copies = Part(Locked(u, x.req), chain)
  BY CallingTx DEF IInv, LedgerOK, Loaded
<1>2. PICK k \in 0..n : /\ Len(x.calls) = n - k
                        /\ \A i \in 1..Len(x.calls) : x.calls[i] = calls[k + i]
                        /\ x.copies = After(calls, copies, k)
                        /\ \A i \in 1..k : Accepted(calls[i], After(calls, copies, i - 1))
  BY CallingTx
<1> HIDE DEF x, calls, copies, n
<1>3. \A i \in 1..n : Accepted(calls[i], After(calls, copies, i - 1)) <=> Accepted(calls[i], chain)
  BY <1>1, CallsWereAccepted DEF n
<1>4. n \in Nat /\ k \in Nat /\ k <= n
  BY <1>1, <1>2
<1>5. \A i \in 1..k : Accepted(calls[i], chain)
  <2>1. \A i \in 1..k : i \in 1..n
    BY <1>4
  <2>2. QED
    BY <1>2, <1>3, <2>1
<1>6. ASSUME x.calls = << >> PROVE k = n
  BY <1>2, <1>4, <1>6
<1>7. ASSUME x.calls # << >>
      PROVE  /\ k + 1 \in 1..n
             /\ Accepted(Head(x.calls), x.copies) <=> Accepted(calls[k + 1], chain)
  <2>1. Len(x.calls) >= 1 /\ Head(x.calls) = x.calls[1] /\ 1 \in 1..Len(x.calls)
    BY <1>1, <1>7
  <2>2. k + 1 \in 1..n /\ (k + 1) - 1 = k
    BY <1>2, <1>4, <2>1
  <2>3. Head(x.calls) = calls[k + 1]
    BY <1>2, <2>1
  <2>4. Accepted(calls[k + 1], After(calls, copies, (k + 1) - 1)) <=> Accepted(calls[k + 1], chain)
    BY <1>3, <2>2
  <2>5. QED
    BY <1>2, <2>2, <2>3, <2>4
<1>8. QED
  BY <1>1, <1>2, <1>5, <1>6, <1>7 DEF x, calls, n

LEMMA RunChecksImplements ==
  ASSUME IInv, NEW u \in Running, RunChecks(u)
  PROVE  [Native!Next]_(Native!vars)
<1> DEFINE r      == tx[u].req
           early  == EarlyChecks(chain[PoolAccount], r)
           checks == IF r.op \in TokenProgramOps THEN << >> ELSE EarlyChecks(tx[u].copies[PoolAccount], r)
<1>1. u \in Users /\ r \in Requests(u) /\ tx[u].phase = "loaded" /\ HasLoaded(u, tx[u], chain)
  BY RunningTx DEF RunChecks
<1>2. r.op \notin TokenProgramOps => tx[u].copies[PoolAccount] = chain[PoolAccount]
  BY <1>1, LockedAccounts DEF HasLoaded, Loaded, Part
<1>3. CASE ~Passes(checks) /\ Abort(u, checks[FirstFailed(checks)])
  <2>1. r.op \notin TokenProgramOps =>
          LET full == FullChecks(u, r)
          IN  ~Passes(full) /\ full[FirstFailed(full)] = checks[FirstFailed(checks)]
    BY <1>1, <1>2, <1>3, EarlyIsFirst
  <2> HIDE DEF checks
  <2>2. QED
    BY <1>1, <1>3, <2>1, AbortIsReject
<1>4. CASE UNCHANGED <<chain, result>>
  BY <1>4, SameLedger
<1>5. QED
  BY <1>3, <1>4 DEF RunChecks

LEMMA InvokeImplements ==
  ASSUME IInv, NEW u \in Running, Invoke(u)
  PROVE  [Native!Next]_(Native!vars)
<1> DEFINE r     == tx[u].req
           calls == Calls(u, tx[u].pool, r)
           call  == Head(tx[u].calls)
<1>1. /\ u \in Users /\ r \in Requests(u) /\ tx[u].phase = "calling" /\ tx[u].calls # << >>
      /\ HasChecked(tx[u], chain)
  BY RunningTx DEF Invoke
<1>2. CASE UNCHANGED <<chain, result>>
  BY <1>2, SameLedger
<1>3. CASE ~Accepted(call, tx[u].copies) /\ Abort(u, "TokenError")
  <2>1. PICK k \in 0..Len(calls) :
          /\ \A i \in 1..k : Accepted(calls[i], chain)
          /\ k + 1 \in 1..Len(calls)
          /\ Accepted(call, tx[u].copies) <=> Accepted(calls[k + 1], chain)
    BY <1>1, CallsSoFar
  <2>2. ASSUME r.op \notin TokenProgramOps
        PROVE  LET full == FullChecks(u, r)
               IN  ~Passes(full) /\ full[FirstFailed(full)] = "TokenError"
    <3>1. tx[u].pool = chain[PoolAccount] /\ Passes(EarlyChecks(chain[PoolAccount], r))
      BY <1>1, <2>2 DEF HasChecked
    <3>2. (k + 1) - 1 = k
      OBVIOUS
    <3>3. /\ \A i \in 1..((k + 1) - 1) : Accepted(calls[i], chain)
          /\ ~Accepted(calls[k + 1], chain)
      BY <1>3, <2>1, <3>2
    <3>4. calls = Calls(u, chain[PoolAccount], r)
      BY <3>1
    <3> HIDE DEF calls
    <3>5. QED
      BY <1>1, <2>1, <2>2, <3>1, <3>3, <3>4, CallsAreNext
  <2>3. QED
    BY <1>1, <1>3, <2>2, AbortIsReject
<1>4. QED
  BY <1>2, <1>3 DEF Invoke, FailedCall

LEMMA FinishImplements ==
  ASSUME IInv, NEW u \in Running, Finish(u)
  PROVE  [Native!Next]_(Native!vars)
<1> DEFINE r     == tx[u].req
           calls == Calls(u, tx[u].pool, r)
           late  == Overflows(Updated(tx[u].pool, r))
<1>1. /\ u \in Users /\ r \in Requests(u) /\ tx[u].phase = "calling" /\ tx[u].calls = << >>
      /\ HasChecked(tx[u], chain)
  BY RunningTx DEF Finish
<1>2. \A i \in 1..Len(calls) : Accepted(calls[i], chain)
  BY <1>1, CallsSoFar
<1>3. CASE late
  <2>1. Abort(u, "Overflow")
    BY <1>3 DEF Finish
  <2>2. ASSUME r.op \notin TokenProgramOps
        PROVE  LET full == FullChecks(u, r)
               IN  ~Passes(full) /\ full[FirstFailed(full)] = "Overflow"
    <3>1. tx[u].pool = chain[PoolAccount] /\ Passes(EarlyChecks(chain[PoolAccount], r))
      BY <1>1, <2>2 DEF HasChecked
    <3>2. QED
      BY <1>1, <1>2, <1>3, <2>2, <3>1, CallsAreNext
  <2>3. QED
    BY <1>1, <2>1, <2>2, AbortIsReject
<1>4. CASE ~late
  <2>1. /\ LedgerOK'
        /\ chain'[PoolAccount] = IF r.op \in TokenProgramOps THEN chain[PoolAccount]
                                 ELSE Updated(chain[PoolAccount], r)
        /\ Made(calls)
    BY <1>4, FinishLedger DEF Made
  <2>2. result' = IF r.op \in TokenProgramOps THEN result ELSE "Ok"
    BY <1>4 DEF Finish, Returns
  <2>3. CASE r.op \notin TokenProgramOps
    <3>1. tx[u].pool = chain[PoolAccount] /\ Passes(EarlyChecks(chain[PoolAccount], r))
      BY <1>1, <2>3 DEF HasChecked
    <3>2. Passes(FullChecks(u, r))
      BY <1>1, <1>2, <1>4, <2>3, <3>1, CallsAreNext
    <3>3. Settled(u, r)
      BY <2>1, <2>2, <2>3, <3>1, <3>2 DEF Settled
    <3>4. r.op \in {"InitializePool", "AddLiquidity", "RemoveLiquidity", "Swap", "GetPoolInfo"}
      BY <1>1, <2>3, RequestFields DEF TokenProgramOps
    <3> HIDE DEF r
    <3>5. Instruction(u, r)
      BY <1>1, <3>3, <3>4, InitializeSettles, AddSettles, RemoveSettles, SwapSettles, InfoSettles
    <3>6. QED
      BY <1>1, <2>3, <3>5, InstructionIsNext
  <2>4. CASE r.op = "Transfer"
    <3>1. calls = <<Call(r.mint, u, r.to, r.n)>>
      BY <2>4 DEF Calls
    <3>2. Len(calls) = 1 /\ calls[1] = Call(r.mint, u, r.to, r.n)
      BY <3>1
    <3>3. /\ Accepted(Call(r.mint, u, r.to, r.n), chain)
          /\ Made(<<Call(r.mint, u, r.to, r.n)>>)
      BY <1>2, <2>1, <3>1, <3>2
    <3>4. chain'[PoolAccount] = chain[PoolAccount] /\ result' = result
      BY <2>1, <2>2, <2>4 DEF TokenProgramOps
    <3> HIDE DEF r
    <3>5. QED
      BY <1>1, <2>1, <2>4, <3>3, <3>4, TransferSettles
  <2>5. CASE r.op = "Burn"
    <3>1. calls = <<Call(r.mint, u, Nobody, r.n)>>
      BY <2>5 DEF Calls
    <3>2. Len(calls) = 1 /\ calls[1] = Call(r.mint, u, Nobody, r.n)
      BY <3>1
    <3>3. /\ Accepted(Call(r.mint, u, Nobody, r.n), chain)
          /\ Made(<<Call(r.mint, u, Nobody, r.n)>>)
      BY <1>2, <2>1, <3>1, <3>2
    <3>4. chain'[PoolAccount] = chain[PoolAccount] /\ result' = result
      BY <2>1, <2>2, <2>5 DEF TokenProgramOps
    <3> HIDE DEF r
    <3>5. QED
      BY <1>1, <2>1, <2>5, <3>3, <3>4, BurnSettles
  <2>6. QED
    BY <2>3, <2>4, <2>5 DEF TokenProgramOps
<1>5. QED
  BY <1>3, <1>4

(* Each step of a transaction is a step of DexPool or changes nothing that *)
(* DexPool sees: the last step of a transaction is the instruction.        *)
LEMMA StepImplements ==
  ASSUME IInv, [Next]_vars
  PROVE  [Native!Next]_(Native!vars)
<1>1. CASE UNCHANGED vars
  BY <1>1, SameLedger DEF vars
<1>2. ASSUME NEW u \in Users, NEW r \in Requests(u), Begin(u, r)
      PROVE  [Native!Next]_(Native!vars)
  BY <1>2, SameLedger DEF Begin
<1>3. QED
  BY <1>1, <1>2, RunChecksImplements, InvokeImplements, FinishImplements DEF Next, Step

LEMMA InitImplements ==
  ASSUME Init
  PROVE  Native!Init
<1>1. PICK len \in DataLens :
        chain = [id \in AccountIds |->
                   IF id = PoolAccount THEN NewPool(len)
                   ELSE IF id \in {Mint(t) : t \in Tokens} THEN NumUsers * Endowment
                   ELSE IF id \in {TokenAccount(t, u) : t \in Tokens, u \in Users}
                        THEN Endowment ELSE 0]
  BY DEF Init
<1>2. chain[PoolAccount] = NewPool(len)
  BY <1>1 DEF AccountIds
<1>3. ASSUME NEW m \in Mints
      PROVE  chain[Mint(m)] = IF m \in Tokens THEN NumUsers * Endowment ELSE 0
  <2>1. Mint(m) \in AccountIds /\ Mint(m) # PoolAccount
    BY AccountsDiffer DEF AccountIds
  <2>2. Mint(m) \in {Mint(t) : t \in Tokens} <=> m \in Tokens
    BY AccountsDiffer
  <2>3. Mint(m) \notin {TokenAccount(t, u) : t \in Tokens, u \in Users}
    BY AccountsDiffer, Numbers DEF Mints
  <2>4. QED
    BY <1>1, <2>1, <2>2, <2>3
<1>4. ASSUME NEW m \in Mints, NEW h \in Holders
      PROVE  chain[TokenAccount(m, h)] = IF m \in Tokens /\ h \in Users THEN Endowment ELSE 0
  <2>1. TokenAccount(m, h) \in AccountIds /\ TokenAccount(m, h) # PoolAccount
    BY AccountsDiffer DEF AccountIds
  <2>2. TokenAccount(m, h) \in {TokenAccount(t, u) : t \in Tokens, u \in Users}
          <=> m \in Tokens /\ h \in Users
    BY AccountsDiffer
  <2>3. TokenAccount(m, h) \notin {Mint(t) : t \in Tokens}
    BY AccountsDiffer, Numbers DEF Mints
  <2>4. QED
    BY <1>1, <2>1, <2>2, <2>3
<1>5. [m \in Mints |-> chain[Mint(m)]] = [m \in Mints |-> IF m \in Tokens THEN NumUsers * Endowment ELSE 0]
  BY <1>3
<1>6. [m \in Mints |-> [h \in Holders |-> chain[TokenAccount(m, h)]]]
        = [m \in Mints |-> [h \in Holders |-> IF m \in Tokens /\ h \in Users THEN Endowment ELSE 0]]
  BY <1>4
<1>7. result = "none"
  BY DEF Init
<1>8. QED
  BY <1>2, <1>5, <1>6, <1>7, NativeNames DEF Native!Init, NewPool

(* Every behaviour of overlapping, half-failing transactions is one of     *)
(* DexPool, where an instruction is one step: transactions end as if run   *)
(* one by one, and the error a transaction returns is that of DexPool's    *)
(* first failing check.                                                    *)
THEOREM DexTransactionImplementsDexPool == Spec => ImplementsDexPool
<1>1. Init => Native!Init
  BY InitImplements
<1>2. IInv /\ [Next]_vars => [Native!Next]_(Native!vars)
  BY StepImplements
<1>3. QED
  BY <1>1, <1>2, DexTransactionInvariant, PTL DEF Spec, ImplementsDexPool, Native!Spec

-----------------------------------------------------------------------------
(* DexPool with its theorems, under the mapping of Native: what holds of   *)
(* instructions that are one step holds of transactions.                   *)
Proved ==
  INSTANCE DexPoolProofs WITH
    data_len        <- chain[PoolAccount].data_len,
    is_initialized  <- chain[PoolAccount].is_initialized,
    reserve         <- chain[PoolAccount].reserve,
    lp_supply       <- chain[PoolAccount].lp_supply,
    fee_numerator   <- chain[PoolAccount].fee_numerator,
    fee_denominator <- chain[PoolAccount].fee_denominator,
    supply  <- [m \in Mints |-> chain[Mint(m)]],
    balance <- [m \in Mints |->
                  [holder \in Holders |-> chain[TokenAccount(m, holder)]]],
    Scale   <- 1                   \* of the reported figures, which play no part

(* Native and Proved say the same.                                         *)
LEMMA SameActions ==
  /\ \A numerator, denominator, derived :
       Native!InitializePool(numerator, denominator, derived)
         => Proved!InitializePool(numerator, denominator, derived)
  /\ \A u, a, b, min :
       Native!AddLiquidity(u, a, b, min) => Proved!AddLiquidity(u, a, b, min)
  /\ \A u, lp, min_a, min_b :
       Native!RemoveLiquidity(u, lp, min_a, min_b)
         => Proved!RemoveLiquidity(u, lp, min_a, min_b)
  /\ \A u, n, min, tin :
       Native!Swap(u, n, min, tin) => Proved!Swap(u, n, min, tin)
  /\ Native!GetPoolInfo => Proved!GetPoolInfo
  /\ \A m, from, to, n :
       Native!DirectTransfer(m, from, to, n) => Proved!DirectTransfer(m, from, to, n)
  /\ \A m, from, n :
       Native!DirectBurn(m, from, n) => Proved!DirectBurn(m, from, n)
<1> USE DEF Proved!Check, Native!Check, Proved!Passes, Native!Passes,
            Proved!Failed, Native!Failed, Proved!FirstFailed,
            Native!FirstFailed, Proved!Reject, Native!Reject, Proved!Accept,
            Native!Accept, Proved!poolVars, Native!poolVars, Proved!tokenVars,
            Native!tokenVars, Proved!Parses, Native!Parses, Proved!POOL_SIZE,
            Native!POOL_SIZE, Proved!None, Native!None, Proved!Vault,
            Native!Vault, Proved!CanTransfer, Native!CanTransfer,
            Proved!Transfer, Native!Transfer, Proved!CanMint, Native!CanMint,
            Proved!CanBurn, Native!CanBurn, Proved!ToU64, Native!ToU64,
            Proved!CheckedDiv, Native!CheckedDiv
<1>1. ASSUME NEW numerator, NEW denominator, NEW derived,
             Native!InitializePool(numerator, denominator, derived)
      PROVE  Proved!InitializePool(numerator, denominator, derived)
  BY <1>1 DEF Proved!InitializePool, Native!InitializePool, Proved!InitChecks,
              Native!InitChecks, Proved!DoubleInit, Native!DoubleInit,
              Proved!Tokens, Native!Tokens
<1>2. ASSUME NEW u, NEW a, NEW b, NEW min, Native!AddLiquidity(u, a, b, min)
      PROVE  Proved!AddLiquidity(u, a, b, min)
  BY <1>2 DEF Proved!AddLiquidity, Native!AddLiquidity, Proved!AddChecks,
              Native!AddChecks, Proved!LpTokens, Native!LpTokens,
              Proved!CalculateLpTokens, Native!CalculateLpTokens,
              Proved!IntegerSqrt, Native!IntegerSqrt, Proved!IsSqrt,
              Native!IsSqrt, Proved!Smaller, Native!Smaller,
              Proved!ProportionalShare, Native!ProportionalShare,
              Proved!LpSupplyAfterAdd, Native!LpSupplyAfterAdd
<1>3. ASSUME NEW u, NEW lp, NEW min_a, NEW min_b,
             Native!RemoveLiquidity(u, lp, min_a, min_b)
      PROVE  Proved!RemoveLiquidity(u, lp, min_a, min_b)
  BY <1>3 DEF Proved!RemoveLiquidity, Native!RemoveLiquidity,
              Proved!RemoveChecks, Native!RemoveChecks, Proved!Removal,
              Native!Removal, Proved!RemovalAmount, Native!RemovalAmount,
              Proved!LpSupplyAfterRemove, Native!LpSupplyAfterRemove
<1>4. ASSUME NEW u, NEW n, NEW min, NEW tin, Native!Swap(u, n, min, tin)
      PROVE  Proved!Swap(u, n, min, tin)
  BY <1>4 DEF Proved!Swap, Native!Swap, Proved!SwapChecks, Native!SwapChecks,
              Proved!AmountOut, Native!AmountOut, Proved!SwapOutput,
              Native!SwapOutput, Proved!FeeFactor, Native!FeeFactor,
              Proved!SwapNumerator, Native!SwapNumerator,
              Proved!SwapDenominator, Native!SwapDenominator, Proved!MaxU128,
              Native!MaxU128, Proved!Other, Native!Other,
              Proved!ReserveAfterSwap, Native!ReserveAfterSwap
<1>5. Native!GetPoolInfo => Proved!GetPoolInfo
  BY DEF Proved!GetPoolInfo, Native!GetPoolInfo, Proved!InfoChecks,
         Native!InfoChecks
<1>6. ASSUME NEW m, NEW from, NEW to, NEW n,
             Native!DirectTransfer(m, from, to, n)
      PROVE  Proved!DirectTransfer(m, from, to, n)
  BY <1>6 DEF Proved!DirectTransfer, Native!DirectTransfer
<1>7. ASSUME NEW m, NEW from, NEW n, Native!DirectBurn(m, from, n)
      PROVE  Proved!DirectBurn(m, from, n)
  BY <1>7 DEF Proved!DirectBurn, Native!DirectBurn
<1>8. QED
  BY <1>1, <1>2, <1>3, <1>4, <1>5, <1>6, <1>7

LEMMA ProvedStep ==
  /\ Native!Init => Proved!Init
  /\ [Native!Next]_(Native!vars) => [Proved!Next]_(Proved!vars)
<1>1. Native!Init => Proved!Init
  BY DEF Proved!Init, Native!Init, Proved!Tokens, Native!Tokens, Proved!Mints,
         Native!Mints, Proved!Accounts, Native!Accounts, Proved!Users,
         Native!Users, Proved!Vault, Native!Vault
<1>2. Proved!vars = Native!vars /\ Proved!vars' = Native!vars'
  BY DEF Proved!vars, Native!vars
<1>3. ASSUME Native!Next PROVE Proved!Next
  <2>1. /\ Native!Users = Proved!Users /\ Native!Accounts = Proved!Accounts
        /\ Native!Tokens = Proved!Tokens
    BY DEF Proved!Users, Native!Users, Proved!Accounts, Native!Accounts,
           Proved!Tokens, Native!Tokens, Proved!Vault, Native!Vault
  <2>2. QED
    BY <1>3, <2>1, SameActions DEF Native!Next, Proved!Next
<1>4. QED
  BY <1>1, <1>2, <1>3

LEMMA SpecIsProvedSpec == Spec => Proved!Spec
BY ProvedStep, DexTransactionImplementsDexPool, PTL
   DEF ImplementsDexPool, Native!Spec, Proved!Spec

LEMMA ProvedAssumptions ==
  Proved!DexPoolAssumption /\ Proved!ScaleAssumption
BY MaxU64Assumption, DexTransactionAssumption
   DEF Proved!DexPoolAssumption, Proved!ScaleAssumption, Proved!U64, U64,
       Proved!Mints, Mints, Proved!Tokens, Tokens

LEMMA SameTables ==
  /\ \A u, a, b, min :
       Proved!AddChecks(u, a, b, min) = Native!AddChecks(u, a, b, min)
  /\ \A u, lp, min_a, min_b :
       Proved!RemoveChecks(u, lp, min_a, min_b)
         = Native!RemoveChecks(u, lp, min_a, min_b)
  /\ \A u, n, min, tin :
       Proved!SwapChecks(u, n, min, tin) = Native!SwapChecks(u, n, min, tin)
<1> USE DEF Proved!Check, Native!Check, Proved!Parses, Native!Parses,
            Proved!POOL_SIZE, Native!POOL_SIZE, Proved!None, Native!None,
            Proved!Vault, Native!Vault, Proved!CanTransfer, Native!CanTransfer,
            Proved!CanMint, Native!CanMint, Proved!CanBurn, Native!CanBurn,
            Proved!ToU64, Native!ToU64, Proved!CheckedDiv, Native!CheckedDiv
<1>1. ASSUME NEW u, NEW a, NEW b, NEW min
      PROVE  Proved!AddChecks(u, a, b, min) = Native!AddChecks(u, a, b, min)
  BY DEF Proved!AddChecks, Native!AddChecks, Proved!LpTokens, Native!LpTokens,
         Proved!CalculateLpTokens, Native!CalculateLpTokens,
         Proved!IntegerSqrt, Native!IntegerSqrt, Proved!IsSqrt, Native!IsSqrt,
         Proved!Smaller, Native!Smaller, Proved!ProportionalShare,
         Native!ProportionalShare
<1>2. ASSUME NEW u, NEW lp, NEW min_a, NEW min_b
      PROVE  Proved!RemoveChecks(u, lp, min_a, min_b)
               = Native!RemoveChecks(u, lp, min_a, min_b)
  BY DEF Proved!RemoveChecks, Native!RemoveChecks, Proved!Removal,
         Native!Removal, Proved!RemovalAmount, Native!RemovalAmount
<1>3. ASSUME NEW u, NEW n, NEW min, NEW tin
      PROVE  Proved!SwapChecks(u, n, min, tin)
               = Native!SwapChecks(u, n, min, tin)
  BY DEF Proved!SwapChecks, Native!SwapChecks, Proved!AmountOut,
         Native!AmountOut, Proved!SwapOutput, Native!SwapOutput,
         Proved!FeeFactor, Native!FeeFactor, Proved!SwapNumerator,
         Native!SwapNumerator, Proved!SwapDenominator, Native!SwapDenominator,
         Proved!MaxU128, Native!MaxU128, Proved!Other, Native!Other
<1>4. QED
  BY <1>1, <1>2, <1>3

(* lib.rs: "pre-allocated, size = POOL_SIZE".                              *)
DocumentedSizes == \A size \in DataLens : size \in Nat /\ size <= POOL_SIZE

LEMMA ProvedHypotheses ==
  ASSUME DocumentedSizes
  PROVE  Proved!DocumentedSizes
BY DEF DocumentedSizes, Proved!DocumentedSizes, POOL_SIZE, Proved!POOL_SIZE

(* Whoever else trades at the same time, and whichever transactions fail   *)
(* half way: nobody lowers the value of the shares of others, and whoever  *)
(* holds shares can withdraw them.                                         *)
THEOREM DexTransactionKeepsPromises ==
  ASSUME DocumentedSizes
  PROVE  Spec => /\ Proved!ImplementsFairPool
                 /\ Proved!NoDilution
                 /\ []Proved!Redeemable
<1>1. Proved!Spec => Proved!ImplementsFairPool
  BY ProvedHypotheses, ProvedAssumptions, MaxU64Assumption,
     Proved!DexPoolImplementsFairPool
<1>2. Proved!Spec => Proved!NoDilution
  BY ProvedHypotheses, ProvedAssumptions, MaxU64Assumption,
     Proved!DexPoolNoDilution
<1>3. Proved!Spec => []Proved!Redeemable
  BY ProvedHypotheses, ProvedAssumptions, MaxU64Assumption,
     Proved!DexPoolRedeemable
<1>4. QED
  BY <1>1, <1>2, <1>3, SpecIsProvedSpec, PTL

-----------------------------------------------------------------------------
(* What the definition of Total says, and that it says it of one number.   *)
Adds(f, m) ==
  f = [holder \in Holders |->
         chain[TokenAccount(m, holder)]
           + (IF holder = Vault THEN 0 ELSE f[holder - 1])]

LEMMA AddsOnce ==
  ASSUME NEW m, NEW f, NEW g, Adds(f, m), Adds(g, m)
  PROVE  f[NumUsers] = g[NumUsers]
<1> DEFINE Differ == {h \in Holders : f[h] # g[h]}
<1>1. Holders = 0..NumUsers /\ NumUsers \in Nat \ {0}
  BY DexTransactionAssumption DEF Holders, Users, Vault
<1>2. CASE Differ = {}
  BY <1>1, <1>2
<1>3. CASE Differ # {}
  <2>1. PICK h \in Differ : \A k \in Differ : h <= k
    <3>1. Differ \subseteq Nat
      BY <1>1
    <3> HIDE DEF Differ
    <3>2. QED
      BY <1>3, <3>1, LeastNat
  <2>2. h \in Holders /\ h \in Nat /\ f[h] # g[h]
    BY <1>1, <2>1
  <2>3. /\ f[h] = chain[TokenAccount(m, h)] + (IF h = Vault THEN 0 ELSE f[h - 1])
        /\ g[h] = chain[TokenAccount(m, h)] + (IF h = Vault THEN 0 ELSE g[h - 1])
    BY <2>2 DEF Adds
  <2>4. h # Vault /\ f[h - 1] # g[h - 1]
    BY <2>2, <2>3
  <2>5. h - 1 \in Holders /\ ~(h <= h - 1)
    BY <1>1, <2>2, <2>4 DEF Vault
  <2>6. QED
    BY <2>1, <2>4, <2>5
<1>4. QED
  BY <1>2, <1>3

LEMMA TotalIsSum ==
  ASSUME NEW m \in Mints, NEW row \in [0..NumUsers -> Nat], NEW total,
         SumsTo(row, NumUsers, total),
         \A h \in Holders : row[h] = chain[TokenAccount(m, h)]
  PROVE  Total(m) = total
<1>1. Holders = 0..NumUsers /\ NumUsers \in Nat \ {0} /\ Vault = 0
  BY DexTransactionAssumption DEF Holders, Users, Vault
<1>2. PICK p : Partials(p, row, NumUsers) /\ p[NumUsers] = total
  BY DEF SumsTo
<1>3. Adds(p, m)
  <2>1. p \in [Holders -> Int] /\ p[0] = row[0]
        /\ \A i \in 1..NumUsers : p[i] = p[i - 1] + row[i]
    BY <1>1, <1>2 DEF Partials
  <2>2. ASSUME NEW h \in Holders
        PROVE  p[h] = chain[TokenAccount(m, h)] + (IF h = Vault THEN 0 ELSE p[h - 1])
    <3>1. row[h] = chain[TokenAccount(m, h)] /\ row[h] \in Nat
      BY <1>1
    <3>2. CASE h = 0
      BY <1>1, <2>1, <3>1, <3>2
    <3>3. CASE h # 0
      <4>1. h \in 1..NumUsers /\ h - 1 \in Holders
        BY <1>1, <3>3
      <4>2. p[h] = p[h - 1] + row[h] /\ p[h - 1] \in Int
        BY <2>1, <4>1
      <4>3. QED
        BY <1>1, <3>1, <3>3, <4>2
    <3>4. QED
      BY <3>2, <3>3
  <2>3. QED
    BY <2>1, <2>2 DEF Adds
<1> DEFINE sum == CHOOSE f : Adds(f, m)
<1>4. Adds(sum, m)
  BY <1>3
<1>5. Total(m) = sum[NumUsers]
  BY DEF Total, Adds
<1> HIDE DEF sum
<1>6. QED
  BY <1>2, <1>3, <1>4, <1>5, AddsOnce

(* No token is made or lost: the accounts of each mint add up to its       *)
(* supply in every state, between two calls of a transaction too.          *)
THEOREM DexTransactionConserves ==
  ASSUME DocumentedSizes
  PROVE  Spec => []Conserved
<1>1. Proved!Spec => []Proved!HInv
  BY ProvedHypotheses, ProvedAssumptions, MaxU64Assumption,
     Proved!DexPoolConserves
<1>2. IInv /\ Proved!HInv => Conserved
  <2> SUFFICES ASSUME IInv, Proved!HInv, NEW m \in Mints
               PROVE  Total(m) = chain[Mint(m)]
    BY DEF Conserved
  <2> DEFINE row == [h \in Holders |-> chain[TokenAccount(m, h)]]
  <2>1. Holders = 0..NumUsers
    BY DexTransactionAssumption DEF Holders, Users, Vault
  <2>2. /\ row \in [0..NumUsers -> Nat]
        /\ \A h \in Holders : row[h] = chain[TokenAccount(m, h)]
    <3>1. ASSUME NEW h \in Holders PROVE chain[TokenAccount(m, h)] \in Nat
      <4>1. TokenAccount(m, h) \in AccountIds \ {PoolAccount}
        BY AccountsDiffer DEF AccountIds
      <4>2. QED
        BY <4>1, Numbers DEF IInv, LedgerOK
    <3>2. QED
      BY <2>1, <3>1
  <2>3. Proved!SumsTo(row, NumUsers, chain[Mint(m)])
    BY DEF Proved!HInv, Proved!Sums, Proved!Mints, Proved!Tokens, Mints, Tokens
  <2>4. SumsTo(row, NumUsers, chain[Mint(m)])
    BY <2>3 DEF Proved!SumsTo, SumsTo, Proved!Partials, Partials
  <2> HIDE DEF row
  <2>5. QED
    BY <2>2, <2>4, TotalIsSum
<1>3. QED
  BY <1>1, <1>2, SpecIsProvedSpec, DexTransactionInvariant, PTL

(* When the calls of a transaction have all succeeded, the checked         *)
(* arithmetic of its update does too: the pool's own books never undo what *)
(* the token program let through.                                          *)
THEOREM DexTransactionCallsDecide ==
  ASSUME DocumentedSizes
  PROVE  Spec => []CallsDecide
<1>1. Proved!Spec => []Proved!IInv
  BY ProvedHypotheses, ProvedAssumptions, MaxU64Assumption,
     Proved!DexPoolInvariant
<1>2. IInv /\ Proved!IInv => CallsDecide
  <2> SUFFICES ASSUME IInv, Proved!IInv, NEW u \in Running,
                      tx[u].phase = "calling", tx[u].calls = << >>,
                      Overflows(Updated(tx[u].pool, tx[u].req))
               PROVE  FALSE
    BY DEF CallsDecide
  <2> DEFINE r    == tx[u].req
             full == FullChecks(u, r)
  <2>1. /\ u \in Users /\ r \in Requests(u) /\ HasChecked(tx[u], chain)
        /\ \A i \in 1..Len(Calls(u, tx[u].pool, r)) :
             Accepted(Calls(u, tx[u].pool, r)[i], chain)
    BY RunningTx, CallsSoFar
  <2>2. r.op \notin TokenProgramOps
    <3> SUFFICES ASSUME r.op \in TokenProgramOps PROVE FALSE
      OBVIOUS
    <3>1. Updated(tx[u].pool, r) = NewPool(0)
      BY <2>1 DEF HasChecked, Updated, TokenProgramOps
    <3>2. 0 \in U64
      BY MaxU64Assumption DEF U64
    <3>3. QED
      BY <3>1, <3>2 DEF Overflows, NewPool
  <2>3. tx[u].pool = chain[PoolAccount] /\ Passes(EarlyChecks(chain[PoolAccount], r))
    BY <2>1, <2>2 DEF HasChecked
  <2>4. Failed(full) = {Len(full)}
    BY <2>1, <2>2, <2>3, CallsAreNext
  <2>5. CASE r.op = "AddLiquidity"
    <3>1. u \in Proved!Users /\ r.a \in Amounts /\ r.b \in Amounts
      BY <2>1, <2>5, RequestFields DEF Proved!Users, Users
    <3>2. ~Proved!OnlyLastFails(Proved!AddChecks(u, r.a, r.b, r.min))
      BY <3>1, ProvedAssumptions, MaxU64Assumption, Proved!AddNotLate
    <3>3. Proved!AddChecks(u, r.a, r.b, r.min) = full
      BY <2>5, SameTables DEF FullChecks
    <3>4. QED
      BY <2>4, <3>2, <3>3 DEF Proved!OnlyLastFails, Proved!Failed, Failed
  <2>6. CASE r.op = "RemoveLiquidity"
    <3>1. u \in Proved!Users /\ r.lp \in Amounts
      BY <2>1, <2>6, RequestFields DEF Proved!Users, Users
    <3>2. ~Proved!OnlyLastFails(Proved!RemoveChecks(u, r.lp, r.min_a, r.min_b))
      BY <3>1, ProvedAssumptions, MaxU64Assumption, Proved!RemoveNotLate
    <3>3. Proved!RemoveChecks(u, r.lp, r.min_a, r.min_b) = full
      BY <2>6, SameTables DEF FullChecks
    <3>4. QED
      BY <2>4, <3>2, <3>3 DEF Proved!OnlyLastFails, Proved!Failed, Failed
  <2>7. CASE r.op = "Swap"
    <3>1. u \in Proved!Users /\ r.n \in Amounts /\ r.tin \in Proved!Tokens
      BY <2>1, <2>7, RequestFields DEF Proved!Users, Users, Proved!Tokens, Tokens
    <3>2. ~Proved!OnlyLastFails(Proved!SwapChecks(u, r.n, r.min, r.tin))
      BY <3>1, ProvedAssumptions, MaxU64Assumption, Proved!SwapNotLate
    <3>3. Proved!SwapChecks(u, r.n, r.min, r.tin) = full
      BY <2>7, SameTables DEF FullChecks
    <3>4. QED
      BY <2>4, <3>2, <3>3 DEF Proved!OnlyLastFails, Proved!Failed, Failed
  <2>8. CASE r.op \in {"InitializePool", "GetPoolInfo"}
    <3>1. Table(u, r, 4, 0) \/ Table(u, r, 2, 0)
      BY <2>1, <2>8, InitializeTable, InfoTable
    <3>2. ~Overflows(Updated(chain[PoolAccount], r))
      BY <2>3, <3>1 DEF Table
    <3>3. QED
      BY <2>3, <3>2
  <2>9. QED
    BY <2>1, <2>2, <2>5, <2>6, <2>7, <2>8, RequestFields DEF TokenProgramOps
<1>3. QED
  BY <1>1, <1>2, SpecIsProvedSpec, DexTransactionInvariant, PTL
=============================================================================
