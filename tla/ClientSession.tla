---------------------------- MODULE ClientSession ----------------------------
(***************************************************************************)
(* The example client (src/examples/client.rs): one session of main, from  *)
(* the airdrop to the last report, against a cluster that answers late,    *)
(* wrongly or not at all.                                                  *)
(*                                                                         *)
(* send_and_confirm_transaction returns Ok when the transaction took       *)
(* effect.  When it returns an error the client cannot tell whether the    *)
(* transaction was refused, was dropped, has taken effect, or will still   *)
(* do so after the call returned.  What the DEX does with a transaction is *)
(* module DexPool, with the client as its only user.                       *)
(***************************************************************************)
EXTENDS AmmMath, Sequences, Functions

CONSTANTS
  InitialMint,               \* tokens of each kind minted to the user
  DepositAmount,             \* token_a_amount, token_b_amount
  SwapIn,                    \* amount_in
  Burned,                    \* lp_amount
  FeeNumerator, FeeDenominator

ASSUME ClientSessionAssumption ==
  {InitialMint, DepositAmount, SwapIn, Burned, FeeNumerator, FeeDenominator} \subseteq U64

-----------------------------------------------------------------------------
(* The steps of main after the airdrop, in the order of the code.          *)

SetupSteps ==
  << "mint_a", "mint_b", "user_a", "user_b", "fund_a", "fund_b",
     "vault_a", "vault_b", "lp_mint", "user_lp", "create_pool" >>

ReportsBeforeSwap ==                                              \* mutant
  SetupSteps \o
  << "init", "add", "local_add", "info_add", "local_swap", "swap", "info_swap",
     "remove", "local_remove", "info_remove" >>
Script ==
  SetupSteps \o
  << "init", "add", "local_add", "info_add", "swap", "local_swap", "info_swap",
     "remove", "local_remove", "info_remove" >>

Setup       == Range(SetupSteps)
Operations  == {"init", "add", "swap", "remove"}
LocalReads  == {"local_add", "local_swap", "local_remove"}
InfoQueries == {"info_add", "info_swap", "info_remove"}
Transactions == Setup \cup Operations \cup InfoQueries

VARIABLES
  data_len, is_initialized, reserve, lp_supply, fee_numerator, fee_denominator,
  balance, supply, result,   \* the ledger: module DexPool
  airdrop,                   \* "unsent", "pending", "confirmed" or "lost"
  client,                    \* what main is doing, or how it ended
  at,                        \* the step it is at: an index of Script
  fate,                      \* [transaction] |-> what became of it on the ledger
  told,                      \* [transaction] |-> what the client was told
  logs,                      \* [info query] |-> the figures the program logged
  printed                    \* [local read or info query] |-> figures printed

ledger == <<data_len, is_initialized, reserve, lp_supply,
            fee_numerator, fee_denominator, balance, supply, result>>
vars   == <<ledger, airdrop, client, at, fate, told, logs, printed>>

Dex == INSTANCE DexPool WITH
  NumUsers <- 1, Endowment <- InitialMint, DataLens <- {0, 202},
  Fees <- {<<FeeNumerator, FeeDenominator>>},
  Amounts <- {DepositAmount, SwapIn, Burned}, Minimums <- {0},
  DirectTransfers <- {}, DirectBurns <- {}

user == 1

NoReport == [a |-> None, b |-> None, lp |-> None]
PoolReport == [a |-> reserve["A"], b |-> reserve["B"], lp |-> lp_supply]

Init ==
  /\ data_len = 0 /\ is_initialized = FALSE
  /\ reserve = [t \in Dex!Tokens |-> 0]
  /\ lp_supply = 0 /\ fee_numerator = 0 /\ fee_denominator = 0
  /\ balance = [m \in Dex!Mints |-> [a \in Dex!Accounts |-> 0]]
  /\ supply = [m \in Dex!Mints |-> 0]
  /\ result = "none"
  /\ airdrop = "unsent" /\ client = "starting" /\ at = 1
  /\ fate = [s \in Transactions |-> "unsent"]
  /\ told = [s \in Transactions |-> "nothing"]
  /\ logs = [s \in InfoQueries |-> NoReport]
  /\ printed = [s \in LocalReads \cup InfoQueries |-> NoReport]

-----------------------------------------------------------------------------
(* The airdrop.                                                            *)

RequestAirdrop ==
  /\ client = "starting"
  /\ \/ airdrop' = "pending" /\ client' = "polling"
     \/ UNCHANGED airdrop /\ client' = "panicked"       \* expect
  /\ UNCHANGED <<ledger, at, fate, told, logs, printed>>

AirdropFate ==                                          \* the cluster
  /\ airdrop = "pending"
  /\ airdrop' \in {"confirmed", "lost"}
  /\ UNCHANGED <<ledger, client, at, fate, told, logs, printed>>

(* confirm_transaction(..).unwrap_or(false) is true, which takes a         *)
(* confirmed airdrop and a node that says so.  A false or an error sleeps  *)
(* and polls again, which changes nothing; it may be the answer for ever.  *)
PollAirdrop ==
  /\ client = "polling" /\ airdrop = "confirmed"
  /\ client' = "running"
  /\ UNCHANGED <<ledger, airdrop, at, fate, told, logs, printed>>

-----------------------------------------------------------------------------
(* The client.                                                             *)

step == Script[at]
PastTheEnd ==                                                     \* mutant
  /\ at' = at + 1
  /\ client' = IF at > Len(Script) THEN "done" ELSE "running"
Proceed ==
  /\ at' = at + 1
  /\ client' = IF at = Len(Script) THEN "done" ELSE "running"
Stop(how) == client' = how /\ UNCHANGED at

Submit ==
  /\ client = "running" /\ step \in Transactions
  /\ fate' = [fate EXCEPT ![step] = "sent"]
  /\ client' = "waiting"
  /\ UNCHANGED <<ledger, airdrop, at, told, logs, printed>>

(* get_latest_blockhash().unwrap(), or the rent query, fails.              *)
NoBlockhash ==
  /\ client = "running" /\ step \in Transactions
  /\ Stop("panicked")
  /\ UNCHANGED <<ledger, airdrop, fate, told, logs, printed>>

(* send_and_confirm_transaction returns Ok, and for a query the client may *)
(* then get the logs.                                                      *)
Confirmed ==
  /\ client = "waiting" /\ fate[step] = "done"
  /\ told' = [told EXCEPT ![step] = "Ok"]
  /\ IF step \in InfoQueries
     THEN printed' \in {printed, [printed EXCEPT ![step] = logs[step]]}
     ELSE UNCHANGED printed
  /\ Proceed
  /\ UNCHANGED <<ledger, airdrop, fate, logs>>

(* It returns an error: setup unwraps it, InitializePool, AddLiquidity and *)
(* Swap return from main, the others are only printed.                     *)
RetriedOnError(s) ==                                              \* mutant
  IF s \in Setup THEN Stop("panicked") ELSE client' = "running" /\ UNCHANGED at
SwapErrorPrinted(s) ==                                            \* mutant
  IF s \in Setup THEN Stop("panicked")
  ELSE IF s \in {"init", "add"} THEN Stop("returned")
  ELSE Proceed
OnError(s) ==
  IF s \in Setup THEN Stop("panicked")
  ELSE IF s \in {"init", "add", "swap"} THEN Stop("returned")
  ELSE Proceed

Failed ==
  /\ client = "waiting"
  /\ told' = [told EXCEPT ![step] = "Err"]
  /\ OnError(step)
  /\ UNCHANGED <<ledger, airdrop, fate, logs, printed>>

(* print_pool_info_local: the account as it is now, or a failure to fetch  *)
(* or deserialise it.                                                      *)
PrintLocal ==
  /\ client = "running" /\ step \in LocalReads
  /\ \/ Dex!Parses /\ printed' = [printed EXCEPT ![step] = PoolReport]
     \/ UNCHANGED printed
  /\ Proceed
  /\ UNCHANGED <<ledger, airdrop, fate, told, logs>>

-----------------------------------------------------------------------------
(* The cluster.  A submitted transaction takes effect, or never does, at   *)
(* any time: also after the client has given up on it.                     *)

poolFields == <<is_initialized, reserve, lp_supply, fee_numerator, fee_denominator>>

(* A new mint or token account holds nothing, as DexPool has it anyway.    *)
CreateMint(s) ==
  /\ s \in {"mint_a", "mint_b", "lp_mint"}
  /\ result' = "Ok"
  /\ UNCHANGED <<data_len, poolFields, balance, supply>>

CreateTokenAccount(s) ==
  /\ s \in {"user_a", "user_b", "vault_a", "vault_b", "user_lp"}
  /\ result' = "Ok"
  /\ UNCHANGED <<data_len, poolFields, balance, supply>>

MintTo(t) ==
  /\ balance' = [balance EXCEPT ![t][user] = @ + InitialMint]
  /\ supply'  = [supply EXCEPT ![t] = @ + InitialMint]
  /\ result' = "Ok"
  /\ UNCHANGED <<data_len, poolFields>>

CreatePool ==
  /\ data_len' = Dex!POOL_SIZE
  /\ result' = "Ok"
  /\ UNCHANGED <<poolFields, balance, supply>>

InitializePool  == Dex!InitializePool(FeeNumerator, FeeDenominator, TRUE)
AddLiquidity    == Dex!AddLiquidity(user, DepositAmount, DepositAmount, 0)
Swap            == Dex!Swap(user, SwapIn, 0, "A")
RemoveLiquidity == Dex!RemoveLiquidity(user, Burned, 0, 0)

Effect(s) ==
  \/ CreateMint(s) \/ CreateTokenAccount(s)
  \/ s = "fund_a" /\ MintTo("A")
  \/ s = "fund_b" /\ MintTo("B")
  \/ s = "create_pool" /\ CreatePool
  \/ s = "init"   /\ InitializePool
  \/ s = "add"    /\ AddLiquidity
  \/ s = "swap"   /\ Swap
  \/ s = "remove" /\ RemoveLiquidity
  \/ s \in InfoQueries /\ Dex!GetPoolInfo

Execute(s) ==
  /\ fate[s] = "sent"
  /\ Effect(s)
  /\ fate' = [fate EXCEPT ![s] = IF result' = "Ok" THEN "done" ELSE "failed"]
  /\ logs' = IF s \in InfoQueries /\ result' = "Ok"
             THEN [logs EXCEPT ![s] = PoolReport] ELSE logs
  /\ UNCHANGED <<airdrop, client, at, told, printed>>

(* Refused by the node, or not in a block before its blockhash expires.    *)
Drop(s) ==
  /\ fate[s] = "sent"
  /\ fate' = [fate EXCEPT ![s] = "dropped"]
  /\ UNCHANGED <<ledger, airdrop, client, at, told, logs, printed>>

-----------------------------------------------------------------------------
Ended == client \in {"done", "returned", "panicked"}

(* What the client does when the call it has made returns, whatever the    *)
(* answer.  Of a poll of the airdrop only the answer true moves it on.     *)
CallReturns ==
  RequestAirdrop \/ Submit \/ NoBlockhash \/ Confirmed \/ Failed \/ PrintLocal

ClientStep == CallReturns \/ PollAirdrop

Next ==
  \/ ClientStep
  \/ AirdropFate
  \/ \E s \in Transactions : Execute(s) \/ Drop(s)

Spec == Init /\ [][Next]_vars

(* The client keeps running, and every call it makes returns at some time. *)
(* Nothing says that polling ever succeeds, confirmed airdrop or not.      *)
FairSpec == Spec /\ WF_vars(CallReturns)

-----------------------------------------------------------------------------
Figures == [a : U64, b : U64, lp : U64] \cup {NoReport}

TypeOK ==
  /\ airdrop \in {"unsent", "pending", "confirmed", "lost"}
  /\ client \in {"starting", "polling", "running", "waiting", "done", "returned",
                 "panicked"}
  /\ at \in 1..Len(Script) + 1 /\ (client = "done" <=> at > Len(Script))
  /\ Dex!TypeOK
  /\ fate \in [Transactions -> {"unsent", "sent", "done", "failed", "dropped"}]
  /\ told \in [Transactions -> {"nothing", "Ok", "Err"}]
  /\ logs \in [InfoQueries -> Figures]
  /\ printed \in [LocalReads \cup InfoQueries -> Figures]

(* Whatever is lost or late, the ledger sees the script in order and       *)
(* without gaps: a transaction takes effect only when everything before it *)
(* in main has, queries aside.  In particular a transaction that takes     *)
(* effect after the client has given up on it is the last one it sent,     *)
(* or RemoveLiquidity followed by a query.                                 *)
InOrder ==
  \A i, j \in 1..Len(Script) :
    /\ i < j
    /\ Script[i] \in Setup \cup {"init", "add", "swap"}
    /\ Script[j] \in Transactions /\ fate[Script[j]] = "done"
    => fate[Script[i]] = "done"

(* The pool after each operation, by the arithmetic of the program.        *)
Minted == CalculateLpTokens(DepositAmount, DepositAmount, 0, 0, 0)
Bought == SwapOutput(SwapIn, DepositAmount, DepositAmount, FeeNumerator, FeeDenominator)

AfterAdd  == [a |-> DepositAmount, b |-> DepositAmount, lp |-> Minted]
AfterSwap == [a |-> DepositAmount + SwapIn, b |-> DepositAmount - Bought, lp |-> Minted]
AfterRemove ==
  [a  |-> AfterSwap.a - RemovalAmount(Burned, AfterSwap.a, Minted),
   b  |-> AfterSwap.b - RemovalAmount(Burned, AfterSwap.b, Minted),
   lp |-> Minted - Burned]

Shows(reads, operation, figures) ==
  told[operation] = "Ok" => \A r \in reads : printed[r] \in {NoReport, figures}

(* "Pool Info after": what the client prints after an operation it was     *)
(* told succeeded is the pool right after that operation, read from the    *)
(* account and logged by the program alike, or nothing.                    *)
ReportsShowOperation ==
  /\ Shows({"local_add", "info_add"}, "add", AfterAdd)
  /\ Shows({"local_swap", "info_swap"}, "swap", AfterSwap)
  /\ Shows({"local_remove", "info_remove"}, "remove", AfterRemove)

(* The only place where a session can stay for ever is the loop that polls *)
(* for the airdrop, which has no limit.  Whatever is lost, late or refused *)
(* after it, the client comes to an end.                                   *)
SessionEnds == <>Ended \/ <>[](client = "polling")

(* "DEX Demo Client execution completed successfully!" is printed at the   *)
(* end of main.  The code prints it too when removing liquidity failed.    *)
SuccessMeansAllDone ==
  client = "done" => \A s \in Operations : fate[s] = "done"
=============================================================================
