------------------------- MODULE ClientSessionProofs -------------------------
(***************************************************************************)
(* The session of the example client takes effect in order and reports     *)
(* what it did, for every width, amount and fee, however late the cluster  *)
(* is and whatever it answers.                                             *)
(***************************************************************************)
EXTENDS ClientSession, SequenceTheorems, TLAPS

-----------------------------------------------------------------------------
(* The inductive invariant.                                                *)

Steps    == 1..Len(Script)
Place(s) == CHOOSE i \in Steps : Script[i] = s        \* of a step in main

Reports  == LocalReads \cup InfoQueries
Required == Setup \cup {"init", "add", "swap"}        \* main ends if one fails

(* How far the client is, and what that says of what it has sent.          *)
ClientTypes ==
  /\ airdrop \in {"unsent", "pending", "confirmed", "lost"}
  /\ client \in {"starting", "polling", "running", "waiting", "done", "returned",
                 "panicked"}
  /\ at \in 1..Len(Script) + 1 /\ (client = "done" <=> at > Len(Script))
  /\ fate \in [Transactions -> {"unsent", "sent", "done", "failed", "dropped"}]
  /\ told \in [Transactions -> {"nothing", "Ok", "Err"}]
  /\ logs \in [InfoQueries -> Figures]
  /\ printed \in [Reports -> Figures]

UnsentAhead ==
  \A s \in Transactions :
    Place(s) > at \/ (Place(s) = at /\ client \in {"starting", "polling", "running"})
      => fate[s] = "unsent"

DoneBehind ==
  \A s \in Transactions :
    /\ Place(s) < at /\ s \in Required => fate[s] = "done"
    /\ told[s] = "Ok" => Place(s) < at /\ fate[s] = "done"

UnprintedAhead == \A s \in Reports : Place(s) >= at => printed[s] = NoReport

(* What the ledger has seen, and what that says of the pool.               *)
NotFunded(t) ==
  balance[t] = [a \in Dex!Accounts |-> 0] /\ supply[t] = 0

PoolFollows ==
  /\ fate["fund_a"] # "done" => NotFunded("A")
  /\ fate["fund_b"] # "done" => NotFunded("B")
  /\ is_initialized <=> fate["init"] = "done"
  /\ is_initialized =>
       fee_numerator = FeeNumerator /\ fee_denominator = FeeDenominator
  /\ fate["add"] # "done" =>
       reserve = [t \in Dex!Tokens |-> 0] /\ lp_supply = 0
  /\ fate["add"] = "done" /\ fate["swap"] # "done" => PoolReport = AfterAdd
  /\ fate["swap"] = "done" /\ fate["remove"] # "done" => PoolReport = AfterSwap
  /\ fate["remove"] = "done" => PoolReport = AfterRemove

(* What a query logged is what its answer will show.                       *)
LogsFollow ==
  /\ fate["info_add"] = "done" /\ fate["swap"] = "unsent"
       => logs["info_add"] = AfterAdd
  /\ fate["info_swap"] = "done" /\ fate["remove"] = "unsent"
       => logs["info_swap"] = AfterSwap
  /\ fate["info_remove"] = "done" /\ told["remove"] = "Ok"
       => logs["info_remove"] = AfterRemove

(* The program's theorems, with the client as its only user.               *)
Proved == INSTANCE DexPoolProofs WITH
  NumUsers <- 1, Endowment <- InitialMint, DataLens <- {0, 202},
  Fees <- {<<FeeNumerator, FeeDenominator>>},
  Amounts <- {DepositAmount, SwapIn, Burned}, Minimums <- {0},
  DirectTransfers <- {}, DirectBurns <- {},
  Scale <- 1                       \* of the reported figures, which play no part

IInv ==
  /\ ClientTypes
  /\ UnsentAhead /\ DoneBehind /\ UnprintedAhead
  /\ PoolFollows /\ LogsFollow
  /\ ReportsShowOperation
  /\ Proved!IInv /\ Proved!Named

-----------------------------------------------------------------------------
(* The order of main.                                                      *)
LEMMA ScriptIs ==
  /\ Len(Script) = 21
  /\ Script[1] = "mint_a" /\ Script[2] = "mint_b" /\ Script[3] = "user_a"
  /\ Script[4] = "user_b" /\ Script[5] = "fund_a" /\ Script[6] = "fund_b"
  /\ Script[7] = "vault_a" /\ Script[8] = "vault_b" /\ Script[9] = "lp_mint"
  /\ Script[10] = "user_lp" /\ Script[11] = "create_pool"
  /\ Script[12] = "init" /\ Script[13] = "add" /\ Script[14] = "local_add"
  /\ Script[15] = "info_add" /\ Script[16] = "swap" /\ Script[17] = "local_swap"
  /\ Script[18] = "info_swap" /\ Script[19] = "remove"
  /\ Script[20] = "local_remove" /\ Script[21] = "info_remove"
BY DEF Script, SetupSteps

LEMMA SetupIs ==
  Setup = {"mint_a", "mint_b", "user_a", "user_b", "fund_a", "fund_b", "vault_a",
           "vault_b", "lp_mint", "user_lp", "create_pool"}
BY DEF Setup, Range, SetupSteps

LEMMA ScriptOnce ==
  ASSUME NEW i \in Steps, NEW j \in Steps, Script[i] = Script[j]
  PROVE  i = j
<1>1. i \in 1..21 /\ j \in 1..21
  BY ScriptIs DEF Steps
<1>2. QED
  BY <1>1, ScriptIs

LEMMA Places ==
  /\ Steps = 1..21
  /\ \A i \in Steps : Place(Script[i]) = i
  /\ \A s \in Setup : Place(s) \in 1..11
  /\ Place("fund_a") = 5 /\ Place("fund_b") = 6 /\ Place("create_pool") = 11
  /\ Place("init") = 12 /\ Place("add") = 13 /\ Place("swap") = 16
  /\ Place("remove") = 19
  /\ Place("local_add") = 14 /\ Place("local_swap") = 17
  /\ Place("local_remove") = 20
  /\ Place("info_add") = 15 /\ Place("info_swap") = 18
  /\ Place("info_remove") = 21
  /\ \A s \in Transactions \cup LocalReads :
       Place(s) \in Steps /\ Script[Place(s)] = s
<1>1. Steps = 1..21
  BY ScriptIs DEF Steps
<1>2. ASSUME NEW i \in Steps PROVE Place(Script[i]) = i
  BY ScriptOnce DEF Place
<1>3. /\ \A i \in 1..11 : Script[i] \in Setup
      /\ \A s \in Setup : \E i \in 1..11 : Script[i] = s
  BY ScriptIs, SetupIs
<1>4. /\ Place("fund_a") = 5 /\ Place("fund_b") = 6 /\ Place("create_pool") = 11
      /\ Place("init") = 12 /\ Place("add") = 13 /\ Place("swap") = 16
      /\ Place("remove") = 19
      /\ Place("local_add") = 14 /\ Place("local_swap") = 17
      /\ Place("local_remove") = 20
      /\ Place("info_add") = 15 /\ Place("info_swap") = 18
      /\ Place("info_remove") = 21
  <2>1. {5, 6, 11, 12, 13, 14, 15, 16, 17, 18, 19, 20, 21} \subseteq Steps
    BY <1>1
  <2>2. QED
    BY <2>1, <1>2, ScriptIs
<1>5. \A s \in Setup : Place(s) \in 1..11 /\ Script[Place(s)] = s
  BY <1>1, <1>2, <1>3
<1>6. \A s \in Transactions \cup LocalReads :
        Place(s) \in Steps /\ Script[Place(s)] = s
  BY <1>1, <1>4, <1>5, ScriptIs
     DEF Transactions, Operations, InfoQueries, LocalReads
<1>7. QED
  BY <1>1, <1>2, <1>4, <1>5, <1>6

(* The step the client is at.                                              *)
LEMMA AtStep ==
  ASSUME ClientTypes, client # "done"
  PROVE  /\ at \in Steps /\ at \in Nat
         /\ Place(step) = at
         /\ \A s \in Transactions \cup LocalReads : Place(s) = at => s = step
BY Places, ScriptIs DEF ClientTypes, Steps, step

-----------------------------------------------------------------------------
(* The client's steps, which leave the ledger alone.                       *)
LEMMA ProvedAssumptions ==
  /\ Proved!DexPoolAssumption /\ Proved!ScaleAssumption
  /\ Proved!DocumentedSizes
BY MaxU64Assumption, ClientSessionAssumption
   DEF Proved!DexPoolAssumption, Proved!ScaleAssumption, Proved!DocumentedSizes,
       Proved!POOL_SIZE, Proved!U64, U64, Proved!Mints, Proved!Tokens

LEMMA SameLedger ==
  ASSUME IInv, UNCHANGED ledger,
         \A s \in Transactions : fate'[s] = "done" <=> fate[s] = "done"
  PROVE  PoolFollows' /\ Proved!IInv' /\ Proved!Named'
<1>1. UNCHANGED Proved!vars
  BY DEF ledger, Proved!vars
<1>2. Proved!IInv' /\ Proved!Named'
  BY <1>1, ProvedAssumptions, MaxU64Assumption, Proved!StepIInv,
     Proved!ResultIsNamed DEF IInv
<1>3. {"fund_a", "fund_b", "init", "add", "swap", "remove"} \subseteq Transactions
  BY SetupIs DEF Transactions, Operations
<1>4. PoolFollows'
  BY <1>3 DEF IInv, PoolFollows, NotFunded, PoolReport, ledger
<1>5. QED
  BY <1>2, <1>4

LEMMA AirdropKeepsInv ==
  ASSUME IInv, RequestAirdrop \/ AirdropFate \/ PollAirdrop
  PROVE  IInv'
<1>1. UNCHANGED <<ledger, at, fate, told, logs, printed>>
  BY DEF RequestAirdrop, AirdropFate, PollAirdrop
<1>2. PoolFollows' /\ Proved!IInv' /\ Proved!Named'
  BY <1>1, SameLedger DEF IInv, ClientTypes
<1>3. ClientTypes'
  BY <1>1 DEF IInv, ClientTypes, RequestAirdrop, AirdropFate, PollAirdrop
<1>4. UnsentAhead'
  BY <1>1 DEF IInv, UnsentAhead, RequestAirdrop, AirdropFate, PollAirdrop
<1>5. DoneBehind' /\ UnprintedAhead' /\ LogsFollow' /\ ReportsShowOperation'
  BY <1>1 DEF IInv, DoneBehind, UnprintedAhead, LogsFollow,
              ReportsShowOperation, Shows
<1>6. QED
  BY <1>2, <1>3, <1>4, <1>5 DEF IInv

LEMMA SubmitKeepsInv ==
  ASSUME IInv, Submit
  PROVE  IInv'
<1>1. /\ client = "running" /\ step \in Transactions /\ client' = "waiting"
      /\ fate' = [fate EXCEPT ![step] = "sent"]
      /\ UNCHANGED <<ledger, airdrop, at, told, logs, printed>>
  BY DEF Submit
<1>2. Place(step) = at /\ fate[step] = "unsent" /\ at \in Nat
  BY <1>1, AtStep DEF IInv, UnsentAhead
<1>3. ClientTypes'
  BY <1>1 DEF IInv, ClientTypes
<1>4. \A s \in Transactions : s # step => fate'[s] = fate[s]
  BY <1>1 DEF IInv, ClientTypes
<1>5. fate'[step] = "sent"
  BY <1>1 DEF IInv, ClientTypes
<1>6. PoolFollows' /\ Proved!IInv' /\ Proved!Named'
  BY <1>1, <1>2, <1>3, <1>4, <1>5, SameLedger DEF ClientTypes
<1>7. UnsentAhead'
  BY <1>1, <1>2, <1>4 DEF IInv, UnsentAhead
<1>8. DoneBehind'
  BY <1>1, <1>2, <1>4 DEF IInv, DoneBehind
<1>9. UnprintedAhead' /\ ReportsShowOperation'
  BY <1>1 DEF IInv, UnprintedAhead, ReportsShowOperation, Shows
<1>10. LogsFollow'
  <2>1. {"info_add", "info_swap", "info_remove", "swap", "remove"}
          \subseteq Transactions
    BY DEF Transactions, Operations, InfoQueries
  <2>2. QED
    BY <1>1, <1>4, <1>5, <2>1 DEF IInv, LogsFollow
<1>11. QED
  BY <1>3, <1>6, <1>7, <1>8, <1>9, <1>10 DEF IInv

LEMMA NoBlockhashKeepsInv ==
  ASSUME IInv, NoBlockhash
  PROVE  IInv'
<1>1. /\ client' = "panicked" /\ client = "running"
      /\ UNCHANGED <<ledger, airdrop, at, fate, told, logs, printed>>
  BY DEF NoBlockhash, Stop
<1>2. PoolFollows' /\ Proved!IInv' /\ Proved!Named'
  BY <1>1, SameLedger
<1>3. ClientTypes' /\ UnsentAhead'
  BY <1>1 DEF IInv, ClientTypes, UnsentAhead
<1>4. DoneBehind' /\ UnprintedAhead' /\ LogsFollow' /\ ReportsShowOperation'
  BY <1>1 DEF IInv, DoneBehind, UnprintedAhead, LogsFollow,
              ReportsShowOperation, Shows
<1>5. QED
  BY <1>2, <1>3, <1>4 DEF IInv

(* Going on from a step that main can do without, or that took effect.     *)
LEMMA ProceedKeepsPlace ==
  ASSUME IInv, Proceed, client # "done", UNCHANGED fate,
         step \in Required => fate[step] = "done",
         NEW answer, told' = told \/ told' = [told EXCEPT ![step] = answer],
         answer = "Ok" => fate[step] = "done",
         \A s \in Reports : s # step => printed'[s] = printed[s]
  PROVE  /\ UnsentAhead' /\ DoneBehind' /\ UnprintedAhead'
         /\ at' \in 1..Len(Script) + 1 /\ (client' = "done" <=> at' > Len(Script))
         /\ client' \in {"running", "done"}
<1>1. at' = at + 1 /\ client' = IF at = 21 THEN "done" ELSE "running"
  BY ScriptIs DEF Proceed
<1>2. at \in 1..21 /\ Place(step) = at
  BY AtStep, Places DEF IInv
<1>3. \A s \in Transactions \cup Reports :
        Place(s) \in 1..21 /\ (Place(s) = at => s = step)
  BY AtStep, Places DEF IInv, Reports, Transactions
<1>4. UnsentAhead'
  BY <1>1, <1>2, <1>3 DEF IInv, UnsentAhead
<1>5. DoneBehind'
  <2> SUFFICES ASSUME NEW s \in Transactions
               PROVE  /\ Place(s) < at' /\ s \in Required => fate[s] = "done"
                      /\ told'[s] = "Ok" => Place(s) < at' /\ fate[s] = "done"
    BY DEF DoneBehind
  <2>1. CASE s = step
    BY <1>1, <1>2, <2>1 DEF IInv, ClientTypes, DoneBehind
  <2>2. CASE s # step
    <3>1. told'[s] = told[s]
      BY <2>2 DEF IInv, ClientTypes
    <3>2. Place(s) < at' => Place(s) < at
      BY <1>1, <1>2, <1>3, <2>2
    <3>3. Place(s) < at => Place(s) < at'
      BY <1>1, <1>2, <1>3
    <3>4. QED
      BY <3>1, <3>2, <3>3 DEF IInv, DoneBehind
  <2>3. QED
    BY <2>1, <2>2
<1>6. UnprintedAhead'
  BY <1>1, <1>2, <1>3 DEF IInv, UnprintedAhead
<1>7. QED
  BY <1>1, <1>2, <1>4, <1>5, <1>6, ScriptIs

LEMMA FailedKeepsInv ==
  ASSUME IInv, Failed
  PROVE  IInv'
<1>1. /\ client = "waiting" /\ told' = [told EXCEPT ![step] = "Err"]
      /\ UNCHANGED <<ledger, airdrop, fate, logs, printed>>
  BY DEF Failed
<1>2. PoolFollows' /\ Proved!IInv' /\ Proved!Named'
  BY <1>1, SameLedger
<1>3. LogsFollow' /\ ReportsShowOperation'
  <2>1. \A s \in Transactions : told'[s] = "Ok" => told[s] = "Ok"
    BY <1>1 DEF IInv, ClientTypes
  <2>2. {"add", "swap", "remove"} \subseteq Transactions
    BY DEF Transactions, Operations
  <2>3. QED
    BY <1>1, <2>1, <2>2 DEF IInv, LogsFollow, ReportsShowOperation, Shows
<1>4. CASE \E how \in {"panicked", "returned"} : Stop(how)
  <2>1. UNCHANGED at /\ client' \in {"panicked", "returned"}
    BY <1>4 DEF Stop
  <2>2. ClientTypes' /\ UnsentAhead' /\ UnprintedAhead'
    BY <1>1, <2>1 DEF IInv, ClientTypes, UnsentAhead, UnprintedAhead
  <2>3. DoneBehind'
    BY <1>1, <2>1 DEF IInv, ClientTypes, DoneBehind
  <2>4. QED
    BY <1>2, <1>3, <2>2, <2>3 DEF IInv
<1>5. CASE Proceed /\ step \notin Required
  <2>1. UnsentAhead' /\ DoneBehind' /\ UnprintedAhead'
        /\ at' \in 1..Len(Script) + 1 /\ (client' = "done" <=> at' > Len(Script))
        /\ client' \in {"running", "done"}
    BY <1>1, <1>5, ProceedKeepsPlace
  <2>2. ClientTypes'
    BY <1>1, <2>1 DEF IInv, ClientTypes
  <2>3. QED
    BY <1>2, <1>3, <2>1, <2>2 DEF IInv
<1>6. QED
  BY <1>4, <1>5 DEF Failed, OnError, Required

(* Which report is about which operation, and where they stand in main.    *)
About(r) ==
  CASE r \in {"local_add", "info_add"}       -> "add"
    [] r \in {"local_swap", "info_swap"}     -> "swap"
    [] r \in {"local_remove", "info_remove"} -> "remove"
Figured(r) ==
  CASE r \in {"local_add", "info_add"}       -> AfterAdd
    [] r \in {"local_swap", "info_swap"}     -> AfterSwap
    [] r \in {"local_remove", "info_remove"} -> AfterRemove

LEMMA EachReport ==
  /\ ReportsShowOperation <=>
       \A r \in Reports : told[About(r)] = "Ok" => printed[r] \in {NoReport, Figured(r)}
  /\ \A r \in Reports : About(r) \in Transactions /\ Place(About(r)) < Place(r)
<1>1. Reports = {"local_add", "info_add", "local_swap", "info_swap",
                 "local_remove", "info_remove"}
  BY DEF Reports, LocalReads, InfoQueries
<1>2. ReportsShowOperation <=>
        \A r \in Reports : told[About(r)] = "Ok" => printed[r] \in {NoReport, Figured(r)}
  BY <1>1 DEF ReportsShowOperation, Shows, About, Figured
<1>3. \A r \in Reports : About(r) \in Transactions /\ Place(About(r)) < Place(r)
  BY <1>1, Places DEF About, Transactions, Operations
<1>4. QED
  BY <1>2, <1>3

(* When the answer to a query arrives, the log shows what was asked for.   *)
LEMMA LogIsFigured ==
  ASSUME IInv, client = "waiting", step \in InfoQueries, fate[step] = "done",
         told[About(step)] = "Ok"
  PROVE  logs[step] = Figured(step)
<1>1. Place(step) = at
  BY AtStep DEF IInv
<1>2. /\ Place("swap") > Place("info_add") /\ Place("remove") > Place("info_swap")
      /\ "swap" \in Transactions /\ "remove" \in Transactions
  BY Places DEF Transactions, Operations
<1>3. /\ step = "info_add" => fate["swap"] = "unsent"
      /\ step = "info_swap" => fate["remove"] = "unsent"
  BY <1>1, <1>2 DEF IInv, UnsentAhead
<1>4. CASE step = "info_add"
  BY <1>3, <1>4 DEF IInv, LogsFollow, Figured
<1>5. CASE step = "info_swap"
  BY <1>3, <1>5 DEF IInv, LogsFollow, Figured
<1>6. CASE step = "info_remove"
  BY <1>6 DEF IInv, LogsFollow, Figured, About
<1>7. QED
  BY <1>4, <1>5, <1>6 DEF InfoQueries

LEMMA ConfirmedKeepsInv ==
  ASSUME IInv, Confirmed
  PROVE  IInv'
<1>1. /\ client = "waiting" /\ fate[step] = "done" /\ Proceed
      /\ told' = [told EXCEPT ![step] = "Ok"]
      /\ UNCHANGED <<ledger, airdrop, fate, logs>>
  BY DEF Confirmed
<1>2. \/ printed' = printed
      \/ /\ step \in InfoQueries
         /\ printed' = [printed EXCEPT ![step] = logs[step]]
  BY DEF Confirmed
<1>3. /\ \A s \in Reports : s # step => printed'[s] = printed[s]
      /\ step \in InfoQueries =>
           printed'[step] \in {printed[step], logs[step]}
      /\ step \notin InfoQueries => printed' = printed
  BY <1>2 DEF IInv, ClientTypes, Reports
<1>4. PoolFollows' /\ Proved!IInv' /\ Proved!Named'
  BY <1>1, SameLedger
<1>5. UnsentAhead' /\ DoneBehind' /\ UnprintedAhead'
      /\ at' \in 1..Len(Script) + 1 /\ (client' = "done" <=> at' > Len(Script))
      /\ client' \in {"running", "done"}
  BY <1>1, <1>3, ProceedKeepsPlace
<1>6. ClientTypes'
  <2>1. told' \in [Transactions -> {"nothing", "Ok", "Err"}]
    BY <1>1 DEF IInv, ClientTypes
  <2>2. printed' \in [Reports -> Figures]
    BY <1>2 DEF IInv, ClientTypes
  <2>3. QED
    BY <1>1, <1>5, <2>1, <2>2 DEF IInv, ClientTypes
<1>7. Place(step) = at
  BY <1>1, AtStep DEF IInv
<1>8. \A s \in Transactions : told'[s] = "Ok" => told[s] = "Ok" \/ s = step
  BY <1>1 DEF IInv, ClientTypes
<1>9. LogsFollow'
  <2>1. {"remove", "info_remove"} \subseteq Transactions
    BY DEF Transactions, Operations, InfoQueries
  <2>2. step = "remove" => fate["info_remove"] = "unsent"
    BY <1>7, <2>1, Places DEF IInv, UnsentAhead
  <2>3. QED
    BY <1>1, <1>8, <2>1, <2>2 DEF IInv, LogsFollow
<1>10. ReportsShowOperation'
  <2> SUFFICES ASSUME NEW r \in Reports, told'[About(r)] = "Ok"
               PROVE  printed'[r] \in {NoReport, Figured(r)}
    BY DEF ReportsShowOperation, Shows, About, Figured, Reports, LocalReads,
           InfoQueries
  <2>1. /\ told[About(r)] = "Ok" => printed[r] \in {NoReport, Figured(r)}
        /\ About(r) \in Transactions /\ Place(About(r)) < Place(r)
    BY EachReport DEF IInv
  <2>2. /\ Place(r) \in Nat /\ at \in Nat
        /\ Place(About(r)) = at => printed[r] = NoReport
    <3>1. Place(r) \in Nat /\ Place(About(r)) \in Nat /\ at \in Nat
      BY <1>1, <2>1, AtStep, Places DEF IInv, Reports, Transactions
    <3>2. QED
      BY <3>1, <2>1 DEF IInv, UnprintedAhead
  <2>3. told[About(r)] = "Ok" \/ printed[r] = NoReport
    BY <1>7, <1>8, <2>1, <2>2
  <2>4. CASE printed'[r] = printed[r]
    BY <2>1, <2>3, <2>4
  <2>5. CASE r = step /\ step \in InfoQueries /\ printed'[r] = logs[r]
    <3>1. About(r) # step
      BY <2>1, <2>2, <2>5
    <3>2. told[About(r)] = "Ok"
      BY <1>8, <2>1, <3>1
    <3>3. QED
      BY <1>1, <2>5, <3>2, LogIsFigured
  <2>6. QED
    BY <1>3, <2>4, <2>5
<1>11. QED
  BY <1>4, <1>5, <1>6, <1>9, <1>10 DEF IInv

(* And while the client reads the account, nothing later has been sent.    *)
LEMMA PoolIsFigured ==
  ASSUME IInv, client = "running", step \in LocalReads,
         told[About(step)] = "Ok"
  PROVE  PoolReport = Figured(step)
<1>1. Place(step) = at
  BY AtStep DEF IInv
<1>2. /\ Place("swap") > Place("local_add") /\ Place("remove") > Place("local_swap")
      /\ {"add", "swap", "remove"} \subseteq Transactions
  BY Places DEF Transactions, Operations
<1>3. /\ step = "local_add" => fate["swap"] = "unsent"
      /\ step = "local_swap" => fate["remove"] = "unsent"
  BY <1>1, <1>2 DEF IInv, UnsentAhead
<1>4. CASE step = "local_add"
  <2>1. fate["add"] = "done"
    BY <1>2, <1>4 DEF IInv, DoneBehind, About
  <2>2. QED
    BY <1>3, <1>4, <2>1 DEF IInv, PoolFollows, Figured
<1>5. CASE step = "local_swap"
  <2>1. fate["swap"] = "done"
    BY <1>2, <1>5 DEF IInv, DoneBehind, About
  <2>2. QED
    BY <1>3, <1>5, <2>1 DEF IInv, PoolFollows, Figured
<1>6. CASE step = "local_remove"
  <2>1. fate["remove"] = "done"
    BY <1>2, <1>6 DEF IInv, DoneBehind, About
  <2>2. QED
    BY <1>6, <2>1 DEF IInv, PoolFollows, Figured
<1>7. QED
  BY <1>4, <1>5, <1>6 DEF LocalReads

LEMMA PoolReportOK ==
  ASSUME Proved!IInv
  PROVE  PoolReport \in Figures
BY DEF Proved!IInv, Proved!AmountsOK, Proved!Tokens, Proved!U64, U64,
       PoolReport, Figures

LEMMA PrintLocalKeepsInv ==
  ASSUME IInv, PrintLocal
  PROVE  IInv'
<1>1. /\ client = "running" /\ step \in LocalReads /\ Proceed
      /\ UNCHANGED <<ledger, airdrop, fate, told, logs>>
      /\ printed' \in {printed, [printed EXCEPT ![step] = PoolReport]}
  BY DEF PrintLocal
<1>2. /\ \A s \in Reports : s # step => printed'[s] = printed[s]
      /\ printed'[step] \in {printed[step], PoolReport}
  BY <1>1 DEF IInv, ClientTypes, Reports
<1>3. PoolFollows' /\ Proved!IInv' /\ Proved!Named'
  BY <1>1, SameLedger
<1>4. step \notin Required
  BY <1>1, SetupIs DEF LocalReads, Required
<1>5. UnsentAhead' /\ DoneBehind' /\ UnprintedAhead'
      /\ at' \in 1..Len(Script) + 1 /\ (client' = "done" <=> at' > Len(Script))
      /\ client' \in {"running", "done"}
  <2>1. "Err" # "Ok"
    OBVIOUS
  <2>2. QED
    BY <1>1, <1>2, <1>4, <2>1, ProceedKeepsPlace
<1>6. ClientTypes'
  <2>1. printed' \in [Reports -> Figures]
    BY <1>1, PoolReportOK DEF IInv, ClientTypes
  <2>2. QED
    BY <1>1, <1>5, <2>1 DEF IInv, ClientTypes
<1>7. LogsFollow'
  BY <1>1 DEF IInv, LogsFollow
<1>8. ReportsShowOperation'
  <2> SUFFICES ASSUME NEW r \in Reports, told[About(r)] = "Ok"
               PROVE  printed'[r] \in {NoReport, Figured(r)}
    BY <1>1 DEF ReportsShowOperation, Shows, About, Figured, Reports,
                LocalReads, InfoQueries
  <2>1. printed[r] \in {NoReport, Figured(r)}
    BY EachReport DEF IInv
  <2>2. r = step => PoolReport = Figured(r)
    BY <1>1, PoolIsFigured
  <2>3. QED
    BY <1>2, <2>1, <2>2
<1>9. QED
  BY <1>3, <1>5, <1>6, <1>7, <1>8 DEF IInv

-----------------------------------------------------------------------------
(* The cluster.                                                            *)

(* What happens to a transaction that was sent does not concern the        *)
(* client's own record of it.                                              *)
LEMMA FateKeepsPlace ==
  ASSUME IInv, UNCHANGED <<airdrop, client, at, told, printed>>,
         NEW s \in Transactions, fate[s] = "sent",
         NEW end \in {"done", "failed", "dropped"},
         fate' = [fate EXCEPT ![s] = end],
         logs' \in [InfoQueries -> Figures]
  PROVE  /\ ClientTypes' /\ UnsentAhead' /\ DoneBehind' /\ UnprintedAhead'
         /\ ReportsShowOperation'
         /\ \A q \in Transactions : q # s => fate'[q] = fate[q]
         /\ fate'[s] = end
<1>1. /\ \A q \in Transactions : q # s => fate'[q] = fate[q]
      /\ fate'[s] = end
  BY DEF IInv, ClientTypes
<1>2. ClientTypes'
  BY DEF IInv, ClientTypes
<1>3. UnsentAhead'
  BY <1>1 DEF IInv, UnsentAhead
<1>4. DoneBehind'
  BY <1>1 DEF IInv, DoneBehind
<1>5. UnprintedAhead' /\ ReportsShowOperation'
  BY DEF IInv, UnprintedAhead, ReportsShowOperation, Shows
<1>6. QED
  BY <1>1, <1>2, <1>3, <1>4, <1>5

LEMMA DropKeepsInv ==
  ASSUME IInv, NEW s \in Transactions, Drop(s)
  PROVE  IInv'
<1>1. /\ fate[s] = "sent" /\ fate' = [fate EXCEPT ![s] = "dropped"]
      /\ UNCHANGED <<ledger, airdrop, client, at, told, logs, printed>>
  BY DEF Drop
<1>2. logs' \in [InfoQueries -> Figures]
  BY <1>1 DEF IInv, ClientTypes
<1>3. /\ ClientTypes' /\ UnsentAhead' /\ DoneBehind' /\ UnprintedAhead'
      /\ ReportsShowOperation'
      /\ \A q \in Transactions : q # s => fate'[q] = fate[q]
      /\ fate'[s] = "dropped"
  BY <1>1, <1>2, FateKeepsPlace
<1>4. PoolFollows' /\ Proved!IInv' /\ Proved!Named'
  BY <1>1, <1>3, SameLedger
<1>5. LogsFollow'
  <2>1. {"info_add", "info_swap", "info_remove", "swap", "remove"}
          \subseteq Transactions
    BY DEF Transactions, Operations, InfoQueries
  <2>2. QED
    BY <1>1, <1>3, <2>1 DEF IInv, LogsFollow
<1>6. QED
  BY <1>3, <1>4, <1>5 DEF IInv

(* The transactions of the setup, on the program's invariant.              *)
LEMMA SameBooks ==
  ASSUME Proved!IInv, UNCHANGED <<reserve, lp_supply>>
  PROVE  Proved!Fair!IInv'
<1>1. UNCHANGED Proved!Fair!vars
  BY DEF Proved!Fair!vars
<1>2. QED
  BY <1>1, ProvedAssumptions, MaxU64Assumption, Proved!Fair!StepIInv
     DEF Proved!IInv

LEMMA CreateKeepsInv ==
  ASSUME Proved!IInv, Proved!Named,
         NEW s, CreateMint(s) \/ CreateTokenAccount(s) \/ CreatePool
  PROVE  Proved!IInv' /\ Proved!Named'
<1>1. /\ result' = "Ok" /\ UNCHANGED <<poolFields, balance, supply>>
      /\ data_len' \in {data_len, 202}
  BY DEF CreateMint, CreateTokenAccount, CreatePool, Dex!POOL_SIZE
<1>2. Proved!Fair!IInv'
  BY <1>1, SameBooks DEF poolFields
<1>3. Proved!Named'
  BY <1>1 DEF Proved!Named, Proved!Results
<1>4. Proved!AmountsOK'
  BY <1>1 DEF poolFields, Proved!IInv, Proved!AmountsOK
<1>5. Proved!SetUp' /\ Proved!ReservesBacked' /\ Proved!SharesBacked'
  BY <1>1 DEF poolFields, Proved!IInv, Proved!SetUp, Proved!ReservesBacked,
              Proved!SharesBacked
<1>6. QED
  BY <1>2, <1>3, <1>4, <1>5 DEF Proved!IInv

LEMMA MintKeepsInv ==
  ASSUME Proved!IInv, Proved!Named, NEW t \in {"A", "B"}, NotFunded(t), MintTo(t)
  PROVE  Proved!IInv' /\ Proved!Named'
<1>1. /\ balance' = [balance EXCEPT ![t][1] = @ + InitialMint]
      /\ supply' = [supply EXCEPT ![t] = @ + InitialMint]
      /\ result' = "Ok" /\ UNCHANGED <<data_len, poolFields>>
  BY DEF MintTo, user
<1>2. Proved!Fair!IInv'
  BY <1>1, SameBooks DEF poolFields
<1>3. Proved!Named'
  BY <1>1 DEF Proved!Named, Proved!Results
<1>4. /\ balance \in [{"A", "B", "LP"} -> [{0, 1} -> U64]]
      /\ supply \in [{"A", "B", "LP"} -> U64]
      /\ balance[t] = [a \in {0, 1} |-> 0] /\ supply[t] = 0
      /\ InitialMint \in U64
  <2>1. Proved!Accounts = {0, 1} /\ Dex!Accounts = {0, 1}
    BY DEF Proved!Accounts, Proved!Users, Proved!Vault, Dex!Accounts, Dex!Users,
           Dex!Vault
  <2>2. QED
    BY <2>1, ClientSessionAssumption
       DEF Proved!IInv, Proved!AmountsOK, Proved!Mints, Proved!Tokens,
           Proved!U64, U64, NotFunded
<1>5. /\ balance' \in [{"A", "B", "LP"} -> [{0, 1} -> U64]]
      /\ supply' \in [{"A", "B", "LP"} -> U64]
      /\ \A m \in {"A", "B", "LP"} : balance'[m][0] = balance[m][0]
      /\ supply'["LP"] = supply["LP"]
  <2>1. 0 + InitialMint = InitialMint
    BY <1>4 DEF U64
  <2>2. QED
    BY <1>1, <1>4, <2>1
<1>6. Proved!AmountsOK'
  <2>1. Proved!Accounts = {0, 1}
    BY DEF Proved!Accounts, Proved!Users, Proved!Vault
  <2>2. QED
    BY <1>1, <1>5, <2>1 DEF poolFields, Proved!IInv, Proved!AmountsOK,
       Proved!Mints, Proved!Tokens, Proved!U64, U64
<1>7. Proved!SetUp' /\ Proved!ReservesBacked' /\ Proved!SharesBacked'
  BY <1>1, <1>5 DEF poolFields, Proved!IInv, Proved!SetUp,
     Proved!ReservesBacked, Proved!SharesBacked, Proved!Tokens, Proved!Vault
<1>8. QED
  BY <1>2, <1>3, <1>6, <1>7 DEF Proved!IInv

(* The instructions of the program: they are steps of DexPool, for the     *)
(* program's invariant; and one that does not return Ok leaves no trace.   *)
LEMMA OperationsAreProved ==
  ASSUME \/ InitializePool \/ AddLiquidity \/ Swap \/ RemoveLiquidity
         \/ Dex!GetPoolInfo
  PROVE  Proved!Next
<1> USE DEF Proved!Check, Dex!Check, Proved!Passes, Dex!Passes, Proved!Failed,
            Dex!Failed, Proved!FirstFailed, Dex!FirstFailed, Proved!Reject,
            Dex!Reject, Proved!Accept, Dex!Accept, Proved!poolVars,
            Dex!poolVars, Proved!tokenVars, Dex!tokenVars, Proved!Parses,
            Dex!Parses, Proved!POOL_SIZE, Dex!POOL_SIZE, Proved!None, Dex!None,
            Proved!Vault, Dex!Vault, Proved!CanTransfer, Dex!CanTransfer,
            Proved!Transfer, Dex!Transfer, Proved!CanMint, Dex!CanMint,
            Proved!CanBurn, Dex!CanBurn, Proved!ToU64, Dex!ToU64,
            Proved!CheckedDiv, Dex!CheckedDiv
<1> DEFINE fee == <<FeeNumerator, FeeDenominator>>
<1>1. ASSUME InitializePool
      PROVE  Proved!InitializePool(FeeNumerator, FeeDenominator, TRUE)
  BY <1>1 DEF InitializePool, Proved!InitializePool, Dex!InitializePool,
              Proved!InitChecks, Dex!InitChecks, Proved!DoubleInit,
              Dex!DoubleInit, Proved!Tokens, Dex!Tokens
<1>2. ASSUME AddLiquidity
      PROVE  Proved!AddLiquidity(1, DepositAmount, DepositAmount, 0)
  BY <1>2 DEF AddLiquidity, user, Proved!AddLiquidity, Dex!AddLiquidity,
              Proved!AddChecks, Dex!AddChecks, Proved!LpTokens, Dex!LpTokens,
              Proved!CalculateLpTokens, Dex!CalculateLpTokens,
              Proved!IntegerSqrt, Dex!IntegerSqrt, Proved!IsSqrt, Dex!IsSqrt,
              Proved!Smaller, Dex!Smaller, Proved!ProportionalShare,
              Dex!ProportionalShare, Proved!LpSupplyAfterAdd,
              Dex!LpSupplyAfterAdd
<1>3. ASSUME RemoveLiquidity
      PROVE  Proved!RemoveLiquidity(1, Burned, 0, 0)
  BY <1>3 DEF RemoveLiquidity, user, Proved!RemoveLiquidity,
              Dex!RemoveLiquidity, Proved!RemoveChecks, Dex!RemoveChecks,
              Proved!Removal, Dex!Removal, Proved!RemovalAmount,
              Dex!RemovalAmount, Proved!LpSupplyAfterRemove,
              Dex!LpSupplyAfterRemove
<1>4. ASSUME Swap
      PROVE  Proved!Swap(1, SwapIn, 0, "A")
  BY <1>4 DEF Swap, user, Proved!Swap, Dex!Swap, Proved!SwapChecks,
              Dex!SwapChecks, Proved!AmountOut, Dex!AmountOut,
              Proved!SwapOutput, Dex!SwapOutput, Proved!FeeFactor,
              Dex!FeeFactor, Proved!SwapNumerator, Dex!SwapNumerator,
              Proved!SwapDenominator, Dex!SwapDenominator, Proved!MaxU128,
              Dex!MaxU128, Proved!Other, Dex!Other, Proved!ReserveAfterSwap,
              Dex!ReserveAfterSwap
<1>5. Dex!GetPoolInfo => Proved!GetPoolInfo
  BY DEF Proved!GetPoolInfo, Dex!GetPoolInfo, Proved!InfoChecks, Dex!InfoChecks
<1>6. /\ fee \in {fee} /\ fee[1] = FeeNumerator /\ fee[2] = FeeDenominator
      /\ 1 \in Proved!Users /\ "A" \in Proved!Tokens
  BY DEF Proved!Users, Proved!Tokens
<1>7. CASE InitializePool
  BY <1>1, <1>6, <1>7 DEF Proved!Next
<1>8. CASE AddLiquidity
  BY <1>2, <1>6, <1>8 DEF Proved!Next
<1>9. CASE RemoveLiquidity
  BY <1>3, <1>6, <1>9 DEF Proved!Next
<1>10. CASE Swap
  BY <1>4, <1>6, <1>10 DEF Proved!Next
<1>11. CASE Dex!GetPoolInfo
  BY <1>5, <1>11 DEF Proved!Next
<1>12. QED
  BY <1>7, <1>8, <1>9, <1>10, <1>11

LEMMA OperationsKeepInv ==
  ASSUME Proved!IInv, Proved!Named,
         \/ InitializePool \/ AddLiquidity \/ Swap \/ RemoveLiquidity
         \/ Dex!GetPoolInfo
  PROVE  Proved!IInv' /\ Proved!Named'
<1>1. Proved!Next
  BY OperationsAreProved
<1>2. QED
  BY <1>1, ProvedAssumptions, MaxU64Assumption, Proved!StepIInv,
     Proved!ResultIsNamed

LEMMA RejectedIsNotOk ==
  ASSUME NEW n \in Nat, NEW checks, DOMAIN checks = 1..n, Dex!Reject(checks)
  PROVE  result' # "Ok" /\ UNCHANGED <<data_len, poolFields, balance, supply>>
<1>1. Dex!Failed(checks) \subseteq Nat /\ Dex!Failed(checks) # {}
  BY DEF Dex!Reject, Dex!Passes, Dex!Failed
<1>2. \E i \in Dex!Failed(checks) : \A j \in Dex!Failed(checks) : i <= j
  BY <1>1, ProvedAssumptions, MaxU64Assumption, Proved!LeastNat
<1>3. Dex!FirstFailed(checks) \in Dex!Failed(checks)
  BY <1>2 DEF Dex!FirstFailed
<1>4. QED
  BY <1>3 DEF Dex!Reject, Dex!Failed, Dex!poolVars, Dex!tokenVars, poolFields

LEMMA TraceOnlyIfOk ==
  ASSUME \/ InitializePool \/ AddLiquidity \/ Swap \/ RemoveLiquidity
         \/ Dex!GetPoolInfo,
         result' # "Ok"
  PROVE  UNCHANGED <<data_len, poolFields, balance, supply>>
<1> USE DEF Dex!Reject, Dex!Accept, Dex!poolVars, Dex!tokenVars, poolFields
<1>1. CASE InitializePool
  BY <1>1 DEF InitializePool, Dex!InitializePool
<1>2. CASE AddLiquidity
  BY <1>2 DEF AddLiquidity, Dex!AddLiquidity
<1>3. CASE Swap
  BY <1>3 DEF Swap, Dex!Swap
<1>4. CASE RemoveLiquidity
  BY <1>4 DEF RemoveLiquidity, Dex!RemoveLiquidity
<1>5. CASE Dex!GetPoolInfo
  BY <1>5 DEF Dex!GetPoolInfo
<1>6. QED
  BY <1>1, <1>2, <1>3, <1>4, <1>5

(* What each of them does when it returns Ok, starting where main starts   *)
(* it: the pool the client reports.                                        *)
LEMMA InitTakes ==
  ASSUME InitializePool, result' = "Ok"
  PROVE  /\ is_initialized' = TRUE
         /\ reserve' = [t \in Dex!Tokens |-> 0] /\ lp_supply' = 0
         /\ fee_numerator' = FeeNumerator /\ fee_denominator' = FeeDenominator
         /\ UNCHANGED <<balance, supply>>
<1> DEFINE checks == Dex!InitChecks(FeeNumerator, FeeDenominator, TRUE)
<1>1. DOMAIN checks = 1..4
  BY DEF Dex!InitChecks
<1>2. ~Dex!Reject(checks)
  <2> HIDE DEF checks
  <2>1. QED
    BY <1>1, RejectedIsNotOk
<1>3. QED
  BY <1>2 DEF InitializePool, Dex!InitializePool, Dex!tokenVars

LEMMA FirstShares == Minted # None => Minted \in U64
<1>1. Proved!CalculateLpTokens(DepositAmount, DepositAmount, 0, 0, 0) = Minted
  BY DEF Minted, CalculateLpTokens, Proved!CalculateLpTokens, IntegerSqrt,
         Proved!IntegerSqrt, IsSqrt, Proved!IsSqrt, ToU64, Proved!ToU64, None,
         Proved!None
<1>2. DepositAmount \in Proved!U64 /\ 0 \in Proved!U64
  BY ClientSessionAssumption, MaxU64Assumption DEF U64, Proved!U64
<1>3. Minted # Proved!None => Minted \in Proved!U64
  BY <1>1, <1>2, ProvedAssumptions, MaxU64Assumption, Proved!FirstLpTokens
<1>4. QED
  BY <1>3 DEF None, Proved!None, U64, Proved!U64

LEMMA AddTakes ==
  ASSUME Proved!IInv, AddLiquidity, result' = "Ok",
         reserve = [t \in Dex!Tokens |-> 0], lp_supply = 0
  PROVE  /\ PoolReport' = AfterAdd
         /\ UNCHANGED <<is_initialized, fee_numerator, fee_denominator>>
<1> DEFINE checks == Dex!AddChecks(1, DepositAmount, DepositAmount, 0)
           lp     == Dex!LpTokens(DepositAmount, DepositAmount)
<1>1. DOMAIN checks = 1..10
  BY DEF Dex!AddChecks
<1>2. ~Dex!Reject(checks)
  <2> HIDE DEF checks
  <2>1. QED
    BY <1>1, RejectedIsNotOk
<1>3. /\ reserve' = [reserve EXCEPT !["A"] = @ + DepositAmount,
                                    !["B"] = @ + DepositAmount]
      /\ lp_supply' = 0 + lp
      /\ UNCHANGED <<is_initialized, fee_numerator, fee_denominator>>
  BY <1>2 DEF AddLiquidity, user, Dex!AddLiquidity, Dex!LpSupplyAfterAdd
<1>4. lp = Minted
  BY DEF Minted, Dex!LpTokens, Dex!Tokens, CalculateLpTokens,
         Dex!CalculateLpTokens, IntegerSqrt, Dex!IntegerSqrt, IsSqrt,
         Dex!IsSqrt, ToU64, Dex!ToU64, None, Dex!None
<1>5. lp_supply' = Minted
  <2>1. Minted # None => Minted \in U64
    BY FirstShares
  <2>2. QED
    BY <1>3, <1>4, <2>1, MaxU64Assumption DEF None, U64
<1>6. /\ reserve'["A"] = DepositAmount /\ reserve'["B"] = DepositAmount
  BY <1>3, ClientSessionAssumption DEF U64, Dex!Tokens
<1>7. QED
  BY <1>3, <1>5, <1>6 DEF PoolReport, AfterAdd

LEMMA SwapTakes ==
  ASSUME Proved!IInv, Swap, result' = "Ok", PoolReport = AfterAdd,
         fee_numerator = FeeNumerator, fee_denominator = FeeDenominator
  PROVE  /\ PoolReport' = AfterSwap
         /\ UNCHANGED <<is_initialized, fee_numerator, fee_denominator>>
<1> DEFINE checks == Dex!SwapChecks(1, SwapIn, 0, "A")
           out    == Dex!AmountOut(SwapIn, "A")
<1>1. DOMAIN checks = 1..10
  BY DEF Dex!SwapChecks
<1>2. ~Dex!Reject(checks)
  <2> HIDE DEF checks
  <2>1. QED
    BY <1>1, RejectedIsNotOk
<1>3. /\ reserve' = [reserve EXCEPT !["A"] = @ + SwapIn, !["B"] = @ - out]
      /\ UNCHANGED <<lp_supply, is_initialized, fee_numerator, fee_denominator>>
  BY <1>2 DEF Swap, user, Dex!Swap, Dex!ReserveAfterSwap, Dex!Other
<1>4. /\ reserve["A"] = DepositAmount /\ reserve["B"] = DepositAmount
      /\ lp_supply = Minted
  BY DEF PoolReport, AfterAdd
<1>5. out = Bought
  BY <1>4 DEF Bought, Dex!AmountOut, Dex!Other, SwapOutput, Dex!SwapOutput,
     FeeFactor, Dex!FeeFactor, SwapNumerator, Dex!SwapNumerator,
     SwapDenominator, Dex!SwapDenominator, MaxU128, Dex!MaxU128, CheckedDiv,
     Dex!CheckedDiv, ToU64, Dex!ToU64, None, Dex!None
<1> HIDE DEF out
<1>6. /\ reserve'["A"] = DepositAmount + SwapIn
      /\ reserve'["B"] = DepositAmount - Bought
  <2>1. DOMAIN reserve = {"A", "B"}
    BY DEF Proved!IInv, Proved!AmountsOK, Proved!Tokens
  <2>2. QED
    BY <1>3, <1>4, <1>5, <2>1
<1>7. QED
  BY <1>3, <1>4, <1>6 DEF PoolReport, AfterSwap

LEMMA RemoveTakes ==
  ASSUME Proved!IInv, RemoveLiquidity, result' = "Ok", PoolReport = AfterSwap
  PROVE  /\ PoolReport' = AfterRemove
         /\ UNCHANGED <<is_initialized, fee_numerator, fee_denominator>>
<1> DEFINE checks == Dex!RemoveChecks(1, Burned, 0, 0)
           paid_a == Dex!Removal("A", Burned)
           paid_b == Dex!Removal("B", Burned)
<1>1. DOMAIN checks = 1..9
  BY DEF Dex!RemoveChecks
<1>2. ~Dex!Reject(checks)
  <2> HIDE DEF checks
  <2>1. QED
    BY <1>1, RejectedIsNotOk
<1>3. /\ reserve' = [reserve EXCEPT !["A"] = @ - paid_a, !["B"] = @ - paid_b]
      /\ lp_supply' = lp_supply - Burned
      /\ UNCHANGED <<is_initialized, fee_numerator, fee_denominator>>
  BY <1>2 DEF RemoveLiquidity, user, Dex!RemoveLiquidity,
              Dex!LpSupplyAfterRemove
<1>4. /\ reserve["A"] = AfterSwap.a /\ reserve["B"] = AfterSwap.b
      /\ lp_supply = Minted
  BY DEF PoolReport, AfterSwap
<1>5. /\ paid_a = RemovalAmount(Burned, AfterSwap.a, Minted)
      /\ paid_b = RemovalAmount(Burned, AfterSwap.b, Minted)
  <2> HIDE DEF AfterSwap, Minted
  <2>1. QED
    BY <1>4 DEF Dex!Removal, RemovalAmount, Dex!RemovalAmount, CheckedDiv,
                Dex!CheckedDiv, ToU64, Dex!ToU64, None, Dex!None
<1> HIDE DEF paid_a, paid_b
<1>6. /\ reserve'["A"] = AfterSwap.a - RemovalAmount(Burned, AfterSwap.a, Minted)
      /\ reserve'["B"] = AfterSwap.b - RemovalAmount(Burned, AfterSwap.b, Minted)
  <2>1. DOMAIN reserve = {"A", "B"}
    BY DEF Proved!IInv, Proved!AmountsOK, Proved!Tokens
  <2>2. QED
    BY <1>3, <1>4, <1>5, <2>1
<1>7. QED
  BY <1>3, <1>4, <1>6 DEF PoolReport, AfterRemove

LEMMA InfoTakes ==
  ASSUME Dex!GetPoolInfo
  PROVE  UNCHANGED <<data_len, poolFields, balance, supply>>
BY DEF Dex!GetPoolInfo, Dex!Reject, Dex!Accept, Dex!poolVars, Dex!tokenVars,
       poolFields

(* Where a transaction stands that the cluster takes up: everything main    *)
(* cannot do without and that comes before it is done, and if main cannot  *)
(* do without this one, nothing after it has been sent.                    *)
LEMMA SentInOrder ==
  ASSUME IInv, NEW s \in Transactions, fate[s] = "sent"
  PROVE  /\ \A q \in Required : Place(q) < Place(s) => fate[q] = "done"
         /\ s \in Required =>
              \A q \in Transactions : Place(s) < Place(q) => fate[q] = "unsent"
<1>1. Required \subseteq Transactions
  BY DEF Required, Transactions, Operations
<1>2. /\ at \in Nat /\ Place(s) \in Nat
      /\ \A q \in Transactions : Place(q) \in Nat
  BY Places, ScriptIs DEF IInv, ClientTypes, Transactions
<1>3. Place(s) <= at
  BY <1>2 DEF IInv, UnsentAhead
<1>4. s \in Required => Place(s) = at
  BY <1>2, <1>3 DEF IInv, DoneBehind
<1>5. ASSUME NEW q \in Required, Place(q) < Place(s)
      PROVE  fate[q] = "done"
  BY <1>1, <1>2, <1>3, <1>5 DEF IInv, DoneBehind
<1>6. ASSUME s \in Required, NEW q \in Transactions, Place(s) < Place(q)
      PROVE  fate[q] = "unsent"
  BY <1>2, <1>4, <1>6 DEF IInv, UnsentAhead
<1>7. QED
  BY <1>5, <1>6

LEMMA ExecuteKeepsLedger ==
  ASSUME IInv, NEW s \in Transactions, Execute(s)
  PROVE  Proved!IInv' /\ Proved!Named'
<1>1. fate[s] = "sent" /\ Effect(s)
  BY DEF Execute
<1>2. CASE CreateMint(s) \/ CreateTokenAccount(s) \/ CreatePool
  BY <1>2, CreateKeepsInv DEF IInv
<1>3. CASE s = "fund_a" /\ MintTo("A")
  BY <1>1, <1>3, MintKeepsInv DEF IInv, PoolFollows
<1>4. CASE s = "fund_b" /\ MintTo("B")
  BY <1>1, <1>4, MintKeepsInv DEF IInv, PoolFollows
<1>5. CASE \/ InitializePool \/ AddLiquidity \/ Swap \/ RemoveLiquidity
           \/ Dex!GetPoolInfo
  BY <1>5, OperationsKeepInv DEF IInv
<1>6. QED
  BY <1>1, <1>2, <1>3, <1>4, <1>5 DEF Effect

LEMMA ExecuteKeepsPool ==
  ASSUME IInv, NEW s \in Transactions, Execute(s),
         \A q \in Transactions : q # s => fate'[q] = fate[q],
         fate'[s] = IF result' = "Ok" THEN "done" ELSE "failed"
  PROVE  PoolFollows'
<1>1. fate[s] = "sent" /\ Effect(s)
  BY DEF Execute
<1>2. {"fund_a", "fund_b", "init", "add", "swap", "remove"} \subseteq Transactions
  BY SetupIs DEF Transactions, Operations
<1>3. /\ Place("fund_a") = 5 /\ Place("fund_b") = 6 /\ Place("init") = 12
      /\ Place("add") = 13 /\ Place("swap") = 16 /\ Place("remove") = 19
      /\ {"fund_a", "fund_b", "init", "add", "swap"} \subseteq Required
  BY Places, SetupIs DEF Required
<1>4. CASE /\ UNCHANGED <<poolFields, balance, supply>>
           /\ \/ result' # "Ok"
              \/ s \notin {"fund_a", "fund_b", "init", "add", "swap", "remove"}
  <2>1. \A q \in {"fund_a", "fund_b", "init", "add", "swap", "remove"} :
          fate'[q] = "done" <=> fate[q] = "done"
    BY <1>1, <1>2, <1>4
  <2>2. UNCHANGED <<is_initialized, reserve, lp_supply, fee_numerator,
                    fee_denominator, balance, supply>>
    BY <1>4 DEF poolFields
  <2>3. QED
    BY <2>1, <2>2 DEF IInv, PoolFollows, NotFunded, PoolReport
<1>5. ASSUME NEW t \in {"A", "B"}, MintTo(t), s \in {"fund_a", "fund_b"},
             t = IF s = "fund_a" THEN "A" ELSE "B"
      PROVE  PoolFollows'
  <2>1. /\ fate'[s] = "done"
        /\ UNCHANGED <<is_initialized, reserve, lp_supply, fee_numerator,
                       fee_denominator>>
        /\ \A k \in {"A", "B"} \ {t} :
             balance'[k] = balance[k] /\ supply'[k] = supply[k]
    BY <1>5 DEF MintTo, poolFields, IInv, Proved!IInv, Proved!AmountsOK,
                Proved!Mints, Proved!Tokens
  <2>2. QED
    BY <1>2, <1>5, <2>1 DEF IInv, PoolFollows, NotFunded, PoolReport
<1>6. CASE s = "init" /\ InitializePool /\ result' = "Ok"
  <2>1. /\ fate["fund_a"] = "done" /\ fate["fund_b"] = "done"
        /\ fate["add"] = "unsent" /\ fate["swap"] = "unsent"
        /\ fate["remove"] = "unsent"
    BY <1>1, <1>2, <1>3, <1>6, SentInOrder
  <2>2. QED
    BY <1>2, <1>6, <2>1, InitTakes DEF IInv, PoolFollows
<1>7. CASE s = "add" /\ AddLiquidity /\ result' = "Ok"
  <2>1. /\ fate["fund_a"] = "done" /\ fate["fund_b"] = "done"
        /\ fate["init"] = "done" /\ fate["swap"] = "unsent"
        /\ fate["remove"] = "unsent"
    BY <1>1, <1>2, <1>3, <1>7, SentInOrder
  <2>2. /\ PoolReport' = AfterAdd
        /\ UNCHANGED <<is_initialized, fee_numerator, fee_denominator>>
    BY <1>1, <1>7, AddTakes DEF IInv, PoolFollows
  <2>3. QED
    BY <1>2, <1>7, <2>1, <2>2 DEF IInv, PoolFollows
<1>8. CASE s = "swap" /\ Swap /\ result' = "Ok"
  <2>1. /\ fate["fund_a"] = "done" /\ fate["fund_b"] = "done"
        /\ fate["init"] = "done" /\ fate["add"] = "done"
        /\ fate["remove"] = "unsent"
    BY <1>1, <1>2, <1>3, <1>8, SentInOrder
  <2>2. /\ PoolReport' = AfterSwap
        /\ UNCHANGED <<is_initialized, fee_numerator, fee_denominator>>
    BY <1>1, <1>8, <2>1, SwapTakes DEF IInv, PoolFollows
  <2>3. QED
    BY <1>2, <1>8, <2>1, <2>2 DEF IInv, PoolFollows
<1>9. CASE s = "remove" /\ RemoveLiquidity /\ result' = "Ok"
  <2>1. /\ fate["fund_a"] = "done" /\ fate["fund_b"] = "done"
        /\ fate["init"] = "done" /\ fate["add"] = "done"
        /\ fate["swap"] = "done"
    BY <1>1, <1>2, <1>3, <1>9, SentInOrder
  <2>2. /\ PoolReport' = AfterRemove
        /\ UNCHANGED <<is_initialized, fee_numerator, fee_denominator>>
    BY <1>1, <1>9, <2>1, RemoveTakes DEF IInv, PoolFollows
  <2>3. QED
    BY <1>2, <1>9, <2>1, <2>2 DEF IInv, PoolFollows
<1>10. CASE /\ s \in Operations
            /\ InitializePool \/ AddLiquidity \/ Swap \/ RemoveLiquidity
            /\ result' # "Ok"
  BY <1>4, <1>10, TraceOnlyIfOk
<1>11. CASE CreateMint(s) \/ CreateTokenAccount(s)
            \/ (s = "create_pool" /\ CreatePool)
            \/ (s \in InfoQueries /\ Dex!GetPoolInfo)
  BY <1>4, <1>11, InfoTakes DEF CreateMint, CreateTokenAccount, CreatePool,
     InfoQueries
<1>12. QED
  BY <1>1, <1>5, <1>6, <1>7, <1>8, <1>9, <1>10, <1>11 DEF Effect, Operations

LEMMA ExecuteKeepsInv ==
  ASSUME IInv, NEW s \in Transactions, Execute(s)
  PROVE  IInv'
<1> DEFINE end == IF result' = "Ok" THEN "done" ELSE "failed"
<1>1. /\ fate[s] = "sent" /\ fate' = [fate EXCEPT ![s] = end]
      /\ UNCHANGED <<airdrop, client, at, told, printed>>
      /\ logs' = IF s \in InfoQueries /\ result' = "Ok"
                 THEN [logs EXCEPT ![s] = PoolReport] ELSE logs
  BY DEF Execute
<1>2. logs' \in [InfoQueries -> Figures]
  BY <1>1, PoolReportOK DEF IInv, ClientTypes
<1>3. /\ ClientTypes' /\ UnsentAhead' /\ DoneBehind' /\ UnprintedAhead'
      /\ ReportsShowOperation'
      /\ \A q \in Transactions : q # s => fate'[q] = fate[q]
      /\ fate'[s] = end
  <2>1. end \in {"done", "failed", "dropped"}
    OBVIOUS
  <2> HIDE DEF end
  <2>2. QED
    BY <1>1, <1>2, <2>1, FateKeepsPlace
<1>4. Proved!IInv' /\ Proved!Named'
  BY ExecuteKeepsLedger
<1>5. PoolFollows'
  BY <1>3, ExecuteKeepsPool
<1>6. LogsFollow'
  <2>1. {"info_add", "info_swap", "info_remove", "add", "swap", "remove"}
          \subseteq Transactions
    BY DEF Transactions, Operations, InfoQueries
  <2>2. \A q \in Transactions : fate'[q] = "unsent" => fate[q] = "unsent"
    BY <1>1, <1>3
  <2>3. CASE ~(s \in InfoQueries /\ result' = "Ok")
    <3>1. \A q \in InfoQueries : fate'[q] = "done" => fate[q] = "done"
      BY <1>3, <2>1, <2>3 DEF InfoQueries
    <3>2. QED
      BY <1>1, <2>1, <2>2, <2>3, <3>1 DEF IInv, LogsFollow, InfoQueries
  <2>4. CASE s \in InfoQueries /\ result' = "Ok"
    <3>1. /\ logs'[s] = PoolReport
          /\ \A q \in InfoQueries : q # s => logs'[q] = logs[q] /\ fate'[q] = fate[q]
      BY <1>1, <1>3, <2>4 DEF IInv, ClientTypes, Transactions
    <3>2. /\ s \in {"info_add", "info_swap"} => fate["add"] = "done"
          /\ s = "info_swap" => fate["swap"] = "done"
      BY <1>1, <2>4, SentInOrder, Places DEF Required
    <3>3. told["remove"] = "Ok" => fate["remove"] = "done"
      BY <2>1 DEF IInv, DoneBehind
    <3>4. s = "info_add" /\ fate["swap"] = "unsent" => PoolReport = AfterAdd
      BY <3>2 DEF IInv, PoolFollows
    <3>5. s = "info_swap" /\ fate["remove"] = "unsent" => PoolReport = AfterSwap
      BY <3>2 DEF IInv, PoolFollows
    <3>6. told["remove"] = "Ok" => PoolReport = AfterRemove
      BY <3>3 DEF IInv, PoolFollows
    <3>7. QED
      BY <1>1, <2>1, <2>2, <2>4, <3>1, <3>4, <3>5, <3>6
         DEF IInv, LogsFollow, InfoQueries
  <2>5. QED
    BY <2>3, <2>4
<1>7. QED
  BY <1>3, <1>4, <1>5, <1>6 DEF IInv

-----------------------------------------------------------------------------
LEMMA InitIInv == Init => IInv
<1> SUFFICES ASSUME Init PROVE IInv
  OBVIOUS
<1>1. NoReport \in Figures
  BY DEF Figures
<1>2. /\ \A q \in Transactions : fate[q] = "unsent" /\ told[q] = "nothing"
      /\ \A r \in Reports : printed[r] = NoReport
      /\ {"fund_a", "fund_b", "init", "add", "swap", "remove", "info_add",
          "info_swap", "info_remove"} \subseteq Transactions
  BY SetupIs DEF Init, Reports, Transactions, Operations, InfoQueries
<1>3. ClientTypes
  BY <1>1, ScriptIs DEF Init, ClientTypes, Reports
<1>4. UnsentAhead /\ UnprintedAhead
  BY <1>2 DEF UnsentAhead, UnprintedAhead
<1>5. DoneBehind
  <2>1. \A s \in Transactions : Place(s) \in 1..21
    BY Places DEF Transactions
  <2>2. at = 1
    BY DEF Init
  <2>3. QED
    BY <1>2, <2>1, <2>2 DEF DoneBehind
<1>6. LogsFollow /\ ReportsShowOperation
  BY <1>2 DEF LogsFollow, ReportsShowOperation, Shows
<1>7. PoolFollows
  <2>1. {"A", "B"} \subseteq Dex!Mints
    BY DEF Dex!Mints, Dex!Tokens
  <2>2. QED
    BY <1>2, <2>1 DEF Init, PoolFollows, NotFunded
<1>8. Proved!Named
  BY DEF Init, Proved!Named
<1>9. Proved!AmountsOK
  <2>1. 0 \in U64
    BY MaxU64Assumption DEF U64
  <2>2. QED
    BY <2>1 DEF Init, Proved!AmountsOK, Proved!Tokens, Dex!Tokens,
       Proved!Mints, Dex!Mints, Proved!Accounts, Dex!Accounts, Proved!Users,
       Dex!Users, Proved!Vault, Dex!Vault, Proved!U64, U64
<1>10. Proved!SetUp /\ Proved!ReservesBacked /\ Proved!SharesBacked
  BY DEF Init, Proved!SetUp, Proved!ReservesBacked, Proved!SharesBacked,
     Proved!Tokens, Dex!Tokens, Dex!Mints, Proved!Vault, Dex!Vault,
     Dex!Accounts
<1>11. Proved!Fair!IInv
  <2>1. Proved!Fair!Init
    BY DEF Init, Proved!Fair!Init, Dex!Tokens, Proved!Fair!Tokens
  <2>2. QED
    BY <2>1, ProvedAssumptions, MaxU64Assumption, Proved!Fair!InitIInv
<1>12. QED
  BY <1>3, <1>4, <1>5, <1>6, <1>7, <1>8, <1>9, <1>10, <1>11
     DEF IInv, Proved!IInv

LEMMA StepIInv == IInv /\ [Next]_vars => IInv'
<1> SUFFICES ASSUME IInv, [Next]_vars PROVE IInv'
  OBVIOUS
<1>1. CASE RequestAirdrop \/ AirdropFate \/ PollAirdrop
  BY <1>1, AirdropKeepsInv
<1>2. CASE Submit
  BY <1>2, SubmitKeepsInv
<1>3. CASE NoBlockhash
  BY <1>3, NoBlockhashKeepsInv
<1>4. CASE Confirmed
  BY <1>4, ConfirmedKeepsInv
<1>5. CASE Failed
  BY <1>5, FailedKeepsInv
<1>6. CASE PrintLocal
  BY <1>6, PrintLocalKeepsInv
<1>7. ASSUME NEW s \in Transactions, Execute(s) PROVE IInv'
  BY <1>7, ExecuteKeepsInv
<1>8. ASSUME NEW s \in Transactions, Drop(s) PROVE IInv'
  BY <1>8, DropKeepsInv
<1>9. CASE UNCHANGED vars
  <2>1. /\ UNCHANGED <<airdrop, client, at, fate, told, logs, printed>>
        /\ UNCHANGED ledger
    BY <1>9 DEF vars
  <2>2. PoolFollows' /\ Proved!IInv' /\ Proved!Named'
    BY <2>1, SameLedger
  <2>3. ClientTypes' /\ UnsentAhead' /\ DoneBehind' /\ UnprintedAhead'
    BY <2>1 DEF IInv, ClientTypes, UnsentAhead, DoneBehind, UnprintedAhead
  <2>4. LogsFollow' /\ ReportsShowOperation'
    BY <2>1 DEF IInv, LogsFollow, ReportsShowOperation, Shows
  <2>5. QED
    BY <2>2, <2>3, <2>4 DEF IInv
<1>10. QED
  BY <1>1, <1>2, <1>3, <1>4, <1>5, <1>6, <1>7, <1>8, <1>9
     DEF Next, ClientStep, CallReturns

-----------------------------------------------------------------------------
(* Where the client is, what has become of what it sent, and the pool and  *)
(* the logs that go with it: the inductive invariant of a session.         *)
THEOREM ClientSessionInvariant == Spec => []IInv
BY InitIInv, StepIInv, PTL DEF Spec

(* Everything the client and the cluster keep has its type throughout a    *)
(* session: main never looks past its last step, no amount that its        *)
(* transactions move leaves u64, and what it prints are such amounts.      *)
THEOREM ClientSessionTypeOK == Spec => []TypeOK
<1>1. IInv => Dex!TypeOK
  BY DEF IInv, Proved!IInv, Proved!AmountsOK, Proved!Named, Proved!Results,
     Proved!DexErrors, Proved!ProgramErrors, Proved!Tokens, Proved!Mints,
     Proved!Accounts, Proved!Users, Proved!Vault, Proved!U64, Dex!TypeOK,
     Dex!Results, Dex!DexErrors, Dex!ProgramErrors, Dex!Tokens, Dex!Mints,
     Dex!Accounts, Dex!Users, Dex!Vault, Dex!U64
<1>2. IInv => TypeOK
  BY <1>1 DEF IInv, ClientTypes, TypeOK, Reports
<1>3. QED
  BY <1>2, ClientSessionInvariant, PTL

(* Transactions take effect in the order of main and without gaps, however *)
(* late the cluster executes them and whatever it tells the client: no     *)
(* transaction takes effect that main reaches only after one it cannot do  *)
(* without, while that one has not.                                        *)
THEOREM ClientSessionInOrder == Spec => []InOrder
<1>1. ASSUME IInv, NEW i \in Steps, NEW j \in Steps, i < j,
             Script[i] \in Required, Script[j] \in Transactions,
             fate[Script[j]] = "done"
      PROVE  fate[Script[i]] = "done"
  <2>1. Place(Script[i]) = i /\ Place(Script[j]) = j
    BY Places
  <2>2. i \in Nat /\ j \in Nat /\ at \in Nat
    BY <1>1, ScriptIs DEF Steps, IInv, ClientTypes
  <2>3. j <= at
    BY <1>1, <2>1, <2>2 DEF IInv, UnsentAhead
  <2>4. Script[i] \in Transactions
    BY <1>1 DEF Required, Transactions, Operations
  <2>5. QED
    BY <1>1, <2>1, <2>2, <2>3, <2>4 DEF IInv, DoneBehind
<1>2. IInv => InOrder
  BY <1>1 DEF InOrder, Required, Steps
<1>3. QED
  BY <1>2, ClientSessionInvariant, PTL

(* What the client prints after an operation it was told succeeded is the  *)
(* pool right after that operation, by the arithmetic of the program, for  *)
(* any amounts and fee: read from the account or from the program's log,   *)
(* however late the cluster executed the operation or the query.           *)
THEOREM ClientSessionReports == Spec => []ReportsShowOperation
<1>1. IInv => ReportsShowOperation
  BY DEF IInv
<1>2. QED
  BY <1>1, ClientSessionInvariant, PTL
=============================================================================
