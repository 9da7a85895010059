----------------------------- MODULE RuntimeProofs -----------------------------
(* What holds of the treasury behind extrinsics, fees, reaping and sudo, for   *)
(* every value of the constants.  Of Root this says what its modelled calls,   *)
(* PrivilegedCall, do: one that writes the storage or the code undoes it all.  *)
EXTENDS Runtime, TreasuryProofs

-----------------------------------------------------------------------------
(* Calls.                                                                  *)

\* A call of a user is a step of the treasury alone.
LEMMA UserCallIsStep ==
    ASSUME NEW who \in Account, NEW c \in UserCall, SignedCall(who, c)
    PROVE  [Next]_vars
  <1>1. CASE c.name = "create_proposal"
    <2>1. /\ c.duration \in Duration
          /\ c.action \in [from : Coin, to : Coin, amount : CoinAmount]
      BY <1>1 DEF UserCall, PalletCall
    <2>2. CreateProposal(who, c.duration, c.action)
      BY <1>1 DEF SignedCall
    <2> QED
      BY <2>1, <2>2 DEF Next, ProposalCall
  <1>2. CASE c.name = "vote_proposal"
    <2>1. c.id \in ProposalId /\ c.vote \in VoteKind
      BY <1>2 DEF UserCall, PalletCall
    <2> QED
      BY <1>2, <2>1 DEF SignedCall, Next, ProposalCall
  <1>3. CASE c.name = "finalize_proposal"
    <2>1. c.id \in ProposalId
      BY <1>3 DEF UserCall, PalletCall
    <2> QED
      BY <1>3, <2>1 DEF SignedCall, Next, ProposalCall
  <1>4. CASE c.name \in {"deposit", "withdraw"}
    <2>1. c.amount \in Amount
      BY <1>4 DEF UserCall, PalletCall
    <2> QED
      BY <1>4, <2>1 DEF SignedCall, Next, StakeCall
  <1>5. CASE c.name = "seed_vault"
    <2>1. c.coin \in Coin /\ c.amount \in CoinAmount
      BY <1>5 DEF UserCall, PalletCall
    <2> QED
      BY <1>5, <2>1 DEF SignedCall, Next
  <1>6. CASE c.name \in {"transfer_allow_death", "transfer_keep_alive"}
    <2>1. c.dest \in Account /\ c.value \in Amount
      BY <1>6 DEF UserCall, PalletCall
    <2>2. Transfer(who, c.dest, c.value)
      BY <1>6 DEF SignedCall
    <2> QED
      BY <2>1, <2>2 DEF Next
  <1>7. CASE c.name = "remark"
    BY <1>7 DEF SignedCall
  <1> QED
    BY <1>1, <1>2, <1>3, <1>4, <1>5, <1>6, <1>7 DEF SignedCall

-----------------------------------------------------------------------------
(* Stakes.                                                                 *)

Covered == TypeOK /\ StakeCovered /\ ReserveKeepsAlive

\* A step that touches neither balances nor deposits keeps the stakes covered.
LEMMA CoverUnchanged ==
    ASSUME StakeCovered, ReserveKeepsAlive, forced \subseteq forced',
           UNCHANGED <<balanceVars, deposits>>
    PROVE  StakeCovered' /\ ReserveKeepsAlive'
  BY DEF StakeCovered, ReserveKeepsAlive, balanceVars

\* What a deposit adds to the reserve it adds to the stake, up to the widths.
LEMMA DepositCovers ==
    ASSUME Covered, forced \subseteq forced', NEW who \in Account,
           NEW amount \in Amount, Deposit(who, amount)
    PROVE  StakeCovered' /\ ReserveKeepsAlive'
  <1> DEFINE f == free[who]
             r == reserved[who]
             d == deposits[who]
             sum == SaturatingAdd(d, amount, MaxBalance)
  <1>1. /\ f \in 0..MaxBalance /\ r \in 0..MaxBalance /\ d \in 0..MaxBalance
        /\ amount \in Nat /\ r <= d /\ MaxBalance \in Nat
    BY InputAssumption, WidthAssumption DEF Covered, TypeOK, Balance, StakeCovered
  <1>2. /\ free' = [free EXCEPT ![who] = f - amount]
        /\ reserved' = [reserved EXCEPT ![who] = r + amount]
        /\ deposits' = [deposits EXCEPT ![who] = sum]
        /\ r + amount <= MaxBalance
        /\ r + amount > 0 => f - amount >= ExistentialDeposit
    BY <1>1, ConfigAssumption DEF Deposit, CanReserve, Covered, ReserveKeepsAlive
  <1>3. r + amount <= sum /\ (r = d => r + amount = sum)
    BY <1>1, <1>2 DEF SaturatingAdd
  <1> HIDE DEF sum
  <1>4. StakeCovered'
    BY <1>2, <1>3 DEF Covered, TypeOK, StakeCovered
  <1>5. ReserveKeepsAlive'
    BY <1>2 DEF Covered, TypeOK, ReserveKeepsAlive
  <1> QED
    BY <1>4, <1>5

\* What is paid back to an account leaves what stays reserved alive.
LEMMA PaidStaysAlive ==
    ASSUME Covered, NEW who \in Account, NEW paid \in Nat, paid <= reserved[who],
           free' = [free EXCEPT ![who] = SaturatingAdd(@, paid, MaxBalance)],
           reserved' = [reserved EXCEPT ![who] = @ - paid]
    PROVE  ReserveKeepsAlive'
  <1>1. /\ free[who] \in 0..MaxBalance /\ reserved[who] \in 0..MaxBalance
        /\ MaxBalance \in Nat
    BY WidthAssumption DEF Covered, TypeOK, Balance
  <1>2. /\ SaturatingAdd(free[who], paid, MaxBalance) >= free[who]
        /\ SaturatingAdd(free[who], paid, MaxBalance) \in Int
    BY <1>1 DEF SaturatingAdd
  <1>3. reserved[who] - paid > 0
           => SaturatingAdd(free[who], paid, MaxBalance) >= ExistentialDeposit
    BY <1>1, <1>2, ConfigAssumption DEF Covered, ReserveKeepsAlive
  <1> QED
    BY <1>3 DEF Covered, TypeOK, ReserveKeepsAlive

\* A withdrawal takes from the stake at least what it takes from the reserve,
\* and exactly that where the two were equal.
LEMMA WithdrawCovers ==
    ASSUME Covered, forced \subseteq forced', NEW who \in Account,
           NEW amount \in Amount, Withdraw(who, amount)
    PROVE  StakeCovered' /\ ReserveKeepsAlive'
  <1> DEFINE r == reserved[who]
             d == deposits[who]
             paid == Unreserved(who, amount)
  <1>1. /\ r \in 0..MaxBalance /\ d \in 0..MaxBalance
        /\ amount \in Nat /\ r <= d /\ amount <= d
    BY InputAssumption, WidthAssumption
       DEF Covered, TypeOK, Balance, StakeCovered, Withdraw
  <1>2. /\ free' = [free EXCEPT ![who] = SaturatingAdd(@, paid, MaxBalance)]
        /\ reserved' = [reserved EXCEPT ![who] = @ - paid]
        /\ deposits' = [deposits EXCEPT ![who] = d - amount]
    <2>1. SaturatingSub(d, amount) = d - amount
      BY <1>1, WidthAssumption, SaturatingSubType
    <2> QED
      BY <2>1 DEF Withdraw
  <1>3. /\ paid \in Nat /\ paid <= r
        /\ r - paid <= d - amount
        /\ r = d => r - paid = d - amount
    BY <1>1 DEF Unreserved
  <1> HIDE DEF paid
  <1>4. StakeCovered'
    BY <1>2, <1>3 DEF Covered, TypeOK, StakeCovered
  <1> QED
    BY <1>2, <1>3, <1>4, PaidStaysAlive

\* A transfer takes nobody who has a stake below the existential deposit.
LEMMA TransferCovers ==
    ASSUME Covered, forced \subseteq forced', NEW from \in Account,
           NEW to \in Account, NEW amount \in Amount, Transfer(from, to, amount)
    PROVE  StakeCovered' /\ ReserveKeepsAlive'
  <1>1. StakeCovered'
    BY DEF Transfer, stakeVars, Covered, StakeCovered
  <1> DEFINE left == free[from] - amount
             kept == IF left < ExistentialDeposit THEN 0 ELSE left
  <1>2. /\ from # to
        /\ left >= ExistentialDeposit \/ reserved[from] = 0
        /\ free[to] + amount >= ExistentialDeposit
        /\ free' = [free EXCEPT ![from] = kept, ![to] = free[to] + amount]
        /\ reserved' = reserved
    BY ConfigAssumption DEF Transfer, Covered, TypeOK
  <1>3. reserved[from] > 0 => kept >= ExistentialDeposit
    BY <1>2, ConfigAssumption, InputAssumption DEF Covered, TypeOK, Balance
  <1> HIDE DEF kept
  <1>4. /\ free'[from] = kept
        /\ free'[to] = free[to] + amount
        /\ \A a \in Account \ {from, to} : free'[a] = free[a]
    BY <1>2 DEF Covered, TypeOK
  <1>5. ReserveKeepsAlive'
    BY <1>2, <1>3, <1>4 DEF Covered, ReserveKeepsAlive
  <1> QED
    BY <1>1, <1>5

\* So no step of the treasury uncovers a stake.
LEMMA StepCovers ==
    ASSUME Covered, [Next]_vars, forced \subseteq forced'
    PROVE  Covered'
  <1>1. TypeOK'
    BY NextTypeOK DEF Covered
  <1>2. CASE StakeCall
    BY <1>1, <1>2, DepositCovers, WithdrawCovers DEF StakeCall, Covered
  <1>3. CASE \E from, to \in Account, amount \in Amount : Transfer(from, to, amount)
    BY <1>1, <1>3, TransferCovers DEF Covered
  <1>4. CASE \/ NextBlock
             \/ ProposalCall
             \/ \E coin \in Coin, amount \in CoinAmount : SeedVault(coin, amount)
             \/ UNCHANGED vars
    <2>1. UNCHANGED <<balanceVars, deposits>>
      BY <1>4 DEF NextBlock, ProposalCall, CreateProposal, VoteProposal,
                  FinalizeProposal, Approve, Reject, SeedVault, vars, stakeVars
    <2> QED
      BY <1>1, <2>1, CoverUnchanged DEF Covered
  <1> QED
    BY <1>2, <1>3, <1>4 DEF Next

\* What Root does to the reserve of an account uncovers that account only.
LEMMA RootCovers ==
    ASSUME Covered, NEW c \in PrivilegedCall, RootCall(c),
           forced' = forced \cup {a \in Account : /\ c.name = "force_unreserve"
                                                 /\ reserved'[a] # reserved[a]}
    PROVE  Covered'
  <1>1. CASE c.name = "sudo_as"
    <2>1. c.who \in Account /\ c.call \in UserCall
      BY <1>1 DEF PrivilegedCall, UserCall, PalletCall
    <2>2. [Next]_vars
      BY <1>1, <2>1, UserCallIsStep DEF RootCall
    <2> QED
      BY <2>2, StepCovers
  <1>2. CASE c.name = "seed_vault"
    <2>1. c.coin \in Coin /\ c.amount \in CoinAmount
      BY <1>2 DEF PrivilegedCall, UserCall, PalletCall
    <2>2. SeedVault(c.coin, c.amount)
      BY <1>2 DEF RootCall
    <2>3. [Next]_vars
      BY <2>1, <2>2 DEF Next
    <2> QED
      BY <2>3, StepCovers
  <1>3. CASE c.name = "force_unreserve"
    <2> DEFINE who == c.who
               paid == Unreserved(who, c.amount)
    <2>1. who \in Account /\ c.amount \in Balance
      BY <1>3 DEF PrivilegedCall, UserCall, PalletCall
    <2>2. ForceUnreserve(who, c.amount)
      BY <1>3 DEF RootCall
    <2>3. /\ reserved[who] \in 0..MaxBalance /\ free[who] \in 0..MaxBalance
          /\ paid \in Nat /\ paid <= reserved[who] /\ MaxBalance \in Nat
      BY <2>1, WidthAssumption DEF Covered, TypeOK, Balance, Unreserved
    <2>4. /\ free' = [free EXCEPT ![who] = SaturatingAdd(@, paid, MaxBalance)]
          /\ reserved' = [reserved EXCEPT ![who] = @ - paid]
          /\ UNCHANGED <<now, proposalVars, stakeVars, rewardVars>>
      BY <2>2 DEF ForceUnreserve
    <2> HIDE DEF paid
    <2>5. SaturatingAdd(free[who], paid, MaxBalance) \in Balance
      BY <2>3, SaturatingAddType DEF Balance
    <2>6. reserved[who] - paid \in Balance
      BY <2>3 DEF Balance
    <2>7. TypeOK'
      BY <2>1, <2>4, <2>5, <2>6
         DEF Covered, TypeOK, proposalVars, stakeVars, rewardVars
    <2>8. ReserveKeepsAlive'
      BY <2>1, <2>3, <2>4, PaidStaysAlive
    <2>9. StakeCovered'
      BY <1>3, <2>1, <2>3, <2>4 DEF Covered, StakeCovered, TypeOK, stakeVars, Balance
    <2> QED
      BY <2>7, <2>8, <2>9 DEF Covered
  <1>4. CASE c.name = "force_set_balance"
    <2>1. c.who \in Account /\ c.amount \in Balance
      BY <1>4 DEF PrivilegedCall, UserCall, PalletCall
    <2>2. ForceSetBalance(c.who, c.amount)
      BY <1>4 DEF RootCall
    <2>3. 0 \in Balance /\ forced \subseteq forced'
      BY WidthAssumption DEF Balance
    <2>4. TypeOK'
      BY <2>1, <2>2, <2>3
         DEF ForceSetBalance, Covered, TypeOK, proposalVars, stakeVars, rewardVars
    <2>5. ReserveKeepsAlive' /\ StakeCovered'
      BY <2>1, <2>2, <2>3, <2>4, ConfigAssumption
         DEF ForceSetBalance, Covered, ReserveKeepsAlive, StakeCovered, TypeOK,
             stakeVars, Balance
    <2> QED
      BY <2>4, <2>5 DEF Covered
  <1>5. CASE c.name = "force_transfer"
    <2>1. c.source \in Account /\ c.dest \in Account /\ c.value \in Amount
      BY <1>5 DEF PrivilegedCall, UserCall, PalletCall
    <2>2. Transfer(c.source, c.dest, c.value)
      BY <1>5 DEF RootCall
    <2>3. [Next]_vars
      BY <2>1, <2>2 DEF Next
    <2> QED
      BY <2>3, StepCovers
  <1> QED
    BY <1>1, <1>2, <1>3, <1>4, <1>5 DEF RootCall

-----------------------------------------------------------------------------
(* Extrinsics.                                                             *)

RuntimeInv == RuntimeTypeOK /\ StakeCovered /\ ReserveKeepsAlive

LEMMA InitRuntimeInv == RuntimeInit => RuntimeInv
  <1> SUFFICES ASSUME RuntimeInit PROVE RuntimeInv
    OBVIOUS
  <1>1. TypeOK /\ ReserveKeepsAlive
    BY InitTypeOK, InitStakeInv DEF RuntimeInit, StakeInv
  <1>2. StakeCovered
    BY DEF RuntimeInit, Init, StakeCovered
  <1>3. RuntimeTypeOK
    BY <1>1, RuntimeAssumption DEF RuntimeInit, Init, RuntimeTypeOK
  <1> QED
    BY <1>1, <1>2, <1>3 DEF RuntimeInv

\* What is being applied was signed by an account, for a call of the runtime.
LEMMA RunningType ==
    ASSUME RuntimeTypeOK, stage # "idle"
    PROVE  running \in Extrinsic
  BY DEF RuntimeTypeOK

\* A reaping leaves a nonce only to those who live.
LEMMA ReapType ==
    ASSUME RuntimeTypeOK, Reap
    PROVE  /\ nonce' \in [Account -> Nat] /\ life' \in [Account -> Nat]
           /\ \A a \in Account : nonce'[a] > 0 => Alive(a)'
  BY DEF RuntimeTypeOK, Reap

\* Calls take no time.
LEMMA CallTakesNoTime ==
    ASSUME NEW who, NEW c, SignedCall(who, c)
    PROVE  now' = now
  BY DEF SignedCall, CreateProposal, VoteProposal, FinalizeProposal, Approve,
         Reject, Deposit, Withdraw, SeedVault, Transfer, vars

LEMMA RootTakesNoTime ==
    ASSUME NEW c, RootCall(c)
    PROVE  now' = now
  BY CallTakesNoTime
     DEF RootCall, ForceUnreserve, ForceSetBalance, SeedVault, Transfer

LEMMA DispatchInv ==
    ASSUME RuntimeInv, Dispatch(running.signer, running.call)
    PROVE  RuntimeInv'
  <1>1. running \in Extrinsic /\ running \in signed
    BY RunningType DEF RuntimeInv, RuntimeTypeOK, Dispatch
  <1>2. running.signer \in Account /\ running.call \in UserCall
    BY <1>1 DEF Extrinsic, RuntimeCall, Dispatch
  <1>3. [Next]_vars
    BY <1>2, UserCallIsStep DEF Dispatch
  <1>4. Covered'
    BY <1>3, StepCovers DEF RuntimeInv, RuntimeTypeOK, Covered, Dispatch
  <1>5. now' > 0
    BY CallTakesNoTime DEF Dispatch, vars, RuntimeInv, RuntimeTypeOK
  <1>6. RuntimeTypeOK'
    BY <1>1, <1>4, <1>5, ReapType DEF RuntimeInv, RuntimeTypeOK, Covered, Dispatch
  <1> QED
    BY <1>4, <1>6 DEF RuntimeInv, Covered

LEMMA SudoInv ==
    ASSUME RuntimeInv, Sudo(running.signer, running.call)
    PROVE  RuntimeInv'
  <1> DEFINE c == running.call.call
  <1>1. running \in Extrinsic /\ running \in signed
    BY RunningType DEF RuntimeInv, RuntimeTypeOK, Sudo
  <1>2. c \in PrivilegedCall
    BY <1>1 DEF Extrinsic, RuntimeCall, UserCall, PalletCall, Sudo
  <1>3. Covered'
    <2>1. Covered
      BY DEF RuntimeInv, RuntimeTypeOK, Covered
    <2>2. CASE RootCall(c)
      BY <1>2, <2>1, <2>2, RootCovers DEF Sudo
    <2>3. CASE UNCHANGED vars
      BY <2>1, <2>3, StepCovers DEF Sudo
    <2> QED
      BY <2>2, <2>3 DEF Sudo
  <1>4. forced' \subseteq Account
    BY DEF Sudo, RuntimeInv, RuntimeTypeOK
  <1>5. now' > 0
    BY RootTakesNoTime DEF Sudo, vars, RuntimeInv, RuntimeTypeOK
  <1>6. RuntimeTypeOK'
    BY <1>1, <1>3, <1>4, <1>5, ReapType DEF RuntimeInv, RuntimeTypeOK, Covered, Sudo
  <1> QED
    BY <1>3, <1>6 DEF RuntimeInv, Covered

\* The key is handed to an account, and nothing else changes.
LEMMA SetKeyInv ==
    ASSUME RuntimeInv, \/ SetKey(running.signer, running.call)
                       \/ RequireSudo(running.signer, running.call)
    PROVE  RuntimeInv'
  <1>1. running \in Extrinsic /\ running \in signed
    BY RunningType DEF RuntimeInv, RuntimeTypeOK, SetKey, RequireSudo
  <1>2. Covered'
    BY StepCovers DEF SetKey, RequireSudo, RuntimeInv, RuntimeTypeOK, Covered, historyVars
  <1>3. running.call.name = "set_key" => running.call.new \in Account
    BY <1>1 DEF Extrinsic, RuntimeCall, UserCall, PalletCall
  <1>4. key' \in Account
    BY <1>3 DEF SetKey, RequireSudo, systemVars, RuntimeInv, RuntimeTypeOK
  <1>5. /\ UNCHANGED <<now, free, nonce, life, forced, running, signed>>
        /\ stage' \in {"idle", "refund"}
    BY DEF SetKey, RequireSudo, vars, balanceVars, systemVars, historyVars
  <1>6. RuntimeTypeOK'
    BY <1>1, <1>2, <1>4, <1>5 DEF RuntimeInv, RuntimeTypeOK, Covered, Alive
  <1> QED
    BY <1>2, <1>6 DEF RuntimeInv, Covered

\* Only an account that can pay it and stay alive is charged a fee.
LEMMA PreDispatchInv ==
    ASSUME RuntimeInv, NEW x \in signed, PreDispatch(x)
    PROVE  RuntimeInv'
  <1>1. x \in Extrinsic /\ x.signer \in Account /\ x.nonce \in Nat
    BY DEF RuntimeInv, RuntimeTypeOK, Extrinsic
  <1> DEFINE who == x.signer
             left == free[who] - Fee
  <1>2. left \in Balance /\ left >= ExistentialDeposit
    BY <1>1, WidthAssumption, ConfigAssumption, RuntimeAssumption
       DEF PreDispatch, Valid, RuntimeInv, RuntimeTypeOK, TypeOK, Balance
  <1>3. /\ free' = [free EXCEPT ![who] = left]
        /\ nonce' = [nonce EXCEPT ![who] = @ + 1]
        /\ UNCHANGED <<now, reserved, proposalVars, stakeVars, rewardVars>>
    BY DEF PreDispatch
  <1> HIDE DEF left
  <1>4. TypeOK'
    BY <1>1, <1>2, <1>3 DEF RuntimeInv, RuntimeTypeOK, TypeOK,
       proposalVars, stakeVars, rewardVars
  <1>5. StakeCovered' /\ ReserveKeepsAlive'
    BY <1>1, <1>2, <1>3 DEF PreDispatch, RuntimeInv, RuntimeTypeOK, TypeOK,
       StakeCovered, ReserveKeepsAlive, stakeVars
  <1>6. /\ nonce' \in [Account -> Nat]
        /\ \A a \in Account : nonce'[a] > 0 => Alive(a)'
    BY <1>1, <1>2, <1>3 DEF RuntimeInv, RuntimeTypeOK, TypeOK, Alive
  <1>7. RuntimeTypeOK'
    BY <1>1, <1>4, <1>6 DEF PreDispatch, RuntimeInv, RuntimeTypeOK
  <1> QED
    BY <1>5, <1>7 DEF RuntimeInv

\* The fee that goes back makes nobody poorer.
LEMMA PostDispatchInv ==
    ASSUME RuntimeInv, PostDispatch(running.signer)
    PROVE  RuntimeInv'
  <1> DEFINE who == running.signer
             f == free[who]
             g == IF f + reserved[who] = 0 THEN 0
                  ELSE SaturatingAdd(f, Fee, MaxBalance)
  <1>1. who \in Account
    BY RunningType DEF PostDispatch, RuntimeInv, RuntimeTypeOK, Extrinsic
  <1>2. f \in 0..MaxBalance /\ reserved[who] \in 0..MaxBalance /\ MaxBalance \in Nat
    BY <1>1, WidthAssumption DEF RuntimeInv, RuntimeTypeOK, TypeOK, Balance
  <1>3. g \in Balance /\ g >= f
    BY <1>2, RuntimeAssumption, SaturatingAddType DEF Balance
  <1>4. /\ free' = [free EXCEPT ![who] = g]
        /\ UNCHANGED <<now, reserved, proposalVars, stakeVars, rewardVars>>
    BY DEF PostDispatch
  <1> HIDE DEF g
  <1>5. TypeOK'
    BY <1>1, <1>3, <1>4 DEF RuntimeInv, RuntimeTypeOK, TypeOK,
       proposalVars, stakeVars, rewardVars
  <1>6. \A a \in Account : free'[a] = IF a = who THEN g ELSE free[a]
    BY <1>4 DEF RuntimeInv, RuntimeTypeOK, TypeOK
  <1>7. \A a \in Account : free[a] \in Int
    BY WidthAssumption DEF RuntimeInv, RuntimeTypeOK, TypeOK, Balance
  <1>8. \A a \in Account : Alive(a) => Alive(a)'
    <2>1. g \in Int /\ f \in Int /\ ExistentialDeposit \in Int
      BY <1>2, <1>3, WidthAssumption, ConfigAssumption DEF Balance
    <2> QED
      BY <1>3, <1>6, <1>7, <2>1 DEF Alive
  <1>9. ReserveKeepsAlive'
    BY <1>4, <1>8 DEF RuntimeInv, ReserveKeepsAlive, Alive
  <1>10. StakeCovered'
    BY <1>4 DEF PostDispatch, historyVars, RuntimeInv, StakeCovered, stakeVars
  <1>11. RuntimeTypeOK'
    BY <1>5, <1>8 DEF PostDispatch, systemVars, historyVars, RuntimeInv, RuntimeTypeOK
  <1> QED
    BY <1>9, <1>10, <1>11 DEF RuntimeInv

LEMMA SignInv ==
    ASSUME RuntimeInv, NEW w \in Wanted, Sign(w)
    PROVE  RuntimeInv'
  <1>1. w \in [signer : Account, call : RuntimeCall]
    BY RuntimeAssumption
  <1>2. now - 1 \in Block
    BY WidthAssumption DEF RuntimeInv, RuntimeTypeOK, TypeOK, Block
  <1>3. NextIndex(w.signer) \subseteq Nat
    BY <1>1 DEF NextIndex, RuntimeInv, RuntimeTypeOK
  <1>4. signed' \subseteq Extrinsic /\ signed \subseteq signed'
    BY <1>1, <1>2, <1>3 DEF Sign, RuntimeInv, RuntimeTypeOK, Extrinsic
  <1>5. Covered'
    BY StepCovers DEF Sign, RuntimeInv, RuntimeTypeOK, Covered, historyVars
  <1>6. RuntimeTypeOK'
    BY <1>4, <1>5 DEF Sign, vars, balanceVars, systemVars, historyVars,
       RuntimeInv, RuntimeTypeOK, Covered, Alive
  <1> QED
    BY <1>5, <1>6 DEF RuntimeInv, Covered

LEMMA BuildBlockInv ==
    ASSUME RuntimeInv, BuildBlock
    PROVE  RuntimeInv'
  <1>1. Covered'
    BY StepCovers DEF BuildBlock, Next, RuntimeInv, RuntimeTypeOK, Covered, historyVars
  <1>2. now' > 0
    BY WidthAssumption
       DEF BuildBlock, NextBlock, RuntimeInv, RuntimeTypeOK, TypeOK, Block
  <1>3. RuntimeTypeOK'
    BY <1>1, <1>2 DEF BuildBlock, NextBlock, balanceVars, systemVars, historyVars,
       RuntimeInv, RuntimeTypeOK, Covered, Alive
  <1> QED
    BY <1>1, <1>3 DEF RuntimeInv, Covered

LEMMA NextRuntimeInv == RuntimeInv /\ [RuntimeNext]_runtimeVars => RuntimeInv'
  <1> SUFFICES ASSUME RuntimeInv, [RuntimeNext]_runtimeVars PROVE RuntimeInv'
    OBVIOUS
  <1>1. CASE UNCHANGED runtimeVars
    <2>1. Covered'
      BY <1>1, StepCovers DEF runtimeVars, historyVars, RuntimeInv, RuntimeTypeOK, Covered
    <2>2. RuntimeTypeOK'
      BY <1>1, <2>1 DEF runtimeVars, vars, balanceVars, systemVars, historyVars,
         RuntimeInv, RuntimeTypeOK, Covered, Alive
    <2> QED
      BY <2>1, <2>2 DEF RuntimeInv, Covered
  <1>2. CASE RuntimeNext
    BY <1>2, BuildBlockInv, SignInv, PreDispatchInv, DispatchInv, SudoInv,
       SetKeyInv, PostDispatchInv DEF RuntimeNext, Apply
  <1> QED
    BY <1>1, <1>2

\* Taking and returning fees, reaping and the modelled calls of Root keep balances
\* in their width, and no account that is forgotten keeps a nonce.
THEOREM RuntimeTypeCorrect == RuntimeSpec => []RuntimeTypeOK
  <1>1. RuntimeInv => RuntimeTypeOK
    BY DEF RuntimeInv
  <1> QED
    BY <1>1, InitRuntimeInv, NextRuntimeInv, PTL DEF RuntimeSpec

\* The stake of every account whose reserve Root has not released is backed to
\* the unit, whichever of its modelled calls Root makes, for them or for others.
THEOREM StakesAreCovered == RuntimeSpec => []StakeCovered
  <1>1. RuntimeInv => StakeCovered
    BY DEF RuntimeInv
  <1> QED
    BY <1>1, InitRuntimeInv, NextRuntimeInv, PTL DEF RuntimeSpec

\* An account with a recorded stake outlives all fees and transfers, and what Root
\* sets its balance to, unless Root has released its reserve.
THEOREM StakersOutliveFees == RuntimeSpec => []StakersStayAlive
  <1>1. RuntimeInv => StakersStayAlive
    BY DEF RuntimeInv, StakeCovered, ReserveKeepsAlive, StakersStayAlive, Alive
  <1> QED
    BY <1>1, InitRuntimeInv, NextRuntimeInv, PTL DEF RuntimeSpec

-----------------------------------------------------------------------------
(* Replays.                                                                *)

\* In its present life an account has applied extrinsics of lower nonces only,
\* each after the block it was signed on.
Applied(r) ==
    LET who == r.x.signer
    IN  /\ r.x \in Extrinsic /\ r.block \in Nat /\ r.life \in Nat
        /\ r.x.born < r.block
        /\ r.life <= life[who]
        /\ r.life = life[who] => r.x.nonce < nonce[who]

History == \A r \in ran : Applied(r)

\* A reaping keeps the record: who is reaped enters another life.
LEMMA ReapKeepsHistory ==
    ASSUME RuntimeInv, History, Reap, ran' = ran
    PROVE  History'
  <1> SUFFICES ASSUME NEW r \in ran PROVE Applied(r)'
    BY DEF History
  <1> DEFINE who == r.x.signer
  <1>1. Applied(r) /\ who \in Account /\ r.x.nonce \in Nat /\ r.life \in Nat
    BY DEF History, Applied, Extrinsic
  <1>2. /\ life[who] \in Nat /\ nonce[who] \in Nat
        /\ nonce[who] > 0 => Alive(who)
    BY <1>1 DEF RuntimeInv, RuntimeTypeOK
  <1>3. /\ life'[who] = IF Alive(who) /\ ~Alive(who)' THEN life[who] + 1 ELSE life[who]
        /\ nonce'[who] = IF Alive(who)' THEN nonce[who] ELSE 0
    BY <1>1 DEF Reap
  <1> HIDE DEF who
  <1>4. /\ r.life <= life'[who]
        /\ r.life = life'[who] => r.x.nonce < nonce'[who]
    BY <1>1, <1>2, <1>3 DEF Applied, who
  <1> QED
    BY <1>1, <1>4 DEF Applied, who

\* An extrinsic that is applied was not applied in this life of its signer,
\* and nowhere outside its era.
LEMMA ValidIsNew ==
    ASSUME RuntimeInv, History, NEW x \in signed, Valid(x)
    PROVE  AppliedAgain(x)
  <1>1. /\ x \in Extrinsic /\ x.nonce \in Nat /\ x.born \in Nat
        /\ x.nonce = nonce[x.signer]
        /\ now \in Nat /\ now < x.born + EraPeriod /\ life[x.signer] \in Nat
    BY WidthAssumption
       DEF RuntimeInv, RuntimeTypeOK, TypeOK, Extrinsic, Valid, Block
  <1>2. ASSUME NEW r \in ran, r.x = x
        PROVE  r.life < life[x.signer] /\ now < r.block + EraPeriod
    BY <1>1, <1>2, RuntimeAssumption DEF History, Applied
  <1> QED
    BY <1>2 DEF AppliedAgain

LEMMA InitHistory == RuntimeInit => History
  BY DEF RuntimeInit, History

LEMMA NextHistory ==
    RuntimeInv /\ History /\ [RuntimeNext]_runtimeVars => History'
  <1> SUFFICES ASSUME RuntimeInv, History, [RuntimeNext]_runtimeVars
               PROVE  History'
    OBVIOUS
  <1>1. ASSUME NEW x \in signed, PreDispatch(x)
        PROVE  History'
    <2> SUFFICES ASSUME NEW r \in ran' PROVE Applied(r)'
      BY DEF History
    <2>1. /\ x \in Extrinsic /\ x.signer \in Account /\ x.nonce = nonce[x.signer]
          /\ x.born < now /\ now \in Nat
          /\ nonce \in [Account -> Nat] /\ life \in [Account -> Nat]
      BY <1>1, WidthAssumption
         DEF RuntimeInv, RuntimeTypeOK, TypeOK, Extrinsic, PreDispatch, Valid, Block
    <2>2. nonce' = [nonce EXCEPT ![x.signer] = @ + 1] /\ life' = life
      BY <1>1 DEF PreDispatch
    <2>3. CASE r \in ran
      <3>1. Applied(r) /\ r.x.signer \in Account /\ r.x.nonce \in Nat
        BY <2>3 DEF History, Applied, Extrinsic
      <3> QED
        BY <2>1, <2>2, <3>1 DEF Applied
    <2>4. CASE r = [x |-> x, block |-> now, life |-> life[x.signer]]
      BY <2>1, <2>2, <2>4 DEF Applied
    <2> QED
      BY <1>1, <2>3, <2>4 DEF PreDispatch
  <1>2. CASE Dispatch(running.signer, running.call)
    BY <1>2, ReapKeepsHistory DEF Dispatch
  <1>3. CASE Sudo(running.signer, running.call)
    BY <1>3, ReapKeepsHistory DEF Sudo
  <1>4. CASE \/ BuildBlock \/ \E w \in Wanted : Sign(w)
             \/ SetKey(running.signer, running.call)
             \/ RequireSudo(running.signer, running.call)
             \/ PostDispatch(running.signer) \/ UNCHANGED runtimeVars
    <2>1. UNCHANGED <<nonce, life, ran>>
      BY <1>4 DEF BuildBlock, Sign, SetKey, RequireSudo, PostDispatch,
                  runtimeVars, systemVars, historyVars
    <2> QED
      BY <2>1 DEF History, Applied
  <1> QED
    BY <1>1, <1>2, <1>3, <1>4 DEF RuntimeNext, Apply

\* No extrinsic is applied twice in one life of its signer, nor after its era.
THEOREM ExtrinsicsApplyOnce == RuntimeSpec => AppliedOnce
  <1>1. ASSUME RuntimeInv, History, [RuntimeNext]_runtimeVars,
               stage = "idle", stage' = "dispatch"
        PROVE  AppliedAgain(running')
    <2>1. PICK x \in signed : PreDispatch(x)
      BY <1>1 DEF RuntimeNext, BuildBlock, Sign, runtimeVars
    <2> QED
      BY <1>1, <2>1, ValidIsNew DEF PreDispatch
  <1>2. RuntimeInv /\ History /\ [RuntimeNext]_runtimeVars
           => (stage = "idle" /\ stage' = "dispatch" => AppliedAgain(running'))
    BY <1>1
  <1> QED
    BY <1>2, InitRuntimeInv, NextRuntimeInv, InitHistory, NextHistory, PTL
       DEF RuntimeSpec, AppliedOnce

-----------------------------------------------------------------------------
(* Signatures.                                                             *)

\* A signed call takes from its signer alone.
LEMMA CallTouchesSigner ==
    ASSUME RuntimeInv, NEW who \in Account, NEW c \in UserCall,
           SignedCall(who, c), NEW a \in Account, Touched(a)
    PROVE  a = who
  <1>1. /\ free \in [Account -> 0..MaxBalance]
        /\ reserved \in [Account -> 0..MaxBalance]
        /\ deposits \in [Account -> 0..MaxBalance]
        /\ hasVoted \in [ProposalId -> SUBSET Account]
        /\ MaxBalance \in Nat
    BY WidthAssumption DEF RuntimeInv, RuntimeTypeOK, TypeOK, Balance
  <1>2. CASE c.name = "vote_proposal"
    <2>1. VoteProposal(who, c.id, c.vote)
      BY <1>2 DEF SignedCall
    <2>2. /\ UNCHANGED <<free, reserved, deposits>>
          /\ hasVoted' = [hasVoted EXCEPT ![c.id] = @ \cup {who}]
      BY <2>1 DEF VoteProposal, balanceVars, stakeVars
    <2> QED
      BY <1>1, <2>2 DEF Touched
  <1>3. CASE c.name \in {"deposit", "withdraw"}
    <2>1. /\ Deposit(who, c.amount) \/ Withdraw(who, c.amount)
      BY <1>3 DEF SignedCall
    <2>2. /\ hasVoted' = hasVoted
          /\ \A b \in Account \ {who} :
                /\ free'[b] = free[b]
                /\ reserved'[b] = reserved[b] /\ deposits'[b] = deposits[b]
      BY <1>1, <2>1 DEF Deposit, Withdraw, proposalVars
    <2> QED
      BY <1>1, <2>2 DEF Touched
  <1>4. CASE c.name \in {"transfer_allow_death", "transfer_keep_alive"}
    <2>1. Transfer(who, c.dest, c.value)
      BY <1>4 DEF SignedCall
    <2>2. c.value \in Nat /\ c.dest \in Account
      <3>1. c.value \in Amount /\ c.dest \in Account
        BY <1>4 DEF UserCall, PalletCall
      <3>2. Amount \subseteq Nat
        BY InputAssumption, WidthAssumption DEF Balance
      <3> QED
        BY <3>1, <3>2
    <2> DEFINE kept == IF free[who] - c.value < ExistentialDeposit
                       THEN 0 ELSE free[who] - c.value
    <2>3. /\ UNCHANGED <<reserved, deposits, hasVoted>>
          /\ free' = [free EXCEPT ![who] = kept, ![c.dest] = @ + c.value]
      BY <2>1 DEF Transfer, proposalVars, stakeVars
    <2> HIDE DEF kept
    <2>4. \A b \in Account \ {who} :
             free'[b] = IF b = c.dest THEN free[b] + c.value ELSE free[b]
      <3>1. who # c.dest
        BY <2>1 DEF Transfer
      <3> QED
        BY <1>1, <2>3, <3>1
    <2>5. \A b \in Account \ {who} : ~(free'[b] < free[b])
      BY <1>1, <2>2, <2>4
    <2> QED
      BY <2>3, <2>5 DEF Touched
  <1>5. CASE c.name \in {"create_proposal", "finalize_proposal", "seed_vault", "remark"}
    <2>1. UNCHANGED <<free, reserved, deposits, hasVoted>>
      BY <1>5 DEF SignedCall, CreateProposal, FinalizeProposal, Approve, Reject,
                  SeedVault, vars, balanceVars, proposalVars, stakeVars
    <2> QED
      BY <1>1, <2>1 DEF Touched
  <1> QED
    BY <1>2, <1>3, <1>4, <1>5 DEF SignedCall

\* A step that is nobody's moves nothing of anybody.
LEMMA OthersTouchNobody ==
    ASSUME RuntimeInv, NEW a \in Account,
           \/ UNCHANGED <<free, reserved, deposits, hasVoted>>
           \/ PostDispatch(running.signer)
    PROVE  ~Touched(a)
  <1>1. /\ free \in [Account -> 0..MaxBalance] /\ MaxBalance \in Nat
        /\ reserved \in [Account -> 0..MaxBalance]
    BY WidthAssumption DEF RuntimeInv, RuntimeTypeOK, TypeOK, Balance
  <1>2. UNCHANGED <<reserved, deposits, hasVoted>>
    BY DEF PostDispatch, proposalVars, stakeVars
  <1>3. CASE UNCHANGED <<free, reserved, deposits, hasVoted>>
    BY <1>1, <1>3 DEF Touched
  <1>4. CASE PostDispatch(running.signer)
    <2> DEFINE who == running.signer
               f == free[who]
               g == IF f + reserved[who] = 0 THEN 0
                    ELSE SaturatingAdd(f, Fee, MaxBalance)
    <2>1. who \in Account
      BY <1>4, RunningType DEF PostDispatch, RuntimeInv, RuntimeTypeOK, Extrinsic
    <2>2. g \in Int /\ g >= f
      BY <1>1, <2>1, RuntimeAssumption, SaturatingAddType
    <2>3. free' = [free EXCEPT ![who] = g]
      BY <1>4 DEF PostDispatch
    <2> HIDE DEF g
    <2>4. ~(free'[a] < free[a])
      BY <1>1, <2>1, <2>2, <2>3
    <2> QED
      BY <1>2, <2>4 DEF Touched
  <1> QED
    BY <1>3, <1>4

\* Nobody's money, stake or vote moves without an extrinsic of theirs, save by a
\* modelled call of the holder of the sudo key.
THEOREM NothingMovesUnsigned == RuntimeSpec => SignedFor
  <1>1. ASSUME RuntimeInv, [RuntimeNext]_runtimeVars, NEW a \in Account, Touched(a)
        PROVE  Acting(a)
    <2>1. CASE \E x \in signed : PreDispatch(x)
      <3>1. PICK x \in signed : PreDispatch(x)
        BY <2>1
      <3>2. x.signer \in Account /\ free \in [Account -> Balance]
        BY <1>1 DEF RuntimeInv, RuntimeTypeOK, TypeOK, Extrinsic
      <3>3. /\ \A b \in Account \ {x.signer} : free'[b] = free[b]
            /\ UNCHANGED <<reserved, deposits, hasVoted>>
        BY <3>1, <3>2 DEF PreDispatch, proposalVars, stakeVars
      <3>4. ~(free[a] < free[a])
        BY <1>1, <3>2, WidthAssumption DEF Balance
      <3>5. a = x.signer
        BY <1>1, <3>3, <3>4 DEF Touched
      <3> QED
        BY <3>1, <3>5 DEF PreDispatch, Acting
    <2>2. CASE Dispatch(running.signer, running.call)
      <3>1. running.signer \in Account /\ running.call \in UserCall
        BY <1>1, <2>2, RunningType
           DEF Dispatch, RuntimeInv, RuntimeTypeOK, Extrinsic, RuntimeCall
      <3>2. CASE SignedCall(running.signer, running.call)
        BY <1>1, <2>2, <3>1, <3>2, CallTouchesSigner DEF Dispatch, Acting
      <3>3. CASE UNCHANGED vars
        BY <1>1, <3>3, OthersTouchNobody DEF vars, balanceVars, proposalVars, stakeVars
      <3> QED
        BY <2>2, <3>2, <3>3 DEF Dispatch
    <2>3. CASE Sudo(running.signer, running.call)
      BY <2>3 DEF Sudo, MaySudo, Acting
    <2>4. CASE PostDispatch(running.signer)
      BY <1>1, <2>4, OthersTouchNobody
    <2>5. CASE \/ BuildBlock \/ \E w \in Wanted : Sign(w)
               \/ SetKey(running.signer, running.call)
               \/ RequireSudo(running.signer, running.call)
               \/ UNCHANGED runtimeVars
      <3>1. UNCHANGED <<free, reserved, deposits, hasVoted>>
        BY <2>5 DEF BuildBlock, NextBlock, Sign, SetKey, RequireSudo, runtimeVars,
                    vars, balanceVars, proposalVars, stakeVars
      <3> QED
        BY <1>1, <3>1, OthersTouchNobody
    <2> QED
      BY <1>1, <2>1, <2>2, <2>3, <2>4, <2>5 DEF RuntimeNext, Apply
  <1>2. RuntimeInv /\ [RuntimeNext]_runtimeVars
           => \A a \in Account : Touched(a) => Acting(a)
    BY <1>1
  <1> QED
    BY <1>2, InitRuntimeInv, NextRuntimeInv, PTL DEF RuntimeSpec, SignedFor

-----------------------------------------------------------------------------
(* The treasury behind extrinsics.                                         *)

\* What happens around the pallet: fees, and what Root does to balances.
AroundTreasury == UNCHANGED <<now, proposalVars, rewardVars>>

\* What Root asks for is a call of the treasury, or goes around it.
LEMMA RootCallIsStep ==
    ASSUME NEW c \in PrivilegedCall, RootCall(c)
    PROVE  [Next]_vars \/ AroundTreasury
  <1>1. CASE c.name = "sudo_as"
    <2>1. c.who \in Account /\ c.call \in UserCall
      BY <1>1 DEF PrivilegedCall, UserCall, PalletCall
    <2> QED
      BY <1>1, <2>1, UserCallIsStep DEF RootCall
  <1>2. CASE c.name = "seed_vault"
    <2>1. c.coin \in Coin /\ c.amount \in CoinAmount
      BY <1>2 DEF PrivilegedCall, UserCall, PalletCall
    <2> QED
      BY <1>2, <2>1 DEF RootCall, Next
  <1>3. CASE c.name \in {"force_unreserve", "force_set_balance"}
    BY <1>3 DEF RootCall, ForceUnreserve, ForceSetBalance, AroundTreasury
  <1>4. CASE c.name = "force_transfer"
    <2>1. c.source \in Account /\ c.dest \in Account /\ c.value \in Amount
      BY <1>4 DEF PrivilegedCall, UserCall, PalletCall
    <2>2. Transfer(c.source, c.dest, c.value)
      BY <1>4 DEF RootCall
    <2> QED
      BY <2>1, <2>2 DEF Next
  <1> QED
    BY <1>1, <1>2, <1>3, <1>4 DEF RootCall

\* Every step of the runtime is a step of the treasury, or goes around it.
LEMMA RuntimeStep ==
    ASSUME RuntimeInv, [RuntimeNext]_runtimeVars
    PROVE  [Next]_vars \/ AroundTreasury
  <1>1. ASSUME NEW x \in signed, PreDispatch(x)
        PROVE  AroundTreasury
    BY <1>1 DEF PreDispatch, AroundTreasury
  <1>2. CASE PostDispatch(running.signer)
    BY <1>2 DEF PostDispatch, AroundTreasury
  <1>3. CASE Dispatch(running.signer, running.call)
    <2>1. running.signer \in Account /\ running.call \in UserCall
      BY <1>3, RunningType
         DEF Dispatch, RuntimeInv, RuntimeTypeOK, Extrinsic, RuntimeCall
    <2> QED
      BY <1>3, <2>1, UserCallIsStep DEF Dispatch
  <1>4. CASE Sudo(running.signer, running.call)
    <2>1. running \in Extrinsic
      BY <1>4, RunningType DEF Sudo, RuntimeInv
    <2>2. running.call.call \in PrivilegedCall
      BY <1>4, <2>1 DEF Sudo, Extrinsic, RuntimeCall, UserCall, PalletCall
    <2> QED
      BY <1>4, <2>2, RootCallIsStep DEF Sudo
  <1>5. CASE BuildBlock
    BY <1>5 DEF BuildBlock, Next
  <1>6. CASE \/ \E w \in Wanted : Sign(w)
             \/ SetKey(running.signer, running.call)
             \/ RequireSudo(running.signer, running.call)
             \/ UNCHANGED runtimeVars
    BY <1>6 DEF Sign, SetKey, RequireSudo, runtimeVars
  <1> QED
    BY <1>1, <1>2, <1>3, <1>4, <1>5, <1>6 DEF RuntimeNext, Apply

\* What goes around the treasury leaves its records, decisions and karma alone.
LEMMA AroundKeeps ==
    ASSUME ProposalInv, KarmaEarned, AroundTreasury
    PROVE  /\ ProposalInv' /\ KarmaEarned'
           /\ \A id \in ProposalId : Exists(id) => RecordKept(id) /\ InPeriod(id)
           /\ vault' = vault
           /\ UNCHANGED Gov!govVars
  <1>1. UNCHANGED <<now, proposals, nextProposalId, hasVoted, karma, vault>>
    BY DEF AroundTreasury, proposalVars, rewardVars
  <1>2. ProposalInv'
    BY <1>1 DEF ProposalInv, IdsDense, DecisionStands, Exists, ForCarries, Participation
  <1>3. KarmaEarned'
    BY <1>1 DEF KarmaEarned, Approved, Exists
  <1>4. \A id \in ProposalId : Exists(id) => RecordKept(id) /\ InPeriod(id)
    BY <1>1 DEF RecordKept, InPeriod, Exists
  <1>5. UNCHANGED Gov!govVars
    BY <1>1, StutterRefines DEF rewardVars
  <1> QED
    BY <1>1, <1>2, <1>3, <1>4, <1>5

\* What is proved of the records of the treasury survives fees, reaping, replays
\* and the modelled calls of Root.
ServedInv == RuntimeInv /\ ProposalInv /\ KarmaEarned

LEMMA InitServedInv == RuntimeInit => ServedInv
  BY InitRuntimeInv, InitProposalInv, InitKarma DEF ServedInv, RuntimeInit

LEMMA NextServedInv == ServedInv /\ [RuntimeNext]_runtimeVars => ServedInv'
  <1> SUFFICES ASSUME ServedInv, [RuntimeNext]_runtimeVars
               PROVE  ServedInv'
    OBVIOUS
  <1>1. RuntimeInv'
    BY NextRuntimeInv DEF ServedInv
  <1>2. TypeOK /\ IdsDense
    BY DEF ServedInv, RuntimeInv, RuntimeTypeOK, ProposalInv
  <1>3. ProposalInv' /\ KarmaEarned'
    BY <1>2, RuntimeStep, NextProposalInv, NextKarma, AroundKeeps DEF ServedInv
  <1> QED
    BY <1>1, <1>3 DEF ServedInv

LEMMA ServedInvHolds == RuntimeSpec => []ServedInv
  BY InitServedInv, NextServedInv, PTL DEF RuntimeSpec

\* Ids stay dense and decisions stand, whatever is signed and replayed, and
\* whichever of the modelled calls Root makes: they reach a record only through
\* the pallet's calls.
THEOREM ServedDecisionsStand == RuntimeSpec => [](IdsDense /\ DecisionStands)
  <1>1. ServedInv => IdsDense /\ DecisionStands
    BY DEF ServedInv, ProposalInv
  <1> QED
    BY <1>1, ServedInvHolds, PTL

\* Karma is earned by approved proposals alone, also by accounts that are reaped
\* and come back, and also next to the modelled calls of Root.
THEOREM ServedKarmaIsEarned == RuntimeSpec => []KarmaEarned
  <1>1. ServedInv => KarmaEarned
    BY DEF ServedInv
  <1> QED
    BY <1>1, ServedInvHolds, PTL

\* No extrinsic, nor any of the modelled calls of Root, revises a decision, decides
\* or votes out of time, or takes coins from the vault without a decision.
THEOREM ServedDecisionsBind ==
    RuntimeSpec => DecisionsFinal /\ PeriodBinds /\ VaultFallsByDecision
  <1>1. ASSUME ServedInv, [RuntimeNext]_runtimeVars
        PROVE  /\ \A id \in ProposalId : Exists(id) => RecordKept(id)
               /\ \A id \in ProposalId : Exists(id) => InPeriod(id)
               /\ \A c \in Coin : vault'[c] < vault[c] => DebitDecided(c)
    <2>1. TypeOK /\ ProposalInv /\ KarmaEarned
      BY <1>1 DEF ServedInv, RuntimeInv, RuntimeTypeOK
    <2>2. CASE [Next]_vars
      BY <2>1, <2>2, NextRecordKept, NextInPeriod, NextDebitDecided
    <2>3. CASE AroundTreasury
      <3>1. /\ \A id \in ProposalId : Exists(id) => RecordKept(id) /\ InPeriod(id)
            /\ vault' = vault
        BY <2>1, <2>3, AroundKeeps
      <3>2. \A c \in Coin : ~(vault[c] < vault[c])
        BY <2>1, WidthAssumption DEF TypeOK, CoinBal
      <3> QED
        BY <3>1, <3>2
    <2> QED
      BY <1>1, <2>2, <2>3, RuntimeStep DEF ServedInv
  <1>2. ServedInv /\ [RuntimeNext]_runtimeVars
           => /\ [\A id \in ProposalId : Exists(id) => RecordKept(id)]_vars
              /\ [\A id \in ProposalId : Exists(id) => InPeriod(id)]_vars
              /\ [\A c \in Coin : vault'[c] < vault[c] => DebitDecided(c)]_vars
    BY <1>1
  <1> QED
    BY <1>2, ServedInvHolds, PTL
       DEF RuntimeSpec, DecisionsFinal, PeriodBinds, VaultFallsByDecision

\* The runtime as a whole implements Governance: to whoever watches motions,
\* members, holdings and merits, extrinsics, fees, reaping and the modelled calls of
\* sudo are invisible.
THEOREM RuntimeImplementsGovernance == RuntimeSpec => ImplementsGovernance
  <1>1. RuntimeInit => Gov!GovInit
    BY InitRefines DEF RuntimeInit
  <1>2. ServedInv /\ [RuntimeNext]_runtimeVars => [Gov!GovNext]_Gov!govVars
    <2> SUFFICES ASSUME ServedInv, [RuntimeNext]_runtimeVars
                 PROVE  Gov!GovNext \/ UNCHANGED Gov!govVars
      OBVIOUS
    <2>1. TypeOK /\ IdsDense /\ ProposalInv /\ KarmaEarned
      BY DEF ServedInv, RuntimeInv, RuntimeTypeOK, ProposalInv
    <2>2. CASE [Next]_vars
      BY <2>1, <2>2, NextRefines
    <2>3. CASE AroundTreasury
      BY <2>1, <2>3, AroundKeeps
    <2> QED
      BY <2>2, <2>3, RuntimeStep DEF ServedInv
  <1> QED
    BY <1>1, <1>2, ServedInvHolds, PTL
       DEF RuntimeSpec, ImplementsGovernance, Gov!GovSpec

=============================================================================
