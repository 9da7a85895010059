---------------------------- MODULE TreasuryProofs ----------------------------
(* What holds of the treasury for every value of the constants.            *)
EXTENDS TreasuryRefinement, SumProofs

-----------------------------------------------------------------------------
(* What mul_floor and the runtime's thresholds amount to.                  *)

\* What the standard modules' quotient and remainder are to each other.
LEMMA Division ==
    ASSUME NEW d \in Nat \ {0}, NEW x \in Nat
    PROVE  x \div d \in Nat /\ x % d \in 0..(d - 1) /\ x = d * (x \div d) + (x % d)
  <1>1. x % d \in 0..(d - 1)
    OBVIOUS
  <1>2. x = d * (x \div d) + (x % d)
    OBVIOUS
  <1>3. x \div d \in Nat
    <2>1. x \div d \in Int
      OBVIOUS
    <2>2. ASSUME x \div d <= -1 PROVE FALSE
      <3>1. d * (x \div d) <= d * (-1)
        BY <2>1, <2>2
      <3> QED
        BY <1>1, <1>2, <3>1
    <2> QED
      BY <2>1, <2>2
  <1> QED
    BY <1>1, <1>2, <1>3

\* A quotient is determined by the two inequalities that define it.
LEMMA QuotientIs ==
    ASSUME NEW d \in Nat \ {0}, NEW x \in Nat, NEW q \in Nat,
           d * q <= x, x < d * q + d
    PROVE  x \div d = q
  <1> DEFINE r == x \div d
             m == x % d
  <1>1. r \in Nat /\ m \in 0..(d - 1) /\ x = d * r + m
    OBVIOUS
  <1> HIDE DEF r, m
  <1>2. ASSUME r < q PROVE FALSE
    <2>1. d * (r + 1) <= d * q
      BY <1>1, <1>2
    <2>2. d * (r + 1) = d * r + d
      BY <1>1
    <2> QED
      BY <1>1, <2>1, <2>2
  <1>3. ASSUME q < r PROVE FALSE
    <2>1. d * (q + 1) <= d * r
      BY <1>1, <1>3
    <2>2. d * (q + 1) = d * q + d
      OBVIOUS
    <2> QED
      BY <1>1, <2>1, <2>2
  <1> QED
    BY <1>1, <1>2, <1>3 DEF r

\* The split that keeps the product from overflowing changes nothing: mul_floor
\* is the product rounded down, for every part and every amount.
THEOREM MulFloorIsExact ==
    ASSUME NEW p \in Permill, NEW x \in Nat
    PROVE  MulFloor(p, x) = (x * p) \div Accuracy
  <1> DEFINE A == Accuracy
             k == x \div A
             m == x % A
             c == (m * p) \div A
             e == (m * p) % A
  <1>1. A \in Nat \ {0} /\ p \in Nat
    BY AccuracyAssumption DEF Permill
  <1>2. k \in Nat /\ m \in Nat /\ x = A * k + m
    BY <1>1
  <1> HIDE DEF A, k, m
  <1>3. m * p \in Nat /\ k * p \in Nat /\ x * p \in Nat
    BY <1>1, <1>2
  <1>4. c \in Nat /\ e \in 0..(A - 1) /\ m * p = A * c + e
    BY <1>1, <1>3, Division
  <1> HIDE DEF c, e
  <1>5. x * p = A * (k * p) + m * p
    <2>1. x * p = (A * k) * p + m * p
      BY <1>1, <1>2
    <2>2. (A * k) * p = A * (k * p)
      BY <1>1, <1>2
    <2> QED
      BY <2>1, <2>2
  <1>6. x * p = A * (k * p + c) + e
    <2>1. A * (k * p + c) = A * (k * p) + A * c
      BY <1>1, <1>3, <1>4
    <2> QED
      BY <1>1, <1>3, <1>4, <1>5, <2>1
  <1>7. k * p + c \in Nat /\ A * (k * p + c) \in Nat
    BY <1>1, <1>3, <1>4
  <1>8. (x * p) \div A = k * p + c
    <2> DEFINE X == x * p
               Q == k * p + c
    <2>1. X \in Nat /\ Q \in Nat /\ A * Q \in Nat /\ X = A * Q + e
      BY <1>3, <1>6, <1>7
    <2> HIDE DEF X, Q
    <2>2. A * Q <= X /\ X < A * Q + A
      BY <1>1, <1>4, <2>1
    <2>3. X \div A = Q
      BY <1>1, <2>1, <2>2, QuotientIs
    <2> QED
      BY <2>3 DEF X, Q
  <1> QED
    BY <1>8 DEF MulFloor, A, k, m, c

\* The quorum the runtime configures, in parts of a million and in any coarser
\* parts, is the whole of the stake and not two thirds of it.
THEOREM DaoQuorumIsTheWhole ==
    ASSUME Accuracy <= 666666666, NEW x \in Nat
    PROVE  MulFloor(DaoQuorum, x) = x
  <1>1. DaoQuorum = Accuracy /\ Accuracy \in Permill
    BY AccuracyAssumption DEF DaoQuorum, FromParts, Permill
  <1>2. MulFloor(DaoQuorum, x) = (x * Accuracy) \div Accuracy
    BY <1>1, MulFloorIsExact
  <1>3. x * Accuracy = Accuracy * x /\ x * Accuracy \in Nat
    BY AccuracyAssumption
  <1> QED
    BY <1>2, <1>3, AccuracyAssumption, QuotientIs

\* No threshold asks for more than there is.
THEOREM MulFloorBounded ==
    ASSUME NEW p \in Permill, NEW x \in Nat
    PROVE  MulFloor(p, x) \in 0..x
  <1>1. Accuracy \in Nat \ {0} /\ p \in Nat /\ p <= Accuracy
    BY AccuracyAssumption DEF Permill
  <1> DEFINE q == (x * p) \div Accuracy
  <1>2. x * p \in Nat /\ x * p <= x * Accuracy
    BY <1>1
  <1>3. q \in Nat /\ Accuracy * q <= x * p
    BY <1>1, <1>2
  <1>4. Accuracy * q <= Accuracy * x
    BY <1>1, <1>2, <1>3
  <1> HIDE DEF q
  <1>5. q <= x
    BY <1>1, <1>3, <1>4
  <1> QED
    BY <1>3, <1>5, MulFloorIsExact DEF q

-----------------------------------------------------------------------------
(* The arithmetic.                                                         *)

\* Saturating addition stays within its width and, when it need not saturate,
\* is addition.
LEMMA SaturatingAddType ==
    ASSUME NEW max \in Nat, NEW x \in 0..max, NEW y \in Nat
    PROVE  /\ SaturatingAdd(x, y, max) \in 0..max
           /\ SaturatingAdd(x, y, max) >= x
           /\ x + y <= max => SaturatingAdd(x, y, max) = x + y
  BY DEF SaturatingAdd

\* A saturating subtraction stays in its width.
LEMMA SaturatingSubType ==
    ASSUME NEW max \in Nat, NEW x \in 0..max, NEW y \in Nat
    PROVE  /\ SaturatingSub(x, y) \in 0..max
           /\ y <= x => SaturatingSub(x, y) = x - y
  BY DEF SaturatingSub

\* So does a saturating multiplication.
LEMMA SaturatingMulType ==
    ASSUME NEW max \in Nat, NEW x \in Nat, NEW y \in Nat
    PROVE  SaturatingMul(x, y, max) \in 0..max
  <1>1. x * y \in Nat
    OBVIOUS
  <1> QED
    BY <1>1 DEF SaturatingMul

-----------------------------------------------------------------------------
(* Types.                                                                  *)

\* A voting weight is a Balance.
LEMMA WeightType ==
    ASSUME TypeOK, NEW who \in Account
    PROVE  Weight(who) \in Balance
  <1>1. karma[who] \in Nat /\ deposits[who] \in 0..MaxBalance
    BY WidthAssumption DEF TypeOK, Balance
  <1> DEFINE points == SaturatingMul(KarmaUnit, karma[who], MaxBalance)
  <1>2. points \in 0..MaxBalance
    BY <1>1, WidthAssumption, ConfigAssumption, SaturatingMulType
  <1>3. points \in Nat /\ MaxBalance \in Nat
    BY <1>2, WidthAssumption
  <1> HIDE DEF points
  <1>4. SaturatingAdd(deposits[who], points, MaxBalance) \in 0..MaxBalance
    BY <1>1, <1>3, SaturatingAddType
  <1> QED
    BY <1>4 DEF Weight, Balance, points

\* So is a tally after one more vote, and it is none the smaller.
LEMMA TallyType ==
    ASSUME NEW votes \in Balance, NEW weight \in Balance
    PROVE  Tally(votes, weight) \in Balance /\ Tally(votes, weight) >= votes
  <1>1. /\ SaturatingAdd(votes, weight, MaxBalance) \in 0..MaxBalance
        /\ SaturatingAdd(votes, weight, MaxBalance) >= votes
    BY WidthAssumption, SaturatingAddType DEF Balance
  <1> DEFINE weighed == SaturatingAdd(votes, weight, MaxBalance)
  <1>2. weighed \in 0..MaxBalance /\ weighed >= votes
    BY <1>1
  <1> HIDE DEF weighed
  <1>3. /\ SaturatingAdd(weighed, 1, MaxBalance) \in 0..MaxBalance
        /\ SaturatingAdd(weighed, 1, MaxBalance) >= weighed
    BY <1>2, WidthAssumption, SaturatingAddType
  <1>4. Tally(votes, weight) = SaturatingAdd(weighed, 1, MaxBalance)
    BY DEF Tally, weighed
  <1> QED
    BY <1>2, <1>3, <1>4, WidthAssumption DEF Balance

\* A record that exists is a Proposal.
LEMMA RecordType ==
    ASSUME TypeOK, NEW id \in ProposalId, Exists(id)
    PROVE  proposals[id] \in Proposal
  BY DEF TypeOK, Exists

\* An endowment fits a balance, as all of them together do.
LEMMA EndowmentType == \A a \in Endowed : Endowment \in Balance
  <1>1. SUFFICES ASSUME NEW a \in Endowed
                 PROVE  Endowment \in Balance
    OBVIOUS
  <1>2. IsFiniteSet(Endowed)
    BY AccountAssumption, FS_Subset
  <1>3. Cardinality(Endowed) \in Nat /\ Cardinality(Endowed) # 0
    BY <1>1, <1>2, FS_CardinalityType, FS_EmptySet
  <1>4. ASSUME NEW n \in Nat, n # 0, n * Endowment <= MaxBalance
        PROVE  Endowment <= MaxBalance
    <2>1. n = 1 + (n - 1) /\ n - 1 \in Nat
      BY <1>4
    <2>2. (n - 1) * Endowment \in Nat /\ n * Endowment = Endowment + (n - 1) * Endowment
      BY <2>1, GenesisAssumption
    <2> QED
      BY <1>4, <2>2, GenesisAssumption, WidthAssumption
  <1> QED
    BY <1>3, <1>4, GenesisAssumption, WidthAssumption DEF Balance

\* Genesis is well typed.
LEMMA InitTypeOK == Init => TypeOK
  <1> SUFFICES ASSUME Init PROVE TypeOK
    OBVIOUS
  <1>1. free \in [Account -> Balance]
    BY EndowmentType, WidthAssumption DEF Init, Balance
  <1>2. now \in Block /\ nextProposalId \in ProposalId /\ totalStake \in Balance
    BY WidthAssumption DEF Init, Block, ProposalId, Balance
  <1>3. /\ reserved \in [Account -> Balance]
        /\ deposits \in [Account -> Balance]
        /\ karma \in [Account -> 0..MaxKarma]
        /\ vault \in [Coin -> CoinBal]
    BY WidthAssumption DEF Init, Balance, CoinBal
  <1>4. /\ proposals \in [ProposalId -> Proposal \cup {NoProposal}]
        /\ hasVoted \in [ProposalId -> SUBSET Account]
    BY DEF Init
  <1> QED
    BY <1>1, <1>2, <1>3, <1>4 DEF TypeOK

\* A record that some step writes is a record.
LEMMA ProposalUpdateType ==
    ASSUME TypeOK, NEW id \in ProposalId, NEW p \in Proposal
    PROVE  [proposals EXCEPT ![id] = p] \in [ProposalId -> Proposal \cup {NoProposal}]
  BY DEF TypeOK

\* Every call, every transfer and every block keeps the types.
LEMMA NextTypeOK == TypeOK /\ [Next]_vars => TypeOK'
  <1> SUFFICES ASSUME TypeOK, [Next]_vars PROVE TypeOK'
    OBVIOUS
  <1> USE DEF balanceVars, proposalVars, stakeVars, rewardVars
  <1>1. CASE NextBlock
    BY <1>1, WidthAssumption DEF TypeOK, NextBlock, Block
  <1>2. ASSUME NEW who \in Account, NEW duration \in Duration,
               NEW action \in [from : Coin, to : Coin, amount : CoinAmount],
               CreateProposal(who, duration, action)
        PROVE  TypeOK'
    <2> DEFINE end == SaturatingAdd(now, duration, MaxBlock)
    <2> DEFINE p == [author |-> who, start |-> now, end |-> end, forVotes |-> 0,
                     againstVotes |-> 0, status |-> "Active", action |-> action]
    <2>1. end \in Block /\ now \in Block
      BY InputAssumption, WidthAssumption, SaturatingAddType DEF TypeOK, Block
    <2>2. action \in Swap /\ 0 \in Balance
      BY InputAssumption, WidthAssumption DEF Swap, Balance
    <2> HIDE DEF end
    <2>3. p \in Proposal
      BY <2>1, <2>2 DEF Proposal, ProposalStatus
    <2>4. proposals' = [proposals EXCEPT ![nextProposalId] = p]
      BY <1>2 DEF CreateProposal, end
    <2> HIDE DEF p
    <2>5. proposals' \in [ProposalId -> Proposal \cup {NoProposal}]
      BY <2>3, <2>4 DEF TypeOK
    <2>6. nextProposalId' \in ProposalId
      BY <1>2, WidthAssumption DEF TypeOK, CreateProposal, NextId, ProposalId
    <2> QED
      BY <1>2, <2>5, <2>6 DEF TypeOK, CreateProposal
  <1>3. ASSUME NEW who \in Account, NEW id \in ProposalId, NEW vote \in VoteKind,
               VoteProposal(who, id, vote)
        PROVE  TypeOK'
    <2>1. proposals[id] \in Proposal
      BY <1>3, RecordType DEF VoteProposal, MayVote, IsActive
    <2> DEFINE p == proposals[id]
    <2>2. /\ Tally(p.forVotes, Weight(who)) \in Balance
          /\ Tally(p.againstVotes, Weight(who)) \in Balance
      BY <2>1, WeightType, TallyType DEF Proposal
    <2>3. proposals' = [proposals EXCEPT ![id] =
                           [p EXCEPT !.forVotes = Tally(@, Weight(who))]]
          \/ proposals' = [proposals EXCEPT ![id] =
                              [p EXCEPT !.againstVotes = Tally(@, Weight(who))]]
      BY <1>3 DEF VoteProposal
    <2>4. /\ [p EXCEPT !.forVotes = Tally(@, Weight(who))] \in Proposal
          /\ [p EXCEPT !.againstVotes = Tally(@, Weight(who))] \in Proposal
      BY <2>1, <2>2 DEF Proposal
    <2>5. proposals' \in [ProposalId -> Proposal \cup {NoProposal}]
      BY <2>3, <2>4, ProposalUpdateType
    <2>6. hasVoted' \in [ProposalId -> SUBSET Account]
      BY <1>3 DEF TypeOK, VoteProposal
    <2> QED
      BY <1>3, <2>5, <2>6 DEF TypeOK, VoteProposal
  <1>4. ASSUME NEW id \in ProposalId, Approve(id)
        PROVE  TypeOK'
    <2>1. proposals[id] \in Proposal
      BY <1>4, RecordType DEF Approve, CanFinalize, IsActive
    <2> DEFINE p == proposals[id]
               s == p.action
    <2>2. /\ s.from \in Coin /\ s.to \in Coin /\ s.from # s.to
          /\ s.amount \in 0..MaxCoin /\ vault[s.from] >= s.amount
          /\ p.author \in Account
      BY <1>4, <2>1 DEF Approve, Proposal, Swap, CoinBal
    <2>3. proposals' \in [ProposalId -> Proposal \cup {NoProposal}]
      BY <1>4, <2>1, ProposalUpdateType DEF Approve, Proposal, ProposalStatus
    <2>4. karma' \in [Account -> 0..MaxKarma]
      <3>1. karma[p.author] \in 0..MaxKarma
        BY <2>2 DEF TypeOK
      <3>2. SaturatingAdd(karma[p.author], 1, MaxKarma) \in 0..MaxKarma
        BY <3>1, WidthAssumption, SaturatingAddType
      <3> QED
        BY <1>4, <3>2 DEF TypeOK, Approve
    <2>5. vault' \in [Coin -> CoinBal]
      <3>1. vault[s.from] \in 0..MaxCoin /\ vault[s.to] \in 0..MaxCoin
        BY <2>2 DEF TypeOK, CoinBal
      <3> HIDE DEF s
      <3>2. SaturatingAdd(vault[s.to], s.amount, MaxCoin) \in 0..MaxCoin
        <4>1. vault[s.to] \in 0..MaxCoin /\ s.amount \in Nat
          BY <2>2, <3>1, WidthAssumption
        <4> QED
          BY <4>1, WidthAssumption, SaturatingAddType
      <3>3. vault[s.from] - s.amount \in 0..MaxCoin
        BY <2>2, <3>1, WidthAssumption
      <3>4. vault' = [vault EXCEPT ![s.from] = vault[s.from] - s.amount,
                        ![s.to] = SaturatingAdd(vault[s.to], s.amount, MaxCoin)]
        BY <1>4, <2>2 DEF Approve, AfterSwap, TypeOK, s
      <3> QED
        BY <2>2, <3>2, <3>3, <3>4 DEF TypeOK, CoinBal
    <2> QED
      BY <1>4, <2>3, <2>4, <2>5 DEF TypeOK, Approve
  <1>5. ASSUME NEW id \in ProposalId, Reject(id)
        PROVE  TypeOK'
    <2>1. proposals[id] \in Proposal
      BY <1>5, RecordType DEF Reject, CanFinalize, IsActive
    <2>2. proposals' \in [ProposalId -> Proposal \cup {NoProposal}]
      BY <1>5, <2>1, ProposalUpdateType DEF Reject, Proposal, ProposalStatus
    <2> QED
      BY <1>5, <2>2 DEF TypeOK, Reject
  <1>6. ASSUME NEW who \in Account, NEW amount \in Amount, Deposit(who, amount)
        PROVE  TypeOK'
    <2>1. /\ free[who] \in 0..MaxBalance /\ reserved[who] \in 0..MaxBalance
          /\ deposits[who] \in 0..MaxBalance /\ totalStake \in 0..MaxBalance
          /\ amount \in Nat
      BY InputAssumption DEF TypeOK, Balance
    <2>2. /\ free[who] - amount \in Balance
          /\ reserved[who] + amount \in Balance
      BY <1>6, <2>1, WidthAssumption, ConfigAssumption
         DEF Deposit, CanReserve, Balance
    <2>3. /\ SaturatingAdd(deposits[who], amount, MaxBalance) \in Balance
          /\ totalStake' \in Balance
      BY <1>6, <2>1, WidthAssumption, SaturatingAddType DEF Deposit, Balance
    <2> QED
      BY <1>6, <2>2, <2>3 DEF TypeOK, Deposit
  <1>7. ASSUME NEW who \in Account, NEW amount \in Amount, Withdraw(who, amount)
        PROVE  TypeOK'
    <2> DEFINE paid == Unreserved(who, amount)
    <2>1. /\ free[who] \in 0..MaxBalance /\ reserved[who] \in 0..MaxBalance
          /\ deposits[who] \in 0..MaxBalance /\ totalStake \in 0..MaxBalance
          /\ amount \in Nat
      BY InputAssumption DEF TypeOK, Balance
    <2>2. paid \in Nat /\ reserved[who] - paid \in Balance
      BY <2>1, WidthAssumption DEF Unreserved, Balance
    <2> HIDE DEF paid
    <2>3. SaturatingAdd(free[who], paid, MaxBalance) \in Balance
      BY <2>1, <2>2, WidthAssumption, SaturatingAddType DEF Balance
    <2>4. /\ SaturatingSub(deposits[who], amount) \in Balance
          /\ SaturatingSub(totalStake, amount) \in Balance
      BY <2>1, WidthAssumption, SaturatingSubType DEF Balance
    <2>5. /\ free' = [free EXCEPT ![who] = SaturatingAdd(free[who], paid, MaxBalance)]
          /\ reserved' = [reserved EXCEPT ![who] = reserved[who] - paid]
      BY <1>7 DEF Withdraw, paid, TypeOK
    <2> QED
      BY <1>7, <2>2, <2>3, <2>4, <2>5 DEF TypeOK, Withdraw
  <1>8. ASSUME NEW coin \in Coin, NEW amount \in CoinAmount, SeedVault(coin, amount)
        PROVE  TypeOK'
    <2>1. SaturatingAdd(vault[coin], amount, MaxCoin) \in CoinBal
      BY InputAssumption, WidthAssumption, SaturatingAddType DEF TypeOK, CoinBal
    <2> QED
      BY <1>8, <2>1 DEF TypeOK, SeedVault
  <1>9. ASSUME NEW from \in Account, NEW to \in Account, NEW amount \in Amount,
               Transfer(from, to, amount)
        PROVE  TypeOK'
    <2> DEFINE left == free[from] - amount
               kept == IF left < ExistentialDeposit THEN 0 ELSE left
    <2>1. /\ free[from] \in 0..MaxBalance /\ free[to] \in 0..MaxBalance
          /\ amount \in Nat
      BY InputAssumption DEF TypeOK, Balance
    <2>2. kept \in Balance
      BY <1>9, <2>1, WidthAssumption, ConfigAssumption DEF Transfer, Balance
    <2>3. free[to] + amount \in Balance
      BY <1>9, <2>1, ConfigAssumption, WidthAssumption DEF Transfer, Balance
    <2>4. free' = [free EXCEPT ![from] = kept, ![to] = free[to] + amount]
      BY <1>9 DEF Transfer, TypeOK
    <2> HIDE DEF kept
    <2>5. free' \in [Account -> Balance]
      BY <2>2, <2>3, <2>4 DEF TypeOK
    <2> QED
      BY <1>9, <2>5 DEF TypeOK, Transfer
  <1>10. CASE UNCHANGED vars
    BY <1>10 DEF TypeOK, vars
  <1> QED
    BY <1>1, <1>2, <1>3, <1>4, <1>5, <1>6, <1>7, <1>8, <1>9, <1>10
       DEF Next, ProposalCall, FinalizeProposal, StakeCall

\* The state keeps its types, whatever the widths, the thresholds and the
\* inputs: in particular no balance, tally, stake or vault entry leaves its
\* width, and the swap's plain subtraction never goes below zero.
THEOREM TypeCorrect == Spec => []TypeOK
  BY InitTypeOK, NextTypeOK, PTL DEF Spec

-----------------------------------------------------------------------------
(* Stakes.                                                                 *)

\* Both facts about stakes hold together: withdraw pays in full because the
\* deposit is the reserve, and a reserve keeps its account alive.
StakeInv == StakeBacked /\ ReserveKeepsAlive

\* At genesis nothing is staked.
LEMMA InitStakeInv == Init => StakeInv
  BY DEF Init, StakeInv, StakeBacked, ReserveKeepsAlive

\* A step that touches neither balances nor deposits touches no stake.
LEMMA StakeInvUnchanged ==
    StakeInv /\ UNCHANGED <<balanceVars, deposits>> => StakeInv'
  BY DEF StakeInv, StakeBacked, ReserveKeepsAlive, balanceVars

\* Every step keeps stakes backed and stakers alive: a transfer because it cannot
\* take a staker below the existential deposit.
LEMMA NextStakeInv == TypeOK /\ StakeInv /\ [Next]_vars => StakeInv'
  <1> SUFFICES ASSUME TypeOK, StakeInv, [Next]_vars PROVE StakeInv'
    OBVIOUS
  <1>1. CASE NextBlock
    BY <1>1, StakeInvUnchanged DEF NextBlock, stakeVars
  <1>2. ASSUME NEW who \in Account, NEW duration \in Duration,
               NEW action \in [from : Coin, to : Coin, amount : CoinAmount],
               CreateProposal(who, duration, action)
        PROVE  StakeInv'
    BY <1>2, StakeInvUnchanged DEF CreateProposal, stakeVars
  <1>3. ASSUME NEW who \in Account, NEW id \in ProposalId, NEW vote \in VoteKind,
               VoteProposal(who, id, vote)
        PROVE  StakeInv'
    BY <1>3, StakeInvUnchanged DEF VoteProposal, stakeVars
  <1>4. ASSUME NEW id \in ProposalId, FinalizeProposal(id)
        PROVE  StakeInv'
    BY <1>4, StakeInvUnchanged DEF FinalizeProposal, Approve, Reject, stakeVars
  <1>5. ASSUME NEW who \in Account, NEW amount \in Amount, Deposit(who, amount)
        PROVE  StakeInv'
    <2>1. /\ free[who] \in 0..MaxBalance /\ reserved[who] \in 0..MaxBalance
          /\ deposits[who] = reserved[who] /\ amount \in Nat
      BY InputAssumption DEF TypeOK, Balance, StakeInv, StakeBacked
    <2>2. reserved[who] + amount <= MaxBalance
      BY <1>5, <2>1, WidthAssumption DEF Deposit, CanReserve
    <2>3. SaturatingAdd(deposits[who], amount, MaxBalance) = reserved[who] + amount
      BY <2>1, <2>2, WidthAssumption DEF SaturatingAdd
    <2>4. StakeBacked'
      BY <1>5, <2>3 DEF Deposit, TypeOK, StakeInv, StakeBacked
    <2>5. ASSUME reserved[who] + amount > 0
          PROVE  free[who] - amount >= ExistentialDeposit
      BY <1>5, <2>1, <2>5, ConfigAssumption
         DEF Deposit, CanReserve, StakeInv, ReserveKeepsAlive
    <2>6. ReserveKeepsAlive'
      BY <1>5, <2>5 DEF Deposit, TypeOK, StakeInv, ReserveKeepsAlive
    <2> QED
      BY <2>4, <2>6 DEF StakeInv
  <1>6. ASSUME NEW who \in Account, NEW amount \in Amount, Withdraw(who, amount)
        PROVE  StakeInv'
    <2>1. /\ free[who] \in 0..MaxBalance /\ reserved[who] \in 0..MaxBalance
          /\ deposits[who] = reserved[who] /\ amount \in Nat
      BY InputAssumption DEF TypeOK, Balance, StakeInv, StakeBacked
    <2>2. amount <= reserved[who]
      BY <1>6, <2>1 DEF Withdraw
    <2>3. Unreserved(who, amount) = amount
      BY <2>1, <2>2, WidthAssumption DEF Unreserved
    <2>4. SaturatingSub(deposits[who], amount) = reserved[who] - amount
      BY <2>1, <2>2, WidthAssumption, SaturatingSubType
    <2>5. StakeBacked'
      BY <1>6, <2>3, <2>4 DEF Withdraw, TypeOK, StakeInv, StakeBacked
    <2>6. SaturatingAdd(free[who], amount, MaxBalance) >= free[who]
      BY <2>1, WidthAssumption, SaturatingAddType
    <2>7. SaturatingAdd(free[who], amount, MaxBalance) \in Int
      BY <2>1, WidthAssumption DEF SaturatingAdd
    <2>8. ASSUME reserved[who] - amount > 0
          PROVE  SaturatingAdd(free[who], amount, MaxBalance) >= ExistentialDeposit
      BY <2>1, <2>6, <2>7, <2>8, ConfigAssumption DEF StakeInv, ReserveKeepsAlive
    <2>9. ReserveKeepsAlive'
      BY <1>6, <2>3, <2>8 DEF Withdraw, TypeOK, StakeInv, ReserveKeepsAlive
    <2> QED
      BY <2>5, <2>9 DEF StakeInv
  <1>7. ASSUME NEW coin \in Coin, NEW amount \in CoinAmount, SeedVault(coin, amount)
        PROVE  StakeInv'
    BY <1>7, StakeInvUnchanged DEF SeedVault, stakeVars
  <1>8. ASSUME NEW from \in Account, NEW to \in Account, NEW amount \in Amount,
               Transfer(from, to, amount)
        PROVE  StakeInv'
    <2>1. StakeBacked'
      BY <1>8 DEF Transfer, stakeVars, StakeInv, StakeBacked
    <2> DEFINE left == free[from] - amount
               kept == IF left < ExistentialDeposit THEN 0 ELSE left
    <2>2. /\ from # to
          /\ left >= ExistentialDeposit \/ reserved[from] = 0
          /\ free[to] + amount >= ExistentialDeposit
          /\ free' = [free EXCEPT ![from] = kept, ![to] = free[to] + amount]
          /\ reserved' = reserved
      BY <1>8, ConfigAssumption DEF Transfer, TypeOK
    <2>3. reserved[from] > 0 => kept >= ExistentialDeposit
      BY <2>2, ConfigAssumption, InputAssumption DEF TypeOK, Balance
    <2> HIDE DEF kept
    <2>4. /\ free'[from] = kept
          /\ free'[to] = free[to] + amount
          /\ \A a \in Account \ {from, to} : free'[a] = free[a]
      BY <2>2 DEF TypeOK
    <2>5. ReserveKeepsAlive'
      BY <2>2, <2>3, <2>4 DEF StakeInv, ReserveKeepsAlive
    <2> QED
      BY <2>1, <2>5 DEF StakeInv
  <1>9. CASE UNCHANGED vars
    BY <1>9, StakeInvUnchanged DEF vars, stakeVars
  <1> QED
    BY <1>1, <1>2, <1>3, <1>4, <1>5, <1>6, <1>7, <1>8, <1>9
       DEF Next, ProposalCall, StakeCall

\* Whatever the amounts, the widths and the order of the calls, a recorded
\* deposit is exactly what the account has reserved: the shortfall unreserve
\* returns, which withdraw drops, is always zero.
THEOREM StakesAreBacked == Spec => []StakeBacked
  <1>1. StakeInv => StakeBacked
    BY DEF StakeInv
  <1> QED
    BY <1>1, InitTypeOK, NextTypeOK, InitStakeInv, NextStakeInv, PTL DEF Spec

\* No account with a reserve is ever reaped: no transfer or deposit takes it below
\* the existential deposit.
THEOREM StakersAreNeverReaped == Spec => []ReserveKeepsAlive
  <1>1. StakeInv => ReserveKeepsAlive
    BY DEF StakeInv
  <1> QED
    BY <1>1, InitTypeOK, NextTypeOK, InitStakeInv, NextStakeInv, PTL DEF Spec

-----------------------------------------------------------------------------
(* Proposals.                                                              *)

\* The three things that can happen to a record, each with what the code has
\* checked before it lets it happen.
VotedOn(id) ==
    /\ IsActive(id)
    /\ now <= proposals[id].end
    /\ \E f, g \in Balance :
          /\ f >= proposals[id].forVotes /\ g >= proposals[id].againstVotes
          /\ proposals'[id] = [proposals[id] EXCEPT !.forVotes = f, !.againstVotes = g]
    /\ \E who \in Account : hasVoted'[id] = hasVoted[id] \cup {who}

Carried(id) ==
    /\ CanFinalize(id)
    /\ ForCarries(proposals[id])
    /\ proposals[id].action.from # proposals[id].action.to
    /\ proposals'[id] = [proposals[id] EXCEPT !.status = "Approved"]
    /\ hasVoted'[id] = hasVoted[id]

Defeated(id) ==
    /\ CanFinalize(id)
    /\ ~ForCarries(proposals[id])
    /\ proposals'[id] = [proposals[id] EXCEPT !.status = "Rejected"]
    /\ hasVoted'[id] = hasVoted[id]

Kept(id) == proposals'[id] = proposals[id] /\ hasVoted'[id] = hasVoted[id]

\* A step that touches neither the records nor the voters keeps both.
LEMMA KeptUnchanged ==
    ASSUME UNCHANGED <<proposals, hasVoted>>, NEW id \in ProposalId
    PROVE  Kept(id)
  BY DEF Kept

\* What one step may do to one record: nothing, one vote, or one decision.
LEMMA RecordStep ==
    ASSUME TypeOK, IdsDense, [Next]_vars, NEW id \in ProposalId, Exists(id)
    PROVE  Kept(id) \/ VotedOn(id) \/ Carried(id) \/ Defeated(id)
  <1> USE DEF proposalVars
  <1>1. CASE NextBlock
    BY <1>1, KeptUnchanged DEF NextBlock
  <1>2. ASSUME NEW who \in Account, NEW duration \in Duration,
               NEW action \in [from : Coin, to : Coin, amount : CoinAmount],
               CreateProposal(who, duration, action)
        PROVE  Kept(id)
    <2>1. id # nextProposalId
      BY WidthAssumption DEF IdsDense, TypeOK, ProposalId
    <2> QED
      BY <1>2, <2>1 DEF CreateProposal, Kept, TypeOK
  <1>3. ASSUME NEW who \in Account, NEW i \in ProposalId, NEW vote \in VoteKind,
               VoteProposal(who, i, vote)
        PROVE  Kept(id) \/ VotedOn(id)
    <2>1. CASE i # id
      BY <1>3, <2>1 DEF VoteProposal, Kept, TypeOK
    <2>2. CASE i = id
      <3> DEFINE p == proposals[id]
      <3>1. p \in Proposal
        BY RecordType
      <3>2. /\ Tally(p.forVotes, Weight(who)) \in Balance
            /\ Tally(p.againstVotes, Weight(who)) \in Balance
            /\ Tally(p.forVotes, Weight(who)) >= p.forVotes
            /\ Tally(p.againstVotes, Weight(who)) >= p.againstVotes
            /\ p.forVotes \in Balance /\ p.againstVotes \in Balance
        BY <3>1, WeightType, TallyType DEF Proposal
      <3>3. \/ proposals'[id] = [p EXCEPT !.forVotes = Tally(p.forVotes, Weight(who))]
            \/ proposals'[id] =
                  [p EXCEPT !.againstVotes = Tally(p.againstVotes, Weight(who))]
        BY <1>3, <2>2, <3>1 DEF VoteProposal, TypeOK
      <3>4. \E f, g \in Balance :
                /\ f >= p.forVotes /\ g >= p.againstVotes
                /\ proposals'[id] = [p EXCEPT !.forVotes = f, !.againstVotes = g]
        <4> DEFINE f1 == Tally(p.forVotes, Weight(who))
                   g1 == Tally(p.againstVotes, Weight(who))
        <4>1. /\ [p EXCEPT !.forVotes = f1]
                    = [p EXCEPT !.forVotes = f1, !.againstVotes = p.againstVotes]
              /\ [p EXCEPT !.againstVotes = g1]
                    = [p EXCEPT !.forVotes = p.forVotes, !.againstVotes = g1]
          BY <3>1 DEF Proposal
        <4>2. /\ f1 \in Balance /\ g1 \in Balance
              /\ f1 >= p.forVotes /\ g1 >= p.againstVotes
              /\ p.forVotes >= p.forVotes /\ p.againstVotes >= p.againstVotes
          BY <3>2, WidthAssumption DEF Balance
        <4>3. CASE proposals'[id] = [p EXCEPT !.forVotes = f1]
          <5> HIDE DEF f1
          <5> USE <3>2, <4>2
          <5> WITNESS f1 \in Balance, p.againstVotes \in Balance
          <5> QED
            BY <4>1, <4>2, <4>3
        <4>4. CASE proposals'[id] = [p EXCEPT !.againstVotes = g1]
          <5> HIDE DEF g1
          <5> USE <3>2, <4>2
          <5> WITNESS p.forVotes \in Balance, g1 \in Balance
          <5> QED
            BY <4>1, <4>2, <4>4
        <4> QED
          BY <3>3, <4>3, <4>4
      <3>5. IsActive(id) /\ now <= p.end
        BY <1>3, <2>2 DEF VoteProposal, MayVote
      <3>6. \E a \in Account : hasVoted'[id] = hasVoted[id] \cup {a}
        BY <1>3, <2>2 DEF VoteProposal, TypeOK
      <3> QED
        BY <3>4, <3>5, <3>6 DEF VotedOn
    <2> QED
      BY <2>1, <2>2
  <1>4. ASSUME NEW i \in ProposalId, Approve(i)
        PROVE  Kept(id) \/ Carried(id)
    BY <1>4 DEF Approve, Kept, Carried, TypeOK
  <1>5. ASSUME NEW i \in ProposalId, Reject(i)
        PROVE  Kept(id) \/ Defeated(id)
    BY <1>5 DEF Reject, Kept, Defeated, TypeOK
  <1>6. ASSUME NEW who \in Account, NEW amount \in Amount,
               Deposit(who, amount) \/ Withdraw(who, amount)
        PROVE  Kept(id)
    BY <1>6, KeptUnchanged DEF Deposit, Withdraw
  <1>7. ASSUME NEW coin \in Coin, NEW amount \in CoinAmount, SeedVault(coin, amount)
        PROVE  Kept(id)
    BY <1>7, KeptUnchanged DEF SeedVault
  <1>8. ASSUME NEW from \in Account, NEW to \in Account, NEW amount \in Amount,
               Transfer(from, to, amount)
        PROVE  Kept(id)
    BY <1>8, KeptUnchanged DEF Transfer
  <1>9. CASE UNCHANGED vars
    BY <1>9, KeptUnchanged DEF vars
  <1> QED
    BY <1>1, <1>2, <1>3, <1>4, <1>5, <1>6, <1>7, <1>8, <1>9
       DEF Next, ProposalCall, FinalizeProposal, StakeCall

\* What a step changes of a record is its tallies, upwards, or its status, and
\* only of an active one.
LEMMA RecordStepKeeps ==
    ASSUME TypeOK, IdsDense, [Next]_vars, NEW id \in ProposalId, Exists(id)
    PROVE  LET p == proposals[id]
               q == proposals'[id]
           IN  /\ Exists(id)'
               /\ q.author = p.author /\ q.start = p.start
               /\ q.end = p.end /\ q.action = p.action
               /\ q.forVotes >= p.forVotes /\ q.againstVotes >= p.againstVotes
               /\ hasVoted[id] \subseteq hasVoted'[id]
               /\ ~IsActive(id) => Kept(id)
  <1> DEFINE p == proposals[id]
             q == proposals'[id]
  <1>1. p \in Proposal
    BY RecordType
  <1>2. q \in Proposal /\ q.author = p.author /\ q.start = p.start
        /\ q.end = p.end /\ q.action = p.action
        /\ q.forVotes >= p.forVotes /\ q.againstVotes >= p.againstVotes
    <2>0. p.forVotes \in Nat /\ p.againstVotes \in Nat
      BY <1>1, WidthAssumption DEF Proposal, Balance
    <2>1. CASE Kept(id)
      BY <1>1, <2>0, <2>1 DEF Kept
    <2>2. CASE VotedOn(id)
      BY <1>1, <2>0, <2>2 DEF VotedOn, Proposal
    <2>3. CASE Carried(id)
      BY <1>1, <2>0, <2>3 DEF Carried, Proposal, ProposalStatus
    <2>4. CASE Defeated(id)
      BY <1>1, <2>0, <2>4 DEF Defeated, Proposal, ProposalStatus
    <2> QED
      BY <2>1, <2>2, <2>3, <2>4, RecordStep
  <1>3. Exists(id)'
    BY <1>2, NoProposalAssumption DEF Exists
  <1>4. hasVoted[id] \subseteq hasVoted'[id]
    BY RecordStep DEF Kept, VotedOn, Carried, Defeated
  <1>5. ~IsActive(id) => Kept(id)
    BY RecordStep DEF VotedOn, Carried, Defeated, CanFinalize
  <1> QED
    BY <1>2, <1>3, <1>4, <1>5

\* An id without a record stays without one and without voters, unless it is
\* the next id and create_proposal takes it.
Taken(id) ==
    /\ id = nextProposalId
    /\ nextProposalId' = nextProposalId + 1
    /\ proposals'[id] \in Proposal
    /\ proposals'[id].status = "Active"
    /\ proposals'[id].forVotes = 0 /\ proposals'[id].againstVotes = 0
    /\ hasVoted'[id] = hasVoted[id]
    /\ karma' = karma /\ vault' = vault

\* A step takes the next id for a fresh record, or takes none and opens none.
LEMMA IdStep ==
    ASSUME TypeOK, [Next]_vars
    PROVE  \/ /\ nextProposalId' = nextProposalId
              /\ \A id \in ProposalId : ~Exists(id) => Kept(id)
           \/ /\ Taken(nextProposalId)
              /\ \A id \in ProposalId \ {nextProposalId} : Kept(id)
  <1> USE DEF proposalVars
  <1>1. ASSUME NEW who \in Account, NEW duration \in Duration,
               NEW action \in [from : Coin, to : Coin, amount : CoinAmount],
               CreateProposal(who, duration, action)
        PROVE  /\ Taken(nextProposalId)
               /\ \A id \in ProposalId \ {nextProposalId} : Kept(id)
    <2>1. \A id \in ProposalId \ {nextProposalId} : Kept(id)
      BY <1>1 DEF CreateProposal, Kept, TypeOK
    <2> DEFINE end == SaturatingAdd(now, duration, MaxBlock)
    <2> DEFINE p == [author |-> who, start |-> now, end |-> end, forVotes |-> 0,
                     againstVotes |-> 0, status |-> "Active", action |-> action]
    <2>2. proposals'[nextProposalId] = p
      BY <1>1 DEF CreateProposal, TypeOK
    <2>3. p \in Proposal
      <3>1. end \in Block /\ now \in Block
        BY InputAssumption, WidthAssumption, SaturatingAddType DEF TypeOK, Block
      <3>2. action \in Swap /\ 0 \in Balance
        BY InputAssumption, WidthAssumption DEF Swap, Balance
      <3> HIDE DEF end
      <3> QED
        BY <3>1, <3>2 DEF Proposal, ProposalStatus
    <2>4. /\ p.status = "Active" /\ p.forVotes = 0 /\ p.againstVotes = 0
      OBVIOUS
    <2> HIDE DEF p
    <2>5. Taken(nextProposalId)
      BY <1>1, <2>2, <2>3, <2>4 DEF CreateProposal, Taken, NextId, rewardVars
    <2> QED
      BY <2>1, <2>5
  <1>2. ASSUME NEW who \in Account, NEW i \in ProposalId, NEW vote \in VoteKind,
               VoteProposal(who, i, vote)
        PROVE  /\ nextProposalId' = nextProposalId
               /\ \A id \in ProposalId : ~Exists(id) => Kept(id)
    BY <1>2 DEF VoteProposal, MayVote, IsActive, Kept, TypeOK
  <1>3. ASSUME NEW i \in ProposalId, Approve(i) \/ Reject(i)
        PROVE  /\ nextProposalId' = nextProposalId
               /\ \A id \in ProposalId : ~Exists(id) => Kept(id)
    BY <1>3 DEF Approve, Reject, CanFinalize, IsActive, Kept, TypeOK
  <1>4. ASSUME UNCHANGED proposalVars
        PROVE  /\ nextProposalId' = nextProposalId
               /\ \A id \in ProposalId : ~Exists(id) => Kept(id)
    BY <1>4 DEF Kept
  <1>5. ASSUME \/ NextBlock
               \/ StakeCall
               \/ \E coin \in Coin, amount \in CoinAmount : SeedVault(coin, amount)
               \/ \E from, to \in Account, amount \in Amount :
                     Transfer(from, to, amount)
               \/ UNCHANGED vars
        PROVE  UNCHANGED proposalVars
    BY <1>5 DEF NextBlock, StakeCall, Deposit, Withdraw, SeedVault, Transfer, vars
  <1> QED
    BY <1>1, <1>2, <1>3, <1>4, <1>5 DEF Next, ProposalCall, FinalizeProposal

\* What is recorded of proposals: dense ids, and decisions their own tallies
\* bear out.  DecisionStands needs IdsDense, as a record that was overwritten
\* could be decided twice.
ProposalInv == IdsDense /\ DecisionStands

\* At genesis there are no records.
LEMMA InitProposalInv == Init => ProposalInv
  BY DEF Init, ProposalInv, IdsDense, DecisionStands, Exists, ProposalId

\* Every step keeps ids dense and decisions standing.
LEMMA NextProposalInv == TypeOK /\ ProposalInv /\ [Next]_vars => ProposalInv'
  <1> SUFFICES ASSUME TypeOK, IdsDense, DecisionStands, [Next]_vars
               PROVE  IdsDense' /\ DecisionStands'
    BY DEF ProposalInv
  <1>1. IdsDense'
    <2>1. SUFFICES ASSUME NEW id \in ProposalId
                   PROVE  /\ Exists(id)' <=> id < nextProposalId'
                          /\ ~Exists(id)' => hasVoted'[id] = {}
      BY DEF IdsDense
    <2>2. /\ Exists(id) <=> id < nextProposalId
          /\ ~Exists(id) => hasVoted[id] = {}
          /\ id \in Nat /\ nextProposalId \in Nat
      BY WidthAssumption DEF IdsDense, TypeOK, ProposalId
    <2>3. CASE Exists(id)
      <3>1. Exists(id)'
        BY <2>3, RecordStepKeeps
      <3> QED
        BY <2>2, <2>3, <3>1, IdStep DEF Taken
    <2>4. CASE ~Exists(id) /\ Kept(id) /\ (nextProposalId' = nextProposalId \/ id # nextProposalId)
      <3>1. ~Exists(id)' /\ hasVoted'[id] = {}
        BY <2>2, <2>4 DEF Kept, Exists
      <3> QED
        BY <2>2, <2>4, <3>1, IdStep DEF Taken
    <2>5. CASE id = nextProposalId /\ Taken(id)
      <3>1. Exists(id)'
        BY <2>5, NoProposalAssumption DEF Taken, Exists
      <3> QED
        BY <2>2, <2>5, <3>1 DEF Taken
    <2> QED
      BY <2>3, <2>4, <2>5, IdStep
  <1>2. DecisionStands'
    <2>1. SUFFICES ASSUME NEW id \in ProposalId, Exists(id)'
                   PROVE  LET q == proposals'[id] IN
                            /\ q.status = "Approved" =>
                                  ForCarries(q) /\ q.action.from # q.action.to
                            /\ q.status = "Rejected" => ~ForCarries(q)
                            /\ q.status # "Cancelled"
      BY DEF DecisionStands, ForCarries, Participation
    <2> USE DEF ForCarries, Participation
    <2>2. CASE Exists(id)
      <3>1. proposals[id] \in Proposal
        BY <2>2, RecordType
      <3>2. CASE Kept(id)
        BY <2>2, <3>2 DEF Kept, DecisionStands
      <3>3. CASE VotedOn(id)
        BY <3>1, <3>3 DEF VotedOn, IsActive, Proposal
      <3>4. CASE Carried(id)
        BY <3>1, <3>4 DEF Carried, Proposal
      <3>5. CASE Defeated(id)
        BY <3>1, <3>5 DEF Defeated, Proposal
      <3> QED
        BY <2>2, <3>2, <3>3, <3>4, <3>5, RecordStep
    <2>3. CASE ~Exists(id)
      <3>1. ~Kept(id)
        BY <2>1, <2>3 DEF Kept, Exists
      <3>2. Taken(id)
        BY <2>3, <3>1, IdStep
      <3> QED
        BY <3>2 DEF Taken
    <2> QED
      BY <2>2, <2>3
  <1> QED
    BY <1>1, <1>2

\* Ids are dense and never reused, for every number of proposals.
THEOREM IdsAreDense == Spec => []IdsDense
  <1>1. ProposalInv => IdsDense
    BY DEF ProposalInv
  <1> QED
    BY <1>1, InitTypeOK, NextTypeOK, InitProposalInv, NextProposalInv, PTL DEF Spec

\* Every decision on record is the one its recorded tally calls for, under
\* any threshold, and Cancelled is a status no call ever reaches.
THEOREM DecisionsStand == Spec => []DecisionStands
  <1>1. ProposalInv => DecisionStands
    BY DEF ProposalInv
  <1> QED
    BY <1>1, InitTypeOK, NextTypeOK, InitProposalInv, NextProposalInv, PTL DEF Spec

-----------------------------------------------------------------------------
(* What a step may never do.                                               *)

\* No call rewrites a decision or the terms of a proposal.
LEMMA NextRecordKept ==
    ASSUME TypeOK, ProposalInv, [Next]_vars
    PROVE  \A id \in ProposalId : Exists(id) => RecordKept(id)
  BY RecordStepKeeps DEF ProposalInv, RecordKept, Decided, IsActive, Kept

\* Decisions, and the terms they were taken on, are final in every behaviour.
THEOREM DecisionsAreFinal == Spec => DecisionsFinal
  <1>1. TypeOK /\ ProposalInv /\ [Next]_vars
           => \A id \in ProposalId : Exists(id) => RecordKept(id)
    BY NextRecordKept
  <1> QED
    BY <1>1, InitTypeOK, NextTypeOK, InitProposalInv, NextProposalInv, PTL
       DEF Spec, DecisionsFinal

\* Nothing is decided from a proposal's last block on, and nothing of it
\* changes after that block.
LEMMA NextInPeriod ==
    ASSUME TypeOK, ProposalInv, [Next]_vars
    PROVE  \A id \in ProposalId : Exists(id) => InPeriod(id)
  <1> SUFFICES ASSUME NEW id \in ProposalId, Exists(id)
               PROVE  InPeriod(id)
    OBVIOUS
  <1>1. /\ proposals[id] \in Proposal /\ proposals[id].end \in Nat
        /\ now \in Nat
    BY RecordType DEF Proposal, TypeOK, Block
  <1>2. CASE Kept(id)
    BY <1>2 DEF Kept, InPeriod
  <1>3. CASE VotedOn(id)
    BY <1>1, <1>3 DEF VotedOn, InPeriod, Proposal
  <1>4. CASE Carried(id) \/ Defeated(id)
    BY <1>1, <1>4 DEF Carried, Defeated, CanFinalize, InPeriod
  <1> QED
    BY <1>2, <1>3, <1>4, RecordStep DEF ProposalInv

\* No vote and no decision falls outside its period, and a proposal that is
\* undecided when its last block comes is never decided.
THEOREM PeriodsBind == Spec => PeriodBinds
  <1>1. TypeOK /\ ProposalInv /\ [Next]_vars
           => \A id \in ProposalId : Exists(id) => InPeriod(id)
    BY NextInPeriod
  <1> QED
    BY <1>1, InitTypeOK, NextTypeOK, InitProposalInv, NextProposalInv, PTL
       DEF Spec, PeriodBinds

\* A swap of two different coins lowers one entry, by its amount, and no other.
LEMMA SwapDebits ==
    ASSUME TypeOK, NEW id \in ProposalId, Approve(id), NEW c \in Coin,
           vault'[c] < vault[c]
    PROVE  /\ proposals[id].action.from = c
           /\ proposals[id].action.amount = vault[c] - vault'[c]
  <1> DEFINE s == proposals[id].action
  <1>1. proposals[id] \in Proposal
    BY RecordType DEF Approve, CanFinalize, IsActive
  <1>2. /\ s.from \in Coin /\ s.to \in Coin /\ s.amount \in Nat /\ s.from # s.to
        /\ vault[s.from] \in 0..MaxCoin /\ vault[s.to] \in 0..MaxCoin
    BY <1>1, WidthAssumption DEF Approve, Proposal, Swap, CoinBal, TypeOK
  <1>3. vault' = [vault EXCEPT ![s.from] = vault[s.from] - s.amount,
                     ![s.to] = SaturatingAdd(vault[s.to], s.amount, MaxCoin)]
    BY <1>2 DEF Approve, AfterSwap, TypeOK
  <1> HIDE DEF s
  <1>4. SaturatingAdd(vault[s.to], s.amount, MaxCoin) >= vault[s.to]
    BY <1>2, WidthAssumption, SaturatingAddType
  <1>5. c # s.to
    BY <1>2, <1>3, <1>4, WidthAssumption DEF TypeOK, CoinBal, SaturatingAdd
  <1>6. c = s.from
    BY <1>2, <1>3, <1>5 DEF TypeOK, CoinBal
  <1> QED
    BY <1>2, <1>3, <1>6 DEF TypeOK, s

\* Only an approval lowers an entry of the vault.
LEMMA NextDebitDecided ==
    ASSUME TypeOK, ProposalInv, [Next]_vars
    PROVE  \A c \in Coin : vault'[c] < vault[c] => DebitDecided(c)
  <1> SUFFICES ASSUME NEW c \in Coin, vault'[c] < vault[c]
               PROVE  DebitDecided(c)
    OBVIOUS
  <1>1. vault[c] \in 0..MaxCoin
    BY DEF TypeOK, CoinBal
  <1>2. ASSUME NEW id \in ProposalId, Approve(id)
        PROVE  DebitDecided(c)
    <2>1. /\ proposals[id].action.from = c
          /\ proposals[id].action.amount = vault[c] - vault'[c]
      BY <1>2, SwapDebits
    <2>2. IsActive(id)
      BY <1>2 DEF Approve, CanFinalize
    <2>3. Exists(id)'
      BY <2>2, RecordStepKeeps DEF ProposalInv, IsActive
    <2>4. proposals[id] \in Proposal
      BY <2>2, RecordType DEF IsActive
    <2>5. proposals'[id].status = "Approved"
      BY <1>2, <2>4 DEF Approve, TypeOK, Proposal
    <2> QED
      BY <2>1, <2>2, <2>3, <2>5 DEF DebitDecided, Approved, Exists
  <1>3. ASSUME NEW coin \in Coin, NEW amount \in CoinAmount, SeedVault(coin, amount)
        PROVE  FALSE
    <2>1. SaturatingAdd(vault[coin], amount, MaxCoin) >= vault[coin]
      BY InputAssumption, WidthAssumption, SaturatingAddType
         DEF TypeOK, CoinBal
    <2>2. vault'[c] = IF c = coin THEN SaturatingAdd(vault[c], amount, MaxCoin)
                                  ELSE vault[c]
      BY <1>3 DEF SeedVault, TypeOK
    <2>3. SaturatingAdd(vault[c], amount, MaxCoin) \in Int
      BY <1>1, InputAssumption, WidthAssumption DEF SaturatingAdd, CoinBal
    <2> QED
      BY <1>1, <2>1, <2>2, <2>3
  <1>4. ASSUME vault' = vault
        PROVE  FALSE
    BY <1>1, <1>4
  <1>5. ASSUME \/ NextBlock
               \/ StakeCall
               \/ \E who \in Account, duration \in Duration,
                     action \in [from : Coin, to : Coin, amount : CoinAmount] :
                        CreateProposal(who, duration, action)
               \/ \E who \in Account, id \in ProposalId, vote \in VoteKind :
                        VoteProposal(who, id, vote)
               \/ \E id \in ProposalId : Reject(id)
               \/ \E from, to \in Account, amount \in Amount :
                     Transfer(from, to, amount)
               \/ UNCHANGED vars
        PROVE  vault' = vault
    BY <1>5 DEF NextBlock, StakeCall, Deposit, Withdraw, CreateProposal,
                VoteProposal, Reject, Transfer, rewardVars, vars
  <1> QED
    BY <1>2, <1>3, <1>4, <1>5 DEF Next, ProposalCall, FinalizeProposal
\* Nothing but an approved swap takes coins out of the vault.
THEOREM VaultIsGuarded == Spec => VaultFallsByDecision
  <1>1. TypeOK /\ ProposalInv /\ [Next]_vars
           => \A c \in Coin : vault'[c] < vault[c] => DebitDecided(c)
    BY NextDebitDecided
  <1> QED
    BY <1>1, InitTypeOK, NextTypeOK, InitProposalInv, NextProposalInv, PTL
       DEF Spec, VaultFallsByDecision

-----------------------------------------------------------------------------
(* Decisions without voters.                                               *)

\* Where nobody has voted there are no votes.
VotesHaveVoters ==
    \A id \in ProposalId :
        Exists(id) /\ hasVoted[id] = {} =>
            proposals[id].forVotes = 0 /\ proposals[id].againstVotes = 0

LEMMA NextVotesHaveVoters ==
    ASSUME TypeOK, ProposalInv, VotesHaveVoters, [Next]_vars
    PROVE  VotesHaveVoters'
  <1>1. SUFFICES ASSUME NEW id \in ProposalId, Exists(id)', hasVoted'[id] = {}
                 PROVE  /\ proposals'[id].forVotes = 0
                        /\ proposals'[id].againstVotes = 0
    BY DEF VotesHaveVoters
  <1>2. CASE Exists(id)
    <2>1. proposals[id] \in Proposal
      BY <1>2, RecordType
    <2>2. ~VotedOn(id)
      BY <1>1 DEF VotedOn
    <2>3. /\ hasVoted'[id] = hasVoted[id]
          /\ proposals'[id].forVotes = proposals[id].forVotes
          /\ proposals'[id].againstVotes = proposals[id].againstVotes
      BY <1>2, <2>1, <2>2, RecordStep
         DEF ProposalInv, Kept, Carried, Defeated, Proposal
    <2> QED
      BY <1>1, <1>2, <2>3 DEF VotesHaveVoters
  <1>3. CASE ~Exists(id)
    <2>1. ~Kept(id)
      BY <1>1, <1>3 DEF Kept, Exists
    <2> QED
      BY <1>3, <2>1, IdStep DEF Taken
  <1> QED
    BY <1>2, <1>3

\* A decision on a proposal nobody has voted on.
DecidedUnvoted(id) == IsActive(id) /\ hasVoted[id] = {} /\ Decided(id)'

\* finalize_proposal does without voters only where the quorum of what is staked
\* rounds down to nothing (lib.rs:319-323): participation is never more than
\* what voters cast, so any quorum above zero takes at least one of them.
THEOREM DecisionsNeedVoters ==
    Spec => [][\A id \in ProposalId :
                  DecidedUnvoted(id) => MulFloor(Quorum, totalStake) = 0]_vars
  <1>1. Init => VotesHaveVoters
    BY DEF Init, VotesHaveVoters, Exists
  <1>2. TypeOK /\ ProposalInv /\ VotesHaveVoters /\ [Next]_vars
           => \A id \in ProposalId :
                 DecidedUnvoted(id) => MulFloor(Quorum, totalStake) = 0
    <2> SUFFICES ASSUME TypeOK, ProposalInv, VotesHaveVoters, [Next]_vars,
                        NEW id \in ProposalId, DecidedUnvoted(id)
                 PROVE  MulFloor(Quorum, totalStake) = 0
      OBVIOUS
    <2>1. Exists(id) /\ proposals[id] \in Proposal /\ proposals[id].status = "Active"
      BY RecordType DEF DecidedUnvoted, IsActive
    <2>2. proposals'[id].status # "Active"
      BY DEF DecidedUnvoted, Decided
    <2>3. ~Kept(id) /\ ~VotedOn(id)
      BY <2>1, <2>2 DEF Kept, VotedOn, Proposal
    <2>4. QuorumMet(proposals[id])
      BY <2>1, <2>3, RecordStep DEF ProposalInv, Carried, Defeated, CanFinalize
    <2>5. Participation(proposals[id]) = 0
      BY <2>1, WidthAssumption
         DEF DecidedUnvoted, VotesHaveVoters, Participation, SaturatingAdd
    <2>6. MulFloor(Quorum, totalStake) \in Nat
      BY MulFloorBounded, ConfigAssumption, WidthAssumption DEF TypeOK, Balance
    <2> QED
      BY <2>4, <2>5, <2>6 DEF QuorumMet
  <1> QED
    BY <1>1, <1>2, InitTypeOK, NextTypeOK, InitProposalInv, NextProposalInv,
       NextVotesHaveVoters, PTL DEF Spec

\* Under the quorum the runtime configures, only an empty treasury decides
\* without voters.
COROLLARY DaoDecisionsNeedVoters ==
    ASSUME Quorum = DaoQuorum, Accuracy <= 666666666
    PROVE  Spec => [][\A id \in ProposalId :
                         DecidedUnvoted(id) => totalStake = 0]_vars
  <1>1. TypeOK => MulFloor(Quorum, totalStake) = totalStake
    BY DaoQuorumIsTheWhole, WidthAssumption DEF TypeOK, Balance
  <1>2. TypeOK /\ (\A id \in ProposalId :
                      DecidedUnvoted(id) => MulFloor(Quorum, totalStake) = 0)
           => \A id \in ProposalId : DecidedUnvoted(id) => totalStake = 0
    BY <1>1
  <1> QED
    BY <1>2, TypeCorrect, DecisionsNeedVoters, PTL

-----------------------------------------------------------------------------
(* Karma.                                                                  *)

\* What an account's karma counts.
ApprovedOf(a) == {id \in ProposalId : Approved(id) /\ proposals[id].author = a}

LEMMA ApprovedOfFinite ==
    \A a : IsFiniteSet(ApprovedOf(a)) /\ Cardinality(ApprovedOf(a)) \in Nat
  <1> TAKE a
  <1>1. IsFiniteSet(ProposalId)
    BY WidthAssumption, FS_Interval DEF ProposalId
  <1>2. ApprovedOf(a) \subseteq ProposalId
    BY DEF ApprovedOf
  <1> QED
    BY <1>1, <1>2, FS_Subset, FS_CardinalityType

\* A step that leaves the set of an account's approved proposals alone.
SameApproved == karma' = karma /\ \A a \in Account : ApprovedOf(a)' = ApprovedOf(a)

\* A record that is not approved may be written to as long as it stays so.
LEMMA SameApprovedIf ==
    ASSUME karma' = karma,
           \A id \in ProposalId : \/ proposals'[id] = proposals[id]
                                  \/ ~Approved(id) /\ ~Approved(id)'
    PROVE  SameApproved
  BY DEF SameApproved, ApprovedOf, Approved, Exists

\* Only an approval adds to the set, and it adds one proposal of its author.
LEMMA ApprovedStep ==
    ASSUME TypeOK, IdsDense, [Next]_vars
    PROVE  \/ SameApproved
           \/ \E id \in ProposalId :
                 LET who == proposals[id].author IN
                   /\ who \in Account
                   /\ id \notin ApprovedOf(who)
                   /\ karma' = [karma EXCEPT ![who] = SaturatingAdd(@, 1, MaxKarma)]
                   /\ \A a \in Account :
                         ApprovedOf(a)' = IF a = who THEN ApprovedOf(a) \cup {id}
                                                     ELSE ApprovedOf(a)
  <1> USE DEF rewardVars, proposalVars
  <1>1. ASSUME NEW who \in Account, NEW duration \in Duration,
               NEW action \in [from : Coin, to : Coin, amount : CoinAmount],
               CreateProposal(who, duration, action)
        PROVE  SameApproved
    <2>1. ASSUME NEW id \in ProposalId, proposals'[id] # proposals[id]
          PROVE  ~Approved(id) /\ ~Approved(id)'
      <3>1. id = nextProposalId
        BY <1>1, <2>1 DEF CreateProposal, TypeOK
      <3>2. ~Exists(id)
        BY <3>1, WidthAssumption DEF IdsDense, TypeOK, ProposalId
      <3>3. proposals'[id].status = "Active"
        BY <1>1, <3>1 DEF CreateProposal, TypeOK
      <3> QED
        BY <3>2, <3>3 DEF Approved
    <2> QED
      BY <1>1, <2>1, SameApprovedIf DEF CreateProposal
  <1>2. ASSUME NEW who \in Account, NEW i \in ProposalId, NEW vote \in VoteKind,
               VoteProposal(who, i, vote)
        PROVE  SameApproved
    <2>1. proposals[i] \in Proposal /\ proposals[i].status = "Active"
      BY <1>2, RecordType DEF VoteProposal, MayVote, IsActive
    <2>2. ASSUME NEW id \in ProposalId, proposals'[id] # proposals[id]
          PROVE  ~Approved(id) /\ ~Approved(id)'
      <3>1. id = i
        BY <1>2, <2>2 DEF VoteProposal, TypeOK
      <3>2. proposals'[id].status = "Active"
        BY <1>2, <2>1, <3>1 DEF VoteProposal, TypeOK, Proposal
      <3> QED
        BY <2>1, <3>1, <3>2 DEF Approved
    <2> QED
      BY <1>2, <2>2, SameApprovedIf DEF VoteProposal
  <1>3. ASSUME NEW i \in ProposalId, Reject(i)
        PROVE  SameApproved
    <2>1. proposals[i] \in Proposal /\ proposals[i].status = "Active"
      BY <1>3, RecordType DEF Reject, CanFinalize, IsActive
    <2>2. ASSUME NEW id \in ProposalId, proposals'[id] # proposals[id]
          PROVE  ~Approved(id) /\ ~Approved(id)'
      BY <1>3, <2>1, <2>2 DEF Reject, TypeOK, Proposal, Approved
    <2> QED
      BY <1>3, <2>2, SameApprovedIf DEF Reject
  <1>4. ASSUME NEW i \in ProposalId, Approve(i)
        PROVE  LET who == proposals[i].author IN
                 /\ who \in Account
                 /\ i \notin ApprovedOf(who)
                 /\ karma' = [karma EXCEPT ![who] = SaturatingAdd(@, 1, MaxKarma)]
                 /\ \A a \in Account :
                       ApprovedOf(a)' = IF a = who THEN ApprovedOf(a) \cup {i}
                                                   ELSE ApprovedOf(a)
    <2> DEFINE who == proposals[i].author
    <2>1. proposals[i] \in Proposal /\ proposals[i].status = "Active"
      BY <1>4, RecordType DEF Approve, CanFinalize, IsActive
    <2>2. who \in Account /\ i \notin ApprovedOf(who)
      BY <2>1 DEF Proposal, ApprovedOf, Approved
    <2>3. /\ proposals'[i] \in Proposal
          /\ proposals'[i].status = "Approved" /\ proposals'[i].author = who
      BY <1>4, <2>1 DEF Approve, TypeOK, Proposal, ProposalStatus
    <2>4. Approved(i)' /\ ~Approved(i)
      BY <2>1, <2>3, NoProposalAssumption DEF Approved, Exists
    <2>5. \A id \in ProposalId \ {i} : proposals'[id] = proposals[id]
      BY <1>4 DEF Approve, TypeOK
    <2>6. ASSUME NEW a \in Account
          PROVE  ApprovedOf(a)' = IF a = who THEN ApprovedOf(a) \cup {i}
                                             ELSE ApprovedOf(a)
      <3>1. \A id \in ProposalId \ {i} : id \in ApprovedOf(a)' <=> id \in ApprovedOf(a)
        BY <2>5 DEF ApprovedOf, Approved, Exists
      <3>2. i \in ApprovedOf(a)' <=> a = who
        BY <2>3, <2>4 DEF ApprovedOf
      <3>3. i \notin ApprovedOf(a)
        BY <2>4 DEF ApprovedOf
      <3>4. ApprovedOf(a) \subseteq ProposalId /\ ApprovedOf(a)' \subseteq ProposalId
        BY DEF ApprovedOf
      <3> QED
        BY <3>1, <3>2, <3>3, <3>4
    <2> QED
      BY <1>4, <2>2, <2>6 DEF Approve
  <1>5. ASSUME UNCHANGED <<proposals, karma>>
        PROVE  SameApproved
    BY <1>5, SameApprovedIf
  <1>6. ASSUME \/ NextBlock
               \/ StakeCall
               \/ \E coin \in Coin, amount \in CoinAmount : SeedVault(coin, amount)
               \/ \E from, to \in Account, amount \in Amount :
                     Transfer(from, to, amount)
               \/ UNCHANGED vars
        PROVE  UNCHANGED <<proposals, karma>>
    BY <1>6 DEF NextBlock, StakeCall, Deposit, Withdraw, SeedVault, Transfer, vars
  <1> QED
    BY <1>1, <1>2, <1>3, <1>4, <1>5, <1>6
       DEF Next, ProposalCall, FinalizeProposal

\* No account has karma or an approved proposal at genesis.
LEMMA InitKarma == Init => KarmaEarned
  <1> SUFFICES ASSUME Init, NEW a \in Account
               PROVE  karma[a] = IF Cardinality(ApprovedOf(a)) > MaxKarma
                                 THEN MaxKarma ELSE Cardinality(ApprovedOf(a))
    BY DEF KarmaEarned, ApprovedOf
  <1>1. ApprovedOf(a) = {}
    BY DEF Init, ApprovedOf, Approved, Exists
  <1> QED
    BY <1>1, FS_EmptySet, WidthAssumption DEF Init

\* Every approval earns its author one point, and nothing else earns any.
LEMMA NextKarma == TypeOK /\ IdsDense /\ KarmaEarned /\ [Next]_vars => KarmaEarned'
  <1> DEFINE Counted == \A a \in Account :
                karma[a] = IF Cardinality(ApprovedOf(a)) > MaxKarma
                           THEN MaxKarma ELSE Cardinality(ApprovedOf(a))
  <1>1. Counted <=> KarmaEarned
    BY DEF KarmaEarned, ApprovedOf
  <1>2. TypeOK /\ IdsDense /\ Counted /\ [Next]_vars => Counted'
    <2> SUFFICES ASSUME TypeOK, IdsDense, Counted, [Next]_vars, NEW a \in Account
                 PROVE  karma'[a] = IF Cardinality(ApprovedOf(a)') > MaxKarma
                                    THEN MaxKarma ELSE Cardinality(ApprovedOf(a)')
      OBVIOUS
    <2>1. CASE SameApproved
      BY <2>1 DEF SameApproved
    <2>2. ASSUME NEW id \in ProposalId, NEW who \in Account,
                 id \notin ApprovedOf(who),
                 karma' = [karma EXCEPT ![who] = SaturatingAdd(@, 1, MaxKarma)],
                 ApprovedOf(a)' = IF a = who THEN ApprovedOf(a) \cup {id}
                                             ELSE ApprovedOf(a)
          PROVE  karma'[a] = IF Cardinality(ApprovedOf(a)') > MaxKarma
                             THEN MaxKarma ELSE Cardinality(ApprovedOf(a)')
      <3>1. CASE a # who
        BY <2>2, <3>1 DEF TypeOK
      <3>2. CASE a = who
        <4>1. Cardinality(ApprovedOf(a)') = Cardinality(ApprovedOf(a)) + 1
          BY <2>2, <3>2, ApprovedOfFinite, FS_AddElement
        <4>2. karma'[a] = SaturatingAdd(karma[a], 1, MaxKarma)
          BY <2>2, <3>2 DEF TypeOK
        <4>3. Cardinality(ApprovedOf(a)) \in Nat
          BY ApprovedOfFinite
        <4> QED
          BY <4>1, <4>2, <4>3, WidthAssumption DEF SaturatingAdd
      <3> QED
        BY <3>1, <3>2
    <2> QED
      BY <2>1, <2>2, ApprovedStep
  <1> HIDE DEF Counted
  <1>3. Counted' <=> KarmaEarned'
    BY DEF Counted, KarmaEarned, ApprovedOf
  <1> QED
    BY <1>1, <1>2, <1>3

\* Karma is the number of an account's approved proposals, up to its width,
\* for any number of accounts and proposals.
THEOREM KarmaIsEarned == Spec => []KarmaEarned
  <1>1. ProposalInv => IdsDense
    BY DEF ProposalInv
  <1> QED
    BY <1>1, InitTypeOK, NextTypeOK, InitProposalInv, NextProposalInv, InitKarma,
       NextKarma, PTL DEF Spec

-----------------------------------------------------------------------------
(* Money.                                                                  *)

\* The total stake, and the balance there is to stake it from.  Neither holds
\* without the other: TotalStake is exact because it never saturates, and it
\* never saturates because no call makes money.
MoneyInv == StakeTotalled /\ FundsConserved

\* The issuance is a Balance.
LEMMA IssuanceType == Issuance \in Nat /\ Issuance <= MaxBalance
  <1>1. Cardinality(Endowed) \in Nat
    BY AccountAssumption, FS_Subset, FS_CardinalityType
  <1> QED
    BY <1>1, GenesisAssumption DEF Issuance

\* The sums, as numbers, and what each account has within them.
LEMMA SumsType ==
    ASSUME TypeOK
    PROVE  /\ SumFunction(free) \in Nat /\ SumFunction(reserved) \in Nat
           /\ SumFunction(deposits) \in Nat
           /\ \A a \in Account : free[a] <= SumFunction(free)
           /\ \A a \in Account : reserved[a] <= SumFunction(reserved)
  <1>1. /\ free \in [Account -> Nat] /\ reserved \in [Account -> Nat]
        /\ deposits \in [Account -> Nat]
    BY WidthAssumption DEF TypeOK, Balance
  <1> QED
    BY <1>1, AccountAssumption, SumType, SumBoundsTerm

\* With every stake backed, deposits and reserved balances are one function.
LEMMA BackedSums ==
    ASSUME TypeOK, StakeBacked
    PROVE  deposits = reserved
  BY DEF TypeOK, StakeBacked

\* At genesis the free balances are the issuance and nothing is staked.
LEMMA InitMoneyInv == Init => MoneyInv
  <1> SUFFICES ASSUME Init PROVE MoneyInv
    OBVIOUS
  <1>1. SumFunction([a \in Account |-> 0]) = 0
    <2>1. [a \in Account |-> IF a \in {} THEN 0 ELSE 0] = [a \in Account |-> 0]
      OBVIOUS
    <2>2. SumFunction([a \in Account |-> IF a \in {} THEN 0 ELSE 0])
             = Cardinality({}) * 0
      BY AccountAssumption, SumOfConstant
    <2> QED
      BY <2>1, <2>2, FS_EmptySet
  <1>2. SumFunction(free) = Issuance
    BY AccountAssumption, GenesisAssumption, SumOfConstant DEF Init, Issuance
  <1> QED
    BY <1>1, <1>2, IssuanceType
       DEF Init, MoneyInv, StakeTotalled, FundsConserved

\* A deposit moves its amount, to the unit, from free to reserved balance and
\* into the deposit and the total stake: nothing saturates.
LEMMA DepositMoves ==
    ASSUME TypeOK, StakeInv, MoneyInv,
           NEW who \in Account, NEW amount \in Amount, Deposit(who, amount)
    PROVE  /\ MoneyInv'
           /\ free' = [free EXCEPT ![who] = free[who] - amount]
           /\ deposits' = [deposits EXCEPT ![who] = deposits[who] + amount]
           /\ free[who] - amount \in Nat
  <1> DEFINE F == SumFunction(free)
             R == SumFunction(reserved)
  <1>1. /\ free \in [Account -> Nat] /\ reserved \in [Account -> Nat]
        /\ deposits = reserved /\ amount \in Nat /\ MaxBalance \in Nat
        /\ totalStake \in 0..MaxBalance /\ reserved[who] \in 0..MaxBalance
        /\ IsFiniteSet(Account)
    BY InputAssumption, WidthAssumption, AccountAssumption, BackedSums
       DEF TypeOK, Balance, StakeInv
  <1>2. free[who] - amount \in Nat /\ reserved[who] + amount \in 0..MaxBalance
    BY <1>1, WidthAssumption, ConfigAssumption DEF Deposit, CanReserve
  <1>3. deposits' = [deposits EXCEPT ![who] = reserved[who] + amount]
    <2>1. SaturatingAdd(deposits[who], amount, MaxBalance) = reserved[who] + amount
      BY <1>1, <1>2 DEF SaturatingAdd
    <2> QED
      BY <2>1 DEF Deposit
  <1>4. /\ free' = [free EXCEPT ![who] = free[who] - amount]
        /\ reserved' = [reserved EXCEPT ![who] = reserved[who] + amount]
    BY DEF Deposit
  <1>5. SumFunction(free') = F - free[who] + (free[who] - amount)
    BY <1>1, <1>2, <1>4, SumChange
  <1>6. SumFunction(reserved') = R - reserved[who] + (reserved[who] + amount)
    <2>1. reserved[who] + amount \in Nat
      BY <1>1
    <2> QED
      BY <1>1, <1>4, <2>1, SumChange
  <1>7. SumFunction(deposits') = SumFunction(reserved')
    BY <1>1, <1>3, <1>4
  <1>8. F \in Nat /\ R \in Nat /\ free[who] \in Nat /\ reserved[who] \in Nat
    BY <1>1, SumsType
  <1>9. F + R <= Issuance /\ totalStake = R
    BY <1>1 DEF MoneyInv, FundsConserved, StakeTotalled
  <1>10. SumFunction(free') \in Nat
    <2>1. free' \in [Account -> Nat]
      BY <1>1, <1>2, <1>4
    <2> QED
      BY <1>1, <2>1, SumType
  <1> HIDE DEF F, R
  <1>11. SumFunction(free') = F - amount /\ SumFunction(reserved') = R + amount
    BY <1>1, <1>5, <1>6, <1>8
  <1>12. R + amount <= MaxBalance
    BY <1>1, <1>8, <1>9, <1>10, <1>11, IssuanceType
  <1>13. totalStake' = R + amount
    BY <1>1, <1>8, <1>9, <1>12 DEF Deposit, SaturatingAdd
  <1>14. MoneyInv'
    <2>1. StakeTotalled'
      BY <1>7, <1>11, <1>13 DEF StakeTotalled
    <2>2. FundsConserved'
      BY <1>1, <1>8, <1>9, <1>11, IssuanceType DEF FundsConserved, Issuance
    <2> QED
      BY <2>1, <2>2 DEF MoneyInv
  <1> QED
    BY <1>1, <1>2, <1>3, <1>4, <1>14

\* A withdrawal moves it back, to the unit.
LEMMA WithdrawMoves ==
    ASSUME TypeOK, StakeInv, MoneyInv,
           NEW who \in Account, NEW amount \in Amount, Withdraw(who, amount)
    PROVE  /\ MoneyInv'
           /\ free' = [free EXCEPT ![who] = free[who] + amount]
           /\ deposits' = [deposits EXCEPT ![who] = deposits[who] - amount]
           /\ amount <= deposits[who]
  <1> DEFINE F == SumFunction(free)
             R == SumFunction(reserved)
  <1>1. /\ free \in [Account -> Nat] /\ reserved \in [Account -> Nat]
        /\ deposits = reserved /\ amount \in Nat /\ MaxBalance \in Nat
        /\ IsFiniteSet(Account)
    BY InputAssumption, WidthAssumption, AccountAssumption, BackedSums
       DEF TypeOK, Balance, StakeInv
  <1>2. F \in Nat /\ R \in Nat /\ free[who] \in Nat /\ reserved[who] \in Nat
    BY <1>1, SumsType
  <1>3. F + R <= Issuance /\ totalStake = R
    BY <1>1 DEF MoneyInv, FundsConserved, StakeTotalled
  <1>4. free[who] <= F /\ reserved[who] <= R /\ amount <= reserved[who]
    BY <1>1, SumsType DEF Withdraw
  <1> HIDE DEF F, R
  <1>5. free[who] + amount <= MaxBalance
    BY <1>1, <1>2, <1>3, <1>4, IssuanceType
  <1>6. Unreserved(who, amount) = amount
    BY <1>1, <1>2, <1>4 DEF Unreserved
  <1>7. /\ free' = [free EXCEPT ![who] = free[who] + amount]
        /\ reserved' = [reserved EXCEPT ![who] = reserved[who] - amount]
        /\ deposits' = [deposits EXCEPT ![who] = reserved[who] - amount]
        /\ totalStake' = R - amount
    <2>1. SaturatingAdd(free[who], amount, MaxBalance) = free[who] + amount
      BY <1>1, <1>2, <1>5 DEF SaturatingAdd
    <2>2. SaturatingSub(reserved[who], amount) = reserved[who] - amount
      BY <1>1, <1>2, <1>4 DEF SaturatingSub
    <2>3. SaturatingSub(R, amount) = R - amount
      BY <1>1, <1>2, <1>4 DEF SaturatingSub
    <2> QED
      BY <1>1, <1>3, <1>6, <2>1, <2>2, <2>3 DEF Withdraw
  <1>8. free[who] + amount \in Nat /\ reserved[who] - amount \in Nat
    BY <1>1, <1>2, <1>4
  <1>9. SumFunction(free') = F - free[who] + (free[who] + amount)
    BY <1>1, <1>7, <1>8, SumChange DEF F
  <1>10. SumFunction(reserved') = R - reserved[who] + (reserved[who] - amount)
    BY <1>1, <1>7, <1>8, SumChange DEF R
  <1>11. SumFunction(free') = F + amount /\ SumFunction(reserved') = R - amount
    BY <1>1, <1>2, <1>9, <1>10
  <1>12. SumFunction(deposits') = SumFunction(reserved')
    BY <1>1, <1>7
  <1>13. MoneyInv'
    <2>1. StakeTotalled'
      BY <1>7, <1>11, <1>12 DEF StakeTotalled
    <2>2. FundsConserved'
      BY <1>1, <1>2, <1>3, <1>11, IssuanceType DEF FundsConserved, Issuance
    <2> QED
      BY <2>1, <2>2 DEF MoneyInv
  <1> QED
    BY <1>1, <1>4, <1>7, <1>13

\* A transfer may burn what a reaped account leaves behind and makes nothing.
LEMMA TransferConserves ==
    ASSUME TypeOK, MoneyInv, NEW from \in Account, NEW to \in Account,
           NEW amount \in Amount, Transfer(from, to, amount)
    PROVE  MoneyInv'
  <1> DEFINE F == SumFunction(free)
             left == free[from] - amount
             kept == IF left < ExistentialDeposit THEN 0 ELSE left
             g == [free EXCEPT ![from] = kept]
             got == free[to] + amount
  <1>1. /\ free \in [Account -> Nat] /\ amount \in Nat /\ IsFiniteSet(Account)
        /\ free[from] \in Nat /\ free[to] \in Nat /\ from # to /\ amount <= free[from]
    BY InputAssumption, WidthAssumption, AccountAssumption
       DEF TypeOK, Balance, Transfer
  <1>2. kept \in Nat /\ kept <= free[from] - amount /\ got \in Nat
    BY <1>1, ConfigAssumption
  <1>3. free' = [g EXCEPT ![to] = got]
    BY <1>1 DEF Transfer
  <1> HIDE DEF kept, got
  <1>4. g \in [Account -> Nat] /\ g[to] = free[to]
    BY <1>1, <1>2
  <1>5. SumFunction(g) = F - free[from] + kept
    BY <1>1, <1>2, SumChange
  <1> HIDE DEF g
  <1>6. SumFunction(free') = SumFunction(g) - g[to] + got
    BY <1>1, <1>2, <1>3, <1>4, SumChange
  <1>7. F \in Nat /\ SumFunction(reserved) \in Nat /\ F + SumFunction(reserved) <= Issuance
    BY SumsType DEF MoneyInv, FundsConserved
  <1> HIDE DEF F
  <1>8. SumFunction(free') \in Int /\ SumFunction(free') <= F
    BY <1>1, <1>2, <1>4, <1>5, <1>6, <1>7 DEF got
  <1>9. FundsConserved'
    <2>1. SumFunction(free') + SumFunction(reserved) <= Issuance
      BY <1>7, <1>8, IssuanceType
    <2>2. reserved' = reserved
      BY DEF Transfer
    <2> QED
      BY <2>1, <2>2 DEF FundsConserved, Issuance
  <1>10. StakeTotalled'
    BY DEF Transfer, stakeVars, MoneyInv, StakeTotalled
  <1> QED
    BY <1>9, <1>10 DEF MoneyInv

\* A step that touches no balance and no stake keeps the sums.
LEMMA MoneyUnchanged ==
    MoneyInv /\ UNCHANGED <<balanceVars, stakeVars>> => MoneyInv'
  BY DEF MoneyInv, StakeTotalled, FundsConserved, Issuance, balanceVars, stakeVars

\* Every step keeps the sums.
LEMMA NextMoneyInv == TypeOK /\ StakeInv /\ MoneyInv /\ [Next]_vars => MoneyInv'
  <1> SUFFICES ASSUME TypeOK, StakeInv, MoneyInv, [Next]_vars PROVE MoneyInv'
    OBVIOUS
  <1>1. CASE StakeCall
    BY <1>1, DepositMoves, WithdrawMoves DEF StakeCall
  <1>2. CASE \E from, to \in Account, amount \in Amount : Transfer(from, to, amount)
    BY <1>2, TransferConserves
  <1>3. ASSUME \/ NextBlock
               \/ ProposalCall
               \/ \E coin \in Coin, amount \in CoinAmount : SeedVault(coin, amount)
               \/ UNCHANGED vars
        PROVE  UNCHANGED <<balanceVars, stakeVars>>
    BY <1>3 DEF NextBlock, ProposalCall, CreateProposal, VoteProposal,
                FinalizeProposal, Approve, Reject, SeedVault, vars
  <1> QED
    BY <1>1, <1>2, <1>3, MoneyUnchanged DEF Next

\* TotalStake is the sum of the deposits, for any number of accounts, amounts
\* and widths: the saturating arithmetic that keeps it never saturates.
THEOREM TotalStakeIsExact == Spec => []StakeTotalled
  <1>1. MoneyInv => StakeTotalled
    BY DEF MoneyInv
  <1> QED
    BY <1>1, InitTypeOK, NextTypeOK, InitStakeInv, NextStakeInv, InitMoneyInv,
       NextMoneyInv, PTL DEF Spec

\* No sequence of deposits, withdrawals and transfers makes money.
THEOREM FundsAreConserved == Spec => []FundsConserved
  <1>1. MoneyInv => FundsConserved
    BY DEF MoneyInv
  <1> QED
    BY <1>1, InitTypeOK, NextTypeOK, InitStakeInv, NextStakeInv, InitMoneyInv,
       NextMoneyInv, PTL DEF Spec

\* Every deposit and every withdrawal moves, to the unit, what it records.
THEOREM StakesArePaidBack == Spec => StakePaidBack
  <1>1. ASSUME TypeOK, StakeInv, MoneyInv, [Next]_vars
        PROVE  PaidBack
    <2>1. free \in [Account -> Nat] /\ deposits \in [Account -> Nat]
      BY <1>1, WidthAssumption DEF TypeOK, Balance
    <2>2. ASSUME NEW who \in Account, NEW amount \in Amount, Deposit(who, amount)
          PROVE  PaidBack
      <3>1. amount \in Nat
        BY InputAssumption, WidthAssumption DEF Balance
      <3> QED
        BY <1>1, <2>1, <2>2, <3>1, DepositMoves DEF PaidBack
    <2>3. ASSUME NEW who \in Account, NEW amount \in Amount, Withdraw(who, amount)
          PROVE  PaidBack
      <3>1. amount \in Nat
        BY InputAssumption, WidthAssumption DEF Balance
      <3> QED
        BY <1>1, <2>1, <2>3, <3>1, WithdrawMoves DEF PaidBack
    <2>4. ASSUME \/ NextBlock
                 \/ ProposalCall
                 \/ \E coin \in Coin, amount \in CoinAmount : SeedVault(coin, amount)
                 \/ \E from, to \in Account, amount \in Amount :
                       Transfer(from, to, amount)
                 \/ UNCHANGED vars
          PROVE  deposits' = deposits
      BY <2>4 DEF NextBlock, ProposalCall, CreateProposal, VoteProposal,
                  FinalizeProposal, Approve, Reject, SeedVault, Transfer,
                  stakeVars, vars
    <2> QED
      BY <1>1, <2>2, <2>3, <2>4 DEF Next, StakeCall, PaidBack
  <1>2. TypeOK /\ StakeInv /\ MoneyInv /\ [Next]_vars => PaidBack
    BY <1>1
  <1> QED
    BY <1>2, InitTypeOK, NextTypeOK, InitStakeInv, NextStakeInv, InitMoneyInv,
       NextMoneyInv, PTL DEF Spec, StakePaidBack

-----------------------------------------------------------------------------
(* Governance.                                                             *)

\* The mapping, as functions of the state.
Phases == [id \in ProposalId |-> PhaseOf(id)]
AllTerms == [id \in ProposalId |-> TermsOf(id)]

\* A record's terms are terms of a motion, field by field.
LEMMA TermsType ==
    ASSUME NEW id \in ProposalId, proposals[id] \in Proposal
    PROVE  /\ TermsOf(id) \in Gov!Terms
           /\ TermsOf(id).author = proposals[id].author
           /\ TermsOf(id).from = proposals[id].action.from
           /\ TermsOf(id).to = proposals[id].action.to
           /\ TermsOf(id).amount = proposals[id].action.amount
  BY NoProposalAssumption
     DEF TermsOf, Exists, Gov!Terms, Proposal, Swap, CoinBal

\* A record that keeps its status and its terms is the same motion.
LEMMA SameMotion ==
    ASSUME NEW id \in ProposalId,
           \/ Kept(id)
           \/ /\ Exists(id) /\ Exists(id)'
              /\ proposals'[id].status = proposals[id].status
              /\ proposals'[id].author = proposals[id].author
              /\ proposals'[id].action = proposals[id].action
    PROVE  PhaseOf(id)' = PhaseOf(id) /\ TermsOf(id)' = TermsOf(id)
  BY DEF Kept, PhaseOf, TermsOf, Exists

\* A decision moves its own motion out of the open and no other, on the same
\* terms.
LEMMA DecidedMotion ==
    ASSUME TypeOK, NEW id \in ProposalId, IsActive(id),
           NEW status \in {"Approved", "Rejected"},
           proposals' = [proposals EXCEPT ![id].status = status]
    PROVE  /\ Phases[id] = "open"
           /\ Phases' = [Phases EXCEPT ![id] =
                            IF status = "Approved" THEN "carried" ELSE "lost"]
           /\ AllTerms' = AllTerms
  <1>1. proposals[id] \in Proposal
    BY RecordType DEF IsActive
  <1>2. proposals'[id] = [proposals[id] EXCEPT !.status = status]
    BY DEF TypeOK
  <1>3. Exists(id) /\ Exists(id)'
    <2>1. proposals'[id] \in Proposal
      BY <1>1, <1>2 DEF Proposal, ProposalStatus
    <2> QED
      BY <2>1, NoProposalAssumption DEF Exists, IsActive
  <1>4. /\ PhaseOf(id) = "open"
        /\ PhaseOf(id)' = IF status = "Approved" THEN "carried" ELSE "lost"
    BY <1>1, <1>2, <1>3 DEF PhaseOf, IsActive, Proposal
  <1>5. TermsOf(id)' = TermsOf(id)
    BY <1>1, <1>2, <1>3 DEF TermsOf, Proposal
  <1>6. \A i \in ProposalId \ {id} :
            PhaseOf(i)' = PhaseOf(i) /\ TermsOf(i)' = TermsOf(i)
    BY DEF PhaseOf, TermsOf, Exists, TypeOK
  <1> QED
    BY <1>4, <1>5, <1>6 DEF Phases, AllTerms

-----------------------------------------------------------------------------
\* No records are no motions.
LEMMA InitRefines == Init => Gov!GovInit
  BY DEF Init, Gov!GovInit, PhaseOf, TermsOf, Exists

\* Nothing Governance speaks of changes when neither proposals, votes, vault
\* nor karma do.
LEMMA StutterRefines ==
    ASSUME UNCHANGED <<proposals, hasVoted, rewardVars>>
    PROVE  UNCHANGED Gov!govVars
  BY DEF rewardVars, Gov!govVars, PhaseOf, TermsOf, Exists

\* create_proposal opens the motion of the id it takes.
LEMMA CreateRefines ==
    ASSUME TypeOK, IdsDense, [Next]_vars,
           NEW who \in Account, NEW duration \in Duration,
           NEW action \in [from : Coin, to : Coin, amount : CoinAmount],
           CreateProposal(who, duration, action),
           NEW n \in ProposalId, n = nextProposalId
    PROVE  Gov!Open(n)
  <1>1. ~Exists(n)
    BY WidthAssumption DEF TypeOK, IdsDense, ProposalId
  <1>2. nextProposalId' # nextProposalId
    BY WidthAssumption DEF CreateProposal, NextId, TypeOK, ProposalId
  <1>3. Taken(n) /\ \A i \in ProposalId \ {n} : Kept(i)
    BY <1>2, IdStep
  <1>4. Exists(n)'
    BY <1>3, NoProposalAssumption DEF Taken, Exists
  <1>5. PhaseOf(n) = "unopened" /\ PhaseOf(n)' = "open"
    BY <1>1, <1>3, <1>4 DEF PhaseOf, Taken
  <1>6. TermsOf(n)' \in Gov!Terms
    BY <1>3, <1>4 DEF TermsOf, Taken, Gov!Terms, Proposal, Swap, CoinBal
  <1>7. \A i \in ProposalId \ {n} :
            PhaseOf(i)' = PhaseOf(i) /\ TermsOf(i)' = TermsOf(i)
    BY <1>3, SameMotion
  <1>8. Phases' = [Phases EXCEPT ![n] = "open"]
    BY <1>1, <1>5, <1>7 DEF Phases
  <1>9. AllTerms' = [AllTerms EXCEPT ![n] = TermsOf(n)']
    BY <1>1, <1>7 DEF AllTerms
  <1>10. UNCHANGED <<hasVoted, vault, karma>>
    BY DEF CreateProposal, rewardVars
  <1> QED
    BY <1>1, <1>5, <1>6, <1>8, <1>9, <1>10 DEF Gov!Open, Phases, AllTerms

\* vote_proposal casts one vote on an open motion.
LEMMA VoteRefines ==
    ASSUME TypeOK, IdsDense, [Next]_vars,
           NEW who \in Account, NEW id \in ProposalId, NEW vote \in VoteKind,
           VoteProposal(who, id, vote)
    PROVE  Gov!Cast(id)
  <1>1. IsActive(id) /\ who \notin hasVoted[id]
    BY DEF VoteProposal, MayVote
  <1>2. proposals[id] \in Proposal /\ PhaseOf(id) = "open"
    BY <1>1, RecordType DEF IsActive, PhaseOf
  <1>3. Exists(id) /\ Exists(id)'
    BY <1>1, RecordStepKeeps DEF IsActive
  <1>4. \A i \in ProposalId :
            PhaseOf(i)' = PhaseOf(i) /\ TermsOf(i)' = TermsOf(i)
    <2>1. ASSUME NEW i \in ProposalId, i # id PROVE Kept(i)
      BY <2>1 DEF VoteProposal, Kept, TypeOK
    <2>2. /\ proposals'[id].status = proposals[id].status
          /\ proposals'[id].author = proposals[id].author
          /\ proposals'[id].action = proposals[id].action
      BY <1>2 DEF VoteProposal, TypeOK, Proposal
    <2> QED
      BY <1>3, <2>1, <2>2, SameMotion
  <1>5. Phases' = Phases /\ AllTerms' = AllTerms
    BY <1>4 DEF Phases, AllTerms
  <1>6. \E a \in Account \ hasVoted[id] :
            hasVoted' = [hasVoted EXCEPT ![id] = @ \cup {a}]
    BY <1>1 DEF VoteProposal
  <1>7. UNCHANGED <<vault, karma>>
    BY DEF VoteProposal, rewardVars
  <1> QED
    BY <1>2, <1>5, <1>6, <1>7 DEF Gov!Cast, Phases, AllTerms

\* An approval carries the motion: the vault and the author's karma move by its
\* terms.
LEMMA ApproveRefines ==
    ASSUME TypeOK, NEW id \in ProposalId, Approve(id)
    PROVE  Gov!Carry(id)
  <1>1. IsActive(id)
    BY DEF Approve, CanFinalize
  <1>2. proposals[id] \in Proposal
    BY <1>1, RecordType DEF IsActive
  <1> DEFINE p == proposals[id]
             s == p.action
             t == AllTerms[id]
  <1>3. /\ t.author = p.author /\ t.from = s.from /\ t.to = s.to
        /\ t.amount = s.amount
    BY <1>2, TermsType DEF AllTerms
  <1>4. /\ Phases[id] = "open"
        /\ Phases' = [Phases EXCEPT ![id] = "carried"]
        /\ AllTerms' = AllTerms
    BY <1>1, DecidedMotion DEF Approve
  <1>5. s.from # s.to /\ s.amount <= vault[s.from]
    <2>1. vault[s.from] \in 0..MaxCoin /\ s.amount \in 0..MaxCoin
      BY <1>2 DEF TypeOK, Proposal, Swap, CoinBal
    <2> QED
      BY <2>1, WidthAssumption DEF Approve
  <1>6. vault' = [vault EXCEPT
                     ![s.from] = vault[s.from] - s.amount,
                     ![s.to] = Gov!Raised(s.amount, vault[s.to], MaxCoin)]
    BY <1>2, <1>5 DEF Approve, AfterSwap, SaturatingAdd, Gov!Raised, TypeOK
  <1>7. karma' = [karma EXCEPT
                     ![p.author] = Gov!Raised(1, karma[p.author], MaxKarma)]
    BY DEF Approve, SaturatingAdd, Gov!Raised
  <1>8. hasVoted' = hasVoted
    BY DEF Approve
  <1> HIDE DEF t
  <1> QED
    BY <1>3, <1>4, <1>5, <1>6, <1>7, <1>8 DEF Gov!Carry, Phases, AllTerms, t

\* A rejection loses the motion and moves nothing.
LEMMA RejectRefines ==
    ASSUME TypeOK, NEW id \in ProposalId, Reject(id)
    PROVE  Gov!Lose(id)
  <1>1. IsActive(id)
    BY DEF Reject, CanFinalize
  <1>2. /\ Phases[id] = "open"
        /\ Phases' = [Phases EXCEPT ![id] = "lost"]
        /\ AllTerms' = AllTerms
    BY <1>1, DecidedMotion DEF Reject
  <1>3. UNCHANGED <<hasVoted, vault, karma>>
    BY DEF Reject, rewardVars
  <1> QED
    BY <1>2, <1>3 DEF Gov!Lose, Phases, AllTerms

\* seed_vault endows one coin.
LEMMA SeedRefines ==
    ASSUME NEW coin \in Coin, NEW amount \in CoinAmount, SeedVault(coin, amount)
    PROVE  Gov!Endow(coin)
  <1>1. amount \in 0..MaxCoin
    BY InputAssumption DEF CoinBal
  <1>2. vault' = [vault EXCEPT ![coin] = Gov!Raised(amount, @, MaxCoin)]
    BY DEF SeedVault, SaturatingAdd, Gov!Raised
  <1>3. UNCHANGED <<proposals, hasVoted, karma>>
    BY DEF SeedVault, proposalVars
  <1> QED
    BY <1>1, <1>2, <1>3 DEF Gov!Endow, PhaseOf, TermsOf, Exists

\* Every other step changes nothing that Governance speaks of.
LEMMA NextRefines ==
    TypeOK /\ IdsDense /\ [Next]_vars => [Gov!GovNext]_Gov!govVars
  <1> SUFFICES ASSUME TypeOK, IdsDense, [Next]_vars
               PROVE  Gov!GovNext \/ UNCHANGED Gov!govVars
    OBVIOUS
  <1>1. ASSUME NEW who \in Account, NEW duration \in Duration,
               NEW action \in [from : Coin, to : Coin, amount : CoinAmount],
               CreateProposal(who, duration, action)
        PROVE  Gov!GovNext
    <2> PICK n \in ProposalId : n = nextProposalId
      BY DEF TypeOK
    <2> QED
      BY <1>1, CreateRefines DEF Gov!GovNext
  <1>2. ASSUME NEW who \in Account, NEW id \in ProposalId, NEW vote \in VoteKind,
               VoteProposal(who, id, vote)
        PROVE  Gov!GovNext
    BY <1>2, VoteRefines DEF Gov!GovNext
  <1>3. ASSUME NEW id \in ProposalId, FinalizeProposal(id)
        PROVE  Gov!GovNext
    BY <1>3, ApproveRefines, RejectRefines DEF Gov!GovNext, FinalizeProposal
  <1>4. ASSUME NEW coin \in Coin, NEW amount \in CoinAmount, SeedVault(coin, amount)
        PROVE  Gov!GovNext
    BY <1>4, SeedRefines DEF Gov!GovNext
  <1>5. ASSUME \/ NextBlock
               \/ StakeCall
               \/ \E from, to \in Account, amount \in Amount :
                     Transfer(from, to, amount)
               \/ UNCHANGED vars
        PROVE  UNCHANGED Gov!govVars
    BY <1>5, StutterRefines
       DEF NextBlock, StakeCall, Deposit, Withdraw, Transfer, proposalVars, vars
  <1> QED
    BY <1>1, <1>2, <1>3, <1>4, <1>5 DEF Next, ProposalCall

\* The pallet implements Governance: on any instance, with any thresholds and
\* any stakes, motions are opened once on fixed terms, voted on at most once
\* by each member while open, closed at most once, and the vault loses coins
\* only to a carried motion, by its terms.
THEOREM TreasuryImplementsGovernance == Spec => ImplementsGovernance
  <1>1. ProposalInv => IdsDense
    BY DEF ProposalInv
  <1> QED
    BY <1>1, InitRefines, NextRefines, InitTypeOK, NextTypeOK, InitProposalInv,
       NextProposalInv, PTL DEF Spec, ImplementsGovernance, Gov!GovSpec

\* The mapping reaches states of Governance only: what the records are read as
\* has the types the abstract specification gives it, in every reachable state.
THEOREM MappingIsTyped == Spec => []Gov!GovTypeOK
  <1>1. TypeOK => Gov!GovTypeOK
    <2> SUFFICES ASSUME TypeOK PROVE Gov!GovTypeOK
      OBVIOUS
    <2>1. Phases \in [ProposalId -> Gov!Phase]
      BY DEF Phases, PhaseOf, Gov!Phase
    <2>2. ASSUME NEW id \in ProposalId
          PROVE  TermsOf(id) \in Gov!Terms \cup {NoProposal}
      <3>1. CASE Exists(id)
        BY <3>1, RecordType, TermsType
      <3>2. CASE ~Exists(id)
        BY <3>2 DEF TermsOf
      <3> QED
        BY <3>1, <3>2
    <2>3. AllTerms \in [ProposalId -> Gov!Terms \cup {NoProposal}]
      BY <2>2 DEF AllTerms
    <2>4. /\ hasVoted \in [ProposalId -> SUBSET Account]
          /\ vault \in [Coin -> 0..MaxCoin] /\ karma \in [Account -> 0..MaxKarma]
      BY DEF TypeOK, CoinBal
    <2> QED
      BY <2>1, <2>3, <2>4 DEF Gov!GovTypeOK, Phases, AllTerms
  <1> QED
    BY <1>1, TypeCorrect, PTL

=============================================================================
