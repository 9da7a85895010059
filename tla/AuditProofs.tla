------------------------------ MODULE AuditProofs ------------------------------
(* That the treasury's running figures are the sums of what happened, for     *)
(* every value of the constants.                                              *)
EXTENDS TreasuryAudit, TreasuryProofs

AuditTypes ==
    /\ ballots \in [ProposalId -> [VoteKind -> [Account -> Nat]]]
    /\ seeded \in [Coin -> Nat]

LEMMA InitAuditTypes == AuditInit => AuditTypes
  BY DEF AuditInit, AuditTypes

\* What the treasury is proved to do, it does with a memory beside it.
LEMMA AuditStepIsStep == [AuditNext]_auditVars => [Next]_vars
  BY DEF AuditNext, AuditedVote, AuditedSeed, Unaudited, Next, ProposalCall,
         auditVars

LEMMA NextAuditTypes ==
    TypeOK /\ AuditTypes /\ [AuditNext]_auditVars => AuditTypes'
  <1> SUFFICES ASSUME TypeOK, AuditTypes, [AuditNext]_auditVars
               PROVE  AuditTypes'
    OBVIOUS
  <1>1. ASSUME NEW who \in Account, NEW id \in ProposalId, NEW vote \in VoteKind,
               AuditedVote(who, id, vote)
        PROVE  AuditTypes'
    <2>1. Weight(who) + 1 \in Nat
      BY WeightType, WidthAssumption DEF Balance
    <2> DEFINE cast == [v \in VoteKind |-> [ballots[id][v] EXCEPT ![who] =
                           IF v = vote THEN Weight(who) + 1 ELSE 0]]
    <2>2. cast \in [VoteKind -> [Account -> Nat]]
      BY <2>1 DEF AuditTypes
    <2>3. ballots' = [ballots EXCEPT ![id] = cast]
      BY <1>1 DEF AuditedVote, AuditTypes
    <2> HIDE DEF cast
    <2> QED
      BY <1>1, <2>2, <2>3 DEF AuditedVote, AuditTypes
  <1>2. ASSUME NEW coin \in Coin, NEW amount \in CoinAmount, AuditedSeed(coin, amount)
        PROVE  AuditTypes'
    BY <1>2, InputAssumption, WidthAssumption DEF AuditedSeed, AuditTypes, CoinBal
  <1>3. ASSUME Unaudited \/ UNCHANGED auditVars
        PROVE  AuditTypes'
    BY <1>3 DEF Unaudited, AuditTypes, auditVars
  <1> QED
    BY <1>1, <1>2, <1>3 DEF AuditNext

-----------------------------------------------------------------------------
(* Tallies.                                                                *)

\* The tally of a record is the sum of its ballots.
Tallied(id) ==
    /\ proposals[id].forVotes = Capped(SumFunction(ballots[id]["For"]))
    /\ proposals[id].againstVotes = Capped(SumFunction(ballots[id]["Against"]))

Voters(id) ==
    \A a \in Account : a \in hasVoted[id] <=> \E v \in VoteKind : ballots[id][v][a] > 0

\* One vote more, added in two saturating steps, is the sum with one term more.
LEMMA TallyIsCapped ==
    ASSUME NEW sum \in Nat, NEW weight \in Nat
    PROVE  Tally(Capped(sum), weight) = Capped(sum + (weight + 1))
  BY WidthAssumption DEF Tally, Capped, SaturatingAdd

\* Nobody's ballots add up to nothing.
LEMMA NoBallots ==
    ASSUME AuditTypes, NEW id \in ProposalId, hasVoted[id] = {}, Voters(id),
           NEW v \in VoteKind
    PROVE  SumFunction(ballots[id][v]) = 0
  <1>1. \A a \in Account : ballots[id][v][a] = 0
    BY DEF Voters, AuditTypes
  <1>2. ballots[id][v] = [a \in Account |-> IF a \in {} THEN 0 ELSE 0]
    BY <1>1 DEF AuditTypes
  <1>3. SumFunction([a \in Account |-> IF a \in {} THEN 0 ELSE 0]) = Cardinality({}) * 0
    BY SumOfConstant, AccountAssumption
  <1> QED
    BY <1>2, <1>3, FS_EmptySet

\* A vote is cast into the tally, and into no other.
LEMMA VoteTallied ==
    ASSUME TypeOK, AuditTypes, TallyMatchesBallots,
           NEW who \in Account, NEW i \in ProposalId, NEW vote \in VoteKind,
           AuditedVote(who, i, vote)
    PROVE  TallyMatchesBallots'
  <1>1. VoteProposal(who, i, vote) /\ MayVote(who, i) /\ Exists(i)
    BY DEF AuditedVote, VoteProposal, MayVote, IsActive
  <1>2. \A id \in ProposalId : (Exists(id) => Tallied(id)) /\ Voters(id)
    BY DEF TallyMatchesBallots, Tallied, Voters
  <1> SUFFICES ASSUME NEW id \in ProposalId
               PROVE  (Exists(id)' => Tallied(id)') /\ Voters(id)'
    BY DEF TallyMatchesBallots, Tallied, Voters, Capped
  <1>3. CASE id # i
    <2>1. /\ proposals'[id] = proposals[id] /\ hasVoted'[id] = hasVoted[id]
          /\ ballots'[id] = ballots[id]
      BY <1>1, <1>3 DEF AuditedVote, VoteProposal, TypeOK, AuditTypes
    <2> QED
      BY <1>2, <2>1 DEF Exists, Tallied, Voters, Capped
  <1>4. CASE id = i
    <2> DEFINE p == proposals[i]
               w == Weight(who)
               B(v) == ballots[i][v]
    <2>1. p \in Proposal /\ p.forVotes \in Nat /\ p.againstVotes \in Nat
      BY <1>1, RecordType, WidthAssumption DEF Proposal, Balance
    <2>2. w \in Nat /\ w + 1 \in Nat
      BY WeightType, WidthAssumption DEF Balance
    <2> HIDE DEF w
    <2>3. \A v \in VoteKind : B(v) \in [Account -> Nat] /\ B(v)[who] = 0
      BY <1>1, <1>2 DEF MayVote, Voters, AuditTypes
    <2>4. \A v \in VoteKind :
             ballots'[i][v] = [B(v) EXCEPT ![who] = IF v = vote THEN w + 1 ELSE 0]
      BY DEF AuditedVote, AuditTypes, w
    <2>5. /\ ballots'[i][vote] = [B(vote) EXCEPT ![who] = w + 1]
          /\ \A v \in VoteKind \ {vote} : ballots'[i][v] = B(v)
      BY <2>3, <2>4
    <2>6. /\ SumFunction(B(vote)) \in Nat
          /\ SumFunction(ballots'[i][vote]) = SumFunction(B(vote)) + (w + 1)
      <3>1. B(vote) \in [Account -> Nat] /\ B(vote)[who] = 0
        BY <2>3
      <3> DEFINE b == B(vote)
      <3>2. b \in [Account -> Nat] /\ b[who] = 0
        BY <3>1
      <3>3. ballots'[i][vote] = [b EXCEPT ![who] = w + 1]
        BY <2>5
      <3> HIDE DEF b
      <3>4. SumFunction(b) \in Nat
        BY <3>2, AccountAssumption, SumType
      <3>5. SumFunction([b EXCEPT ![who] = w + 1]) = SumFunction(b) - b[who] + (w + 1)
        BY <2>2, <3>2, AccountAssumption, SumChange
      <3>6. SumFunction(ballots'[i][vote]) = SumFunction(b) + (w + 1)
        BY <2>2, <3>2, <3>3, <3>4, <3>5
      <3> QED
        BY <3>4, <3>6 DEF b
    <2>7. Tallied(i)
      BY <1>1, <1>2
    <2>8. Tallied(i)'
      <3>1. CASE vote = "For"
        <4>1. /\ proposals'[i].forVotes = Tally(p.forVotes, w)
              /\ proposals'[i].againstVotes = p.againstVotes
          BY <1>1, <2>1, <3>1 DEF VoteProposal, TypeOK, Proposal, w
        <4>2. ballots'[i]["Against"] = B("Against")
          BY <2>5, <3>1 DEF VoteKind
        <4>3. Tally(p.forVotes, w) = Capped(SumFunction(B("For")) + (w + 1))
          BY <2>2, <2>6, <2>7, <3>1, TallyIsCapped DEF Tallied
        <4> QED
          BY <2>6, <2>7, <3>1, <4>1, <4>2, <4>3 DEF Tallied, Capped
      <3>2. CASE vote = "Against"
        <4>1. /\ proposals'[i].againstVotes = Tally(p.againstVotes, w)
              /\ proposals'[i].forVotes = p.forVotes
          BY <1>1, <2>1, <3>2 DEF VoteProposal, TypeOK, Proposal, w
        <4>2. ballots'[i]["For"] = B("For")
          BY <2>5, <3>2 DEF VoteKind
        <4>3. Tally(p.againstVotes, w) = Capped(SumFunction(B("Against")) + (w + 1))
          BY <2>2, <2>6, <2>7, <3>2, TallyIsCapped DEF Tallied
        <4> QED
          BY <2>6, <2>7, <3>2, <4>1, <4>2, <4>3 DEF Tallied, Capped
      <3> QED
        BY <3>1, <3>2 DEF VoteKind
    <2>9. Voters(i)'
      <3> SUFFICES ASSUME NEW a \in Account
                   PROVE  a \in hasVoted'[i] <=> \E v \in VoteKind : ballots'[i][v][a] > 0
        BY DEF Voters
      <3>1. hasVoted'[i] = hasVoted[i] \cup {who}
        BY <1>1 DEF VoteProposal, TypeOK
      <3>2. CASE a = who
        <4>1. ballots'[i][vote][a] = w + 1
          BY <2>3, <2>5, <3>2
        <4> QED
          BY <2>2, <3>1, <3>2, <4>1
      <3>3. CASE a # who
        <4>1. \A v \in VoteKind : ballots'[i][v][a] = ballots[i][v][a]
          BY <2>3, <2>4, <3>3
        <4> QED
          BY <1>2, <3>1, <3>3, <4>1 DEF Voters
      <3> QED
        BY <3>2, <3>3
    <2> QED
      BY <1>4, <2>8, <2>9
  <1> QED
    BY <1>3, <1>4

\* What casts no ballot changes no tally, but of a record that it opens.
LEMMA OthersTallied ==
    ASSUME TypeOK, IdsDense, AuditTypes, TallyMatchesBallots, [AuditNext]_auditVars,
           UNCHANGED ballots,
           ~(\E who \in Account, id \in ProposalId, vote \in VoteKind :
                AuditedVote(who, id, vote))
    PROVE  TallyMatchesBallots'
  <1>0. \A id \in ProposalId : (Exists(id) => Tallied(id)) /\ Voters(id)
    BY DEF TallyMatchesBallots, Tallied, Voters
  <1>1. hasVoted' = hasVoted
    BY DEF AuditNext, AuditedSeed, SeedVault, Unaudited, NextBlock, CreateProposal,
           FinalizeProposal, Approve, Reject, StakeCall, Deposit, Withdraw,
           Transfer, auditVars, vars, proposalVars
  <1> SUFFICES ASSUME NEW id \in ProposalId
               PROVE  (Exists(id)' => Tallied(id)') /\ Voters(id)'
    BY DEF TallyMatchesBallots, Tallied, Voters, Capped
  <1>2. Voters(id)'
    BY <1>0, <1>1 DEF Voters
  <1>3. ASSUME /\ proposals'[id].forVotes = proposals[id].forVotes
               /\ proposals'[id].againstVotes = proposals[id].againstVotes
               /\ Exists(id)
        PROVE  Tallied(id)'
    BY <1>0, <1>3 DEF Tallied, Capped
  <1>4. CASE \E i \in ProposalId : FinalizeProposal(i)
    <2>1. PICK i \in ProposalId : Approve(i) \/ Reject(i)
      BY <1>4 DEF FinalizeProposal
    <2>2. proposals[i] \in Proposal
      BY <2>1, RecordType DEF Approve, Reject, CanFinalize, IsActive
    <2>3. /\ proposals'[id].forVotes = proposals[id].forVotes
          /\ proposals'[id].againstVotes = proposals[id].againstVotes
          /\ Exists(id)' => Exists(id)
      BY <2>1, <2>2, NoProposalAssumption
         DEF Approve, Reject, TypeOK, Proposal, Exists
    <2> QED
      BY <1>2, <1>3, <2>3
  <1>5. CASE \E who \in Account, duration \in Duration,
                action \in [from : Coin, to : Coin, amount : CoinAmount] :
                   CreateProposal(who, duration, action)
    <2>1. CASE id # nextProposalId
      <3>1. proposals'[id] = proposals[id]
        BY <1>5, <2>1 DEF CreateProposal, TypeOK
      <3> QED
        BY <1>2, <1>3, <3>1 DEF Exists
    <2>2. CASE id = nextProposalId
      <3>1. proposals'[id].forVotes = 0 /\ proposals'[id].againstVotes = 0
        BY <1>5, <2>2 DEF CreateProposal, TypeOK
      <3>2. ~Exists(id) /\ hasVoted[id] = {}
        BY <2>2, WidthAssumption DEF IdsDense, TypeOK, ProposalId
      <3>3. SumFunction(ballots[id]["For"]) = 0 /\ SumFunction(ballots[id]["Against"]) = 0
        BY <1>0, <3>2, NoBallots DEF VoteKind
      <3>4. Tallied(id)'
        BY <3>1, <3>3, WidthAssumption DEF Tallied, Capped
      <3> QED
        BY <1>2, <3>4
    <2> QED
      BY <2>1, <2>2
  <1>6. CASE UNCHANGED proposals
    BY <1>2, <1>3, <1>6 DEF Exists
  <1>7. \/ \E i \in ProposalId : FinalizeProposal(i)
        \/ \E who \in Account, duration \in Duration,
              action \in [from : Coin, to : Coin, amount : CoinAmount] :
                 CreateProposal(who, duration, action)
        \/ UNCHANGED proposals
    BY DEF AuditNext, AuditedSeed, SeedVault, Unaudited, NextBlock, StakeCall,
           Deposit, Withdraw, Transfer, auditVars, vars, proposalVars
  <1> QED
    BY <1>4, <1>5, <1>6, <1>7

LEMMA AuditSafety ==
    AuditSpec => [](TypeOK /\ ProposalInv /\ AuditTypes)
  <1>1. AuditInit => Init
    BY DEF AuditInit
  <1> QED
    BY <1>1, AuditStepIsStep, InitTypeOK, NextTypeOK, InitProposalInv,
       NextProposalInv, InitAuditTypes, NextAuditTypes, PTL DEF AuditSpec

\* Every tally is the sum of the ballots at the weights they were cast with,
\* for any number of voters, and each voter on record has one ballot in it.
THEOREM TalliesAreOfBallots == AuditSpec => []TallyMatchesBallots
  <1>1. AuditInit => TallyMatchesBallots
    BY DEF AuditInit, Init, TallyMatchesBallots, Exists
  <1>2. TypeOK /\ ProposalInv /\ AuditTypes /\ TallyMatchesBallots
           /\ [AuditNext]_auditVars => TallyMatchesBallots'
    <2> SUFFICES ASSUME TypeOK, IdsDense, AuditTypes, TallyMatchesBallots,
                        [AuditNext]_auditVars
                 PROVE  TallyMatchesBallots'
      BY DEF ProposalInv
    <2>1. CASE \E who \in Account, id \in ProposalId, vote \in VoteKind :
                  AuditedVote(who, id, vote)
      BY <2>1, VoteTallied
    <2>2. CASE ~(\E who \in Account, id \in ProposalId, vote \in VoteKind :
                    AuditedVote(who, id, vote))
      <3>1. UNCHANGED ballots
        BY <2>2 DEF AuditNext, AuditedSeed, Unaudited, auditVars
      <3> QED
        BY <2>2, <3>1, OthersTallied
    <2> QED
      BY <2>1, <2>2
  <1> QED
    BY <1>1, <1>2, AuditSafety, PTL DEF AuditSpec

-----------------------------------------------------------------------------
(* The vault.                                                              *)

\* What a proposal moved, if it was approved and its swap is on that side.
OutOf(c) == [id \in ProposalId |->
                IF Approved(id) /\ proposals[id].action.from = c
                THEN proposals[id].action.amount ELSE 0]
Into(c)  == [id \in ProposalId |->
                IF Approved(id) /\ proposals[id].action.to = c
                THEN proposals[id].action.amount ELSE 0]

\* Swaps move coins and make none, so that the vault holds what was seeded and
\* no entry is ever cut off at its width.
Ledger ==
    SumFunction(seeded) <= MaxCoin =>
        /\ SumFunction(vault) = SumFunction(seeded)
        /\ \A c \in Coin :
              vault[c] + SumFunction(OutOf(c)) = seeded[c] + SumFunction(Into(c))

LEMMA ProposalIdFinite == IsFiniteSet(ProposalId)
  BY WidthAssumption, FS_Interval DEF ProposalId

LEMMA VaultTypes ==
    ASSUME TypeOK, AuditTypes
    PROVE  /\ vault \in [Coin -> Nat] /\ seeded \in [Coin -> Nat]
           /\ SumFunction(vault) \in Nat /\ SumFunction(seeded) \in Nat
           /\ \A c \in Coin : vault[c] <= SumFunction(vault)
  <1>1. vault \in [Coin -> Nat] /\ seeded \in [Coin -> Nat]
    BY WidthAssumption DEF TypeOK, AuditTypes, CoinBal
  <1> QED
    BY <1>1, CoinAssumption, SumType, SumBoundsTerm

\* The amounts are numbers, and so are their sums.
LEMMA SwappedTypes ==
    ASSUME TypeOK, NEW c \in Coin
    PROVE  /\ OutOf(c) \in [ProposalId -> Nat] /\ Into(c) \in [ProposalId -> Nat]
           /\ SumFunction(OutOf(c)) \in Nat /\ SumFunction(Into(c)) \in Nat
  <1>1. ASSUME NEW id \in ProposalId, Approved(id)
        PROVE  proposals[id].action.amount \in Nat
    <2>1. proposals[id] \in Proposal
      BY <1>1, RecordType DEF Approved
    <2> QED
      BY <2>1, WidthAssumption DEF Proposal, Swap, CoinBal
  <1>2. OutOf(c) \in [ProposalId -> Nat] /\ Into(c) \in [ProposalId -> Nat]
    BY <1>1 DEF OutOf, Into
  <1> QED
    BY <1>2, ProposalIdFinite, SumType

\* Steps that approve nothing leave what was swapped as it is.
LEMMA SwappedSame ==
    ASSUME TypeOK, IdsDense, [Next]_vars,
           ~(\E i \in ProposalId : Approve(i)), NEW c \in Coin
    PROVE  OutOf(c)' = OutOf(c) /\ Into(c)' = Into(c)
  <1> SUFFICES ASSUME NEW id \in ProposalId
               PROVE  \/ proposals'[id] = proposals[id]
                      \/ ~Approved(id) /\ ~Approved(id)'
    BY DEF OutOf, Into, Approved, Exists
  <1> USE DEF proposalVars
  <1>1. ASSUME NEW who \in Account, NEW duration \in Duration,
               NEW action \in [from : Coin, to : Coin, amount : CoinAmount],
               CreateProposal(who, duration, action), id = nextProposalId
        PROVE  ~Approved(id) /\ ~Approved(id)'
    <2>1. proposals'[id].status = "Active"
      BY <1>1 DEF CreateProposal, TypeOK
    <2>2. ~Exists(id)
      BY <1>1, WidthAssumption DEF IdsDense, TypeOK, ProposalId
    <2> QED
      BY <2>1, <2>2 DEF Approved
  <1>2. ASSUME NEW who \in Account, NEW duration \in Duration,
               NEW action \in [from : Coin, to : Coin, amount : CoinAmount],
               CreateProposal(who, duration, action), id # nextProposalId
        PROVE  proposals'[id] = proposals[id]
    BY <1>2 DEF CreateProposal, TypeOK
  <1>3. ASSUME NEW who \in Account, NEW i \in ProposalId, NEW vote \in VoteKind,
               VoteProposal(who, i, vote)
        PROVE  proposals'[id] = proposals[id] \/ (~Approved(id) /\ ~Approved(id)')
    <2>1. proposals[i] \in Proposal /\ proposals[i].status = "Active"
      BY <1>3, RecordType DEF VoteProposal, MayVote, IsActive
    <2>2. id # i => proposals'[id] = proposals[id]
      BY <1>3 DEF VoteProposal, TypeOK
    <2>3. proposals'[i].status = "Active"
      BY <1>3, <2>1 DEF VoteProposal, TypeOK, Proposal
    <2> QED
      BY <2>1, <2>2, <2>3 DEF Approved
  <1>4. ASSUME NEW i \in ProposalId, Reject(i)
        PROVE  proposals'[id] = proposals[id] \/ (~Approved(id) /\ ~Approved(id)')
    <2>1. proposals[i] \in Proposal /\ proposals[i].status = "Active"
      BY <1>4, RecordType DEF Reject, CanFinalize, IsActive
    <2>2. id # i => proposals'[id] = proposals[id]
      BY <1>4 DEF Reject, TypeOK
    <2>3. proposals'[i].status = "Rejected"
      BY <1>4, <2>1 DEF Reject, TypeOK, Proposal
    <2> QED
      BY <2>1, <2>2, <2>3 DEF Approved
  <1>5. ASSUME \/ NextBlock
               \/ StakeCall
               \/ \E coin \in Coin, amount \in CoinAmount : SeedVault(coin, amount)
               \/ \E from, to \in Account, amount \in Amount :
                     Transfer(from, to, amount)
               \/ UNCHANGED vars
        PROVE  proposals' = proposals
    BY <1>5 DEF NextBlock, StakeCall, Deposit, Withdraw, SeedVault, Transfer, vars
  <1> QED
    BY <1>1, <1>2, <1>3, <1>4, <1>5 DEF Next, ProposalCall, FinalizeProposal

\* An approval adds the proposal's amount to its own two coins' sums.
LEMMA SwappedOnce ==
    ASSUME TypeOK, NEW i \in ProposalId, Approve(i), NEW c \in Coin
    PROVE  LET s == proposals[i].action IN
             /\ SumFunction(OutOf(c)') = SumFunction(OutOf(c))
                                          + (IF s.from = c THEN s.amount ELSE 0)
             /\ SumFunction(Into(c)') = SumFunction(Into(c))
                                          + (IF s.to = c THEN s.amount ELSE 0)
  <1> DEFINE s == proposals[i].action
             out == IF s.from = c THEN s.amount ELSE 0
             in == IF s.to = c THEN s.amount ELSE 0
  <1>1. proposals[i] \in Proposal /\ proposals[i].status = "Active"
    BY RecordType DEF Approve, CanFinalize, IsActive
  <1>2. s.amount \in Nat /\ out \in Nat /\ in \in Nat
    BY <1>1, WidthAssumption DEF Proposal, Swap, CoinBal
  <1>3. /\ proposals'[i] \in Proposal /\ proposals'[i].status = "Approved"
        /\ proposals'[i].action = s
    BY <1>1 DEF Approve, TypeOK, Proposal, ProposalStatus
  <1>4. Approved(i)' /\ ~Approved(i)
    BY <1>1, <1>3, NoProposalAssumption DEF Approved, Exists
  <1>5. \A id \in ProposalId \ {i} : proposals'[id] = proposals[id]
    BY DEF Approve, TypeOK
  <1>6. /\ OutOf(c)' = [OutOf(c) EXCEPT ![i] = out] /\ OutOf(c)[i] = 0
        /\ Into(c)' = [Into(c) EXCEPT ![i] = in] /\ Into(c)[i] = 0
    BY <1>3, <1>4, <1>5 DEF OutOf, Into, Approved, Exists
  <1> HIDE DEF out, in
  <1> DEFINE f == OutOf(c)
             g == Into(c)
  <1>7. /\ f \in [ProposalId -> Nat] /\ f[i] = 0 /\ SumFunction(f) \in Nat
        /\ g \in [ProposalId -> Nat] /\ g[i] = 0 /\ SumFunction(g) \in Nat
    BY <1>6, SwappedTypes
  <1>8. OutOf(c)' = [f EXCEPT ![i] = out] /\ Into(c)' = [g EXCEPT ![i] = in]
    BY <1>6
  <1> HIDE DEF f, g
  <1>9. /\ SumFunction([f EXCEPT ![i] = out]) = SumFunction(f) - f[i] + out
        /\ SumFunction([g EXCEPT ![i] = in]) = SumFunction(g) - g[i] + in
    BY <1>2, <1>7, ProposalIdFinite, SumChange
  <1>10. /\ SumFunction(OutOf(c)') = SumFunction(f) + out
         /\ SumFunction(Into(c)') = SumFunction(g) + in
    BY <1>2, <1>7, <1>8, <1>9
  <1> QED
    BY <1>10 DEF f, g, out, in

\* A swap within what the vault holds moves its amount whole.
LEMMA ApproveKeepsLedger ==
    ASSUME TypeOK, AuditTypes, Ledger, NEW i \in ProposalId, Approve(i),
           seeded' = seeded
    PROVE  Ledger'
  <1> DEFINE s == proposals[i].action
             amount == s.amount
  <1> SUFFICES ASSUME SumFunction(seeded) <= MaxCoin
               PROVE  /\ SumFunction(vault') = SumFunction(seeded)
                      /\ \A c \in Coin :
                            vault'[c] + SumFunction(OutOf(c)')
                              = seeded[c] + SumFunction(Into(c)')
    BY DEF Ledger
  <1>1. proposals[i] \in Proposal
    BY RecordType DEF Approve, CanFinalize, IsActive
  <1>2. s.from \in Coin /\ s.to \in Coin /\ s.from # s.to /\ amount \in Nat
    BY <1>1, WidthAssumption DEF Approve, Proposal, Swap, CoinBal
  <1>3. /\ vault \in [Coin -> Nat] /\ amount <= vault[s.from]
        /\ vault' = [vault EXCEPT ![s.from] = vault[s.from] - amount,
                        ![s.to] = SaturatingAdd(vault[s.to], amount, MaxCoin)]
    BY <1>2, VaultTypes DEF Approve, AfterSwap
  <1> DEFINE debited == [vault EXCEPT ![s.from] = vault[s.from] - amount]
  <1>4. /\ debited \in [Coin -> Nat] /\ debited[s.to] = vault[s.to]
        /\ vault' = [debited EXCEPT ![s.to] =
                        SaturatingAdd(vault[s.to], amount, MaxCoin)]
    BY <1>2, <1>3
  <1> DEFINE v == vault[s.from] - amount
  <1>5. v \in Nat /\ SumFunction([vault EXCEPT ![s.from] = v])
                        = SumFunction(vault) - vault[s.from] + v
    <2>1. v \in Nat
      BY <1>2, <1>3
    <2> HIDE DEF v
    <2> QED
      BY <1>2, <1>3, <2>1, CoinAssumption, SumChange
  <1>6. SumFunction(debited) = SumFunction(vault) - amount
    BY <1>2, <1>3, <1>5, VaultTypes
  <1> HIDE DEF debited
  <1>7. vault[s.to] <= SumFunction(debited)
    BY <1>2, <1>4, CoinAssumption, SumBoundsTerm
  <1>8. SumFunction(vault) = SumFunction(seeded)
    BY DEF Ledger
  <1>9. SaturatingAdd(vault[s.to], amount, MaxCoin) = vault[s.to] + amount
    BY <1>2, <1>3, <1>6, <1>7, <1>8, VaultTypes, WidthAssumption DEF SaturatingAdd
  <1> DEFINE w == vault[s.to] + amount
  <1>10. SumFunction([debited EXCEPT ![s.to] = w])
            = SumFunction(debited) - debited[s.to] + w
    <2>1. w \in Nat
      BY <1>2, <1>3
    <2> HIDE DEF w
    <2> QED
      BY <1>2, <1>4, <2>1, CoinAssumption, SumChange
  <1>11. SumFunction(vault') = SumFunction(seeded)
    <2>1. vault' = [debited EXCEPT ![s.to] = w]
      BY <1>4, <1>9
    <2>2. SumFunction(vault') = SumFunction(debited) - vault[s.to] + w
      BY <1>4, <1>10, <2>1
    <2>3. vault[s.to] \in Nat /\ SumFunction(vault) \in Nat
      BY <1>2, <1>3, VaultTypes
    <2>4. SumFunction(vault') = SumFunction(vault) - amount - vault[s.to]
                                   + (vault[s.to] + amount)
      BY <1>6, <2>2
    <2> HIDE DEF s
    <2> QED
      BY <1>2, <1>8, <2>3, <2>4
  <1>12. ASSUME NEW c \in Coin
         PROVE  vault'[c] + SumFunction(OutOf(c)') = seeded[c] + SumFunction(Into(c)')
    <2>1. /\ vault[c] + SumFunction(OutOf(c)) = seeded[c] + SumFunction(Into(c))
          /\ vault[c] \in Nat /\ seeded[c] \in Nat
          /\ SumFunction(OutOf(c)) \in Nat /\ SumFunction(Into(c)) \in Nat
      BY VaultTypes, SwappedTypes DEF Ledger
    <2>2. /\ SumFunction(OutOf(c)') = SumFunction(OutOf(c))
                                        + (IF s.from = c THEN amount ELSE 0)
          /\ SumFunction(Into(c)') = SumFunction(Into(c))
                                        + (IF s.to = c THEN amount ELSE 0)
      BY SwappedOnce
    <2>3. vault'[c] = IF c = s.from THEN vault[c] - amount
                      ELSE IF c = s.to THEN vault[c] + amount ELSE vault[c]
      BY <1>2, <1>3, <1>9
    <2> HIDE DEF s
    <2> QED
      BY <1>2, <2>1, <2>2, <2>3
  <1> QED
    BY <1>11, <1>12

\* A seeding adds the same to the vault as to the memory of seedings.
LEMMA SeedKeepsLedger ==
    ASSUME TypeOK, AuditTypes, Ledger, NEW coin \in Coin, NEW amount \in CoinAmount,
           AuditedSeed(coin, amount)
    PROVE  Ledger'
  <1>0. amount \in Nat
    BY InputAssumption, WidthAssumption DEF CoinBal
  <1>1. /\ vault' = [vault EXCEPT ![coin] = SaturatingAdd(vault[coin], amount, MaxCoin)]
        /\ seeded' = [seeded EXCEPT ![coin] = seeded[coin] + amount]
        /\ proposals' = proposals
    BY DEF AuditedSeed, SeedVault, proposalVars
  <1> DEFINE n == seeded[coin] + amount
  <1>2. /\ n \in Nat
        /\ SumFunction([seeded EXCEPT ![coin] = n])
              = SumFunction(seeded) - seeded[coin] + n
    <2>1. n \in Nat
      BY <1>0, VaultTypes
    <2> HIDE DEF n
    <2> QED
      BY <2>1, VaultTypes, CoinAssumption, SumChange
  <1>3. SumFunction(seeded') = SumFunction(seeded) + amount
    BY <1>0, <1>1, <1>2, VaultTypes
  <1>4. \A c \in Coin : OutOf(c)' = OutOf(c) /\ Into(c)' = Into(c)
    BY <1>1 DEF OutOf, Into, Approved, Exists
  <1> SUFFICES ASSUME SumFunction(seeded') <= MaxCoin
               PROVE  /\ SumFunction(vault') = SumFunction(seeded')
                      /\ \A c \in Coin :
                            vault'[c] + SumFunction(OutOf(c))
                              = seeded'[c] + SumFunction(Into(c))
    BY <1>4 DEF Ledger
  <1>5. SumFunction(seeded) <= MaxCoin
    BY <1>0, <1>3, VaultTypes, WidthAssumption
  <1>6. /\ SumFunction(vault) = SumFunction(seeded)
        /\ \A c \in Coin :
              vault[c] + SumFunction(OutOf(c)) = seeded[c] + SumFunction(Into(c))
    BY <1>5 DEF Ledger
  <1>7. SaturatingAdd(vault[coin], amount, MaxCoin) = vault[coin] + amount
    BY <1>0, <1>3, <1>6, VaultTypes, WidthAssumption DEF SaturatingAdd
  <1> DEFINE m == vault[coin] + amount
  <1>8. /\ m \in Nat
        /\ SumFunction([vault EXCEPT ![coin] = m]) = SumFunction(vault) - vault[coin] + m
    <2>1. m \in Nat
      BY <1>0, VaultTypes
    <2> HIDE DEF m
    <2> QED
      BY <2>1, VaultTypes, CoinAssumption, SumChange
  <1>9. SumFunction(vault') = SumFunction(seeded')
    BY <1>0, <1>1, <1>3, <1>6, <1>7, <1>8, VaultTypes
  <1>10. ASSUME NEW c \in Coin
         PROVE  vault'[c] + SumFunction(OutOf(c)) = seeded'[c] + SumFunction(Into(c))
    <2>1. /\ vault[c] \in Nat /\ seeded[c] \in Nat
          /\ SumFunction(OutOf(c)) \in Nat /\ SumFunction(Into(c)) \in Nat
      BY VaultTypes, SwappedTypes
    <2>2. /\ vault'[c] = IF c = coin THEN vault[c] + amount ELSE vault[c]
          /\ seeded'[c] = IF c = coin THEN seeded[c] + amount ELSE seeded[c]
      BY <1>1, <1>7, VaultTypes
    <2> QED
      BY <1>0, <1>6, <2>1, <2>2
  <1> QED
    BY <1>9, <1>10

\* While the coins ever seeded fit a vault entry, every entry is what was
\* seeded, less the approved swaps out of it, plus those into it, for any
\* number of coins and proposals.
THEOREM VaultIsAccountedFor == AuditSpec => []VaultLedger
  <1>1. AuditInit => Ledger
    <2> SUFFICES ASSUME AuditInit
                 PROVE  /\ SumFunction(vault) = SumFunction(seeded)
                        /\ \A c \in Coin : vault[c] + SumFunction(OutOf(c))
                                             = seeded[c] + SumFunction(Into(c))
      BY DEF Ledger
    <2>1. vault = [c \in Coin |-> 0] /\ seeded = [c \in Coin |-> 0]
      BY DEF AuditInit, Init
    <2>2. \A c \in Coin : OutOf(c) = Into(c)
      BY DEF AuditInit, Init, OutOf, Into, Approved, Exists
    <2> QED
      BY <2>1, <2>2
  <1>2. TypeOK /\ ProposalInv /\ AuditTypes /\ Ledger /\ [AuditNext]_auditVars => Ledger'
    <2> SUFFICES ASSUME TypeOK, IdsDense, AuditTypes, Ledger, [AuditNext]_auditVars
                 PROVE  Ledger'
      BY DEF ProposalInv
    <2>1. ASSUME NEW i \in ProposalId, Approve(i)
          PROVE  seeded' = seeded \/ Ledger'
      <3>1. ASSUME NEW coin \in Coin, NEW amount \in CoinAmount,
                   AuditedSeed(coin, amount)
            PROVE  Ledger'
        BY <3>1, SeedKeepsLedger
      <3> QED
        BY <3>1 DEF AuditNext, AuditedVote, Unaudited, auditVars
    <2>2. CASE \E coin \in Coin, amount \in CoinAmount : AuditedSeed(coin, amount)
      BY <2>2, SeedKeepsLedger
    <2>3. CASE \E i \in ProposalId : Approve(i)
      BY <2>1, <2>3, ApproveKeepsLedger
    <2>4. ASSUME ~(\E coin \in Coin, amount \in CoinAmount : AuditedSeed(coin, amount)),
                 ~(\E i \in ProposalId : Approve(i))
          PROVE  Ledger'
      <3>1. [Next]_vars
        BY AuditStepIsStep
      <3>2. \A c \in Coin : OutOf(c)' = OutOf(c) /\ Into(c)' = Into(c)
        BY <2>4, <3>1, SwappedSame
      <3>3. vault' = vault /\ seeded' = seeded
        BY <2>4 DEF AuditNext, AuditedVote, VoteProposal, Unaudited, NextBlock,
           CreateProposal, FinalizeProposal, Reject, StakeCall, Deposit, Withdraw,
           Transfer, auditVars, vars, rewardVars
      <3> QED
        BY <3>2, <3>3 DEF Ledger
    <2> QED
      BY <2>2, <2>3, <2>4
  <1>3. Ledger => VaultLedger
    BY DEF Ledger, VaultLedger, SwappedOut, SwappedIn, OutOf, Into
  <1> QED
    BY <1>1, <1>2, <1>3, AuditSafety, PTL DEF AuditSpec

\* The treasury with a memory is the treasury: nothing it remembers decides
\* what happens, so the sums proved of it are sums over behaviours of Spec.
THEOREM AuditIsOfTreasury == AuditSpec => Spec
  <1>1. AuditInit => Init
    BY DEF AuditInit
  <1> QED
    BY <1>1, AuditStepIsStep, PTL DEF AuditSpec, Spec

=============================================================================
