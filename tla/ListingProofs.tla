---------------------------- MODULE ListingProofs ----------------------------
(* What is proved of Listing: that the list is of the treasury's past, in    *)
(* the order of creation, for any number of proposals, accounts and blocks.  *)
EXTENDS Listing, TreasuryProofs

\* Whatever the effect reads, it changes nothing of the treasury.
LEMMA ListingStepIsStep == [ListingNext]_listingVars => [Next]_vars
  BY DEF ListingNext, ReadKeys, ReadRecord, Fail, Chain, listingVars

\* The list beside it leaves the treasury what it is.
THEOREM ListingUsesTreasury == ListingSpec => Spec
  <1>1. ListingInit => Init
    BY DEF ListingInit
  <1> QED
    BY <1>1, ListingStepIsStep, PTL DEF ListingSpec, Spec

-----------------------------------------------------------------------------
(* Creation.                                                               *)

\* Ids are given out in the order of the blocks they were created in.
StartsInOrder ==
    \A i \in ProposalId : Exists(i) =>
        /\ proposals[i].start <= now
        /\ \A j \in ProposalId :
              Exists(j) /\ i < j => proposals[i].start <= proposals[j].start

\* A new record is of the block at hand, and blocks only get more.
LEMMA FreshStart ==
    ASSUME TypeOK, [Next]_vars
    PROVE  /\ now' >= now
           /\ \A id \in ProposalId :
                 ~Exists(id) /\ Exists(id)' =>
                    proposals'[id].start = now /\ now' = now
  <1> USE DEF balanceVars, proposalVars, stakeVars, rewardVars
  <1>1. CASE NextBlock
    BY <1>1 DEF NextBlock, TypeOK, Block, Exists
  <1>2. ASSUME NEW who \in Account, NEW duration \in Duration,
               NEW action \in [from : Coin, to : Coin, amount : CoinAmount],
               CreateProposal(who, duration, action)
        PROVE  /\ now' = now
               /\ \A id \in ProposalId : ~Exists(id) /\ Exists(id)' =>
                     proposals'[id].start = now
    BY <1>2 DEF CreateProposal, Exists, TypeOK
  <1>3. ASSUME \/ \E who \in Account, id \in ProposalId, vote \in VoteKind :
                     VoteProposal(who, id, vote)
               \/ \E id \in ProposalId : FinalizeProposal(id)
        PROVE  /\ now' = now
               /\ \A id \in ProposalId : Exists(id)' => Exists(id)
    BY <1>3 DEF VoteProposal, MayVote, FinalizeProposal, Approve, Reject,
                CanFinalize, IsActive, Exists, TypeOK
  <1>4. ASSUME \/ StakeCall
               \/ \E coin \in Coin, amount \in CoinAmount : SeedVault(coin, amount)
               \/ \E from, to \in Account, amount \in Amount :
                     Transfer(from, to, amount)
               \/ UNCHANGED vars
        PROVE  now' = now /\ proposals' = proposals
    BY <1>4 DEF StakeCall, Deposit, Withdraw, SeedVault, Transfer, vars
  <1>5. now \in Nat
    BY DEF TypeOK, Block
  <1> QED
    BY <1>1, <1>2, <1>3, <1>4, <1>5 DEF Next, ProposalCall, Exists

\* Every step of the treasury keeps the order.
LEMMA NextStartsInOrder ==
    ASSUME TypeOK, IdsDense, IdsDense', StartsInOrder, [Next]_vars
    PROVE  StartsInOrder'
  <1>0. TypeOK'
    BY NextTypeOK
  <1> DEFINE old(i) == proposals[i].start
             new(i) == proposals'[i].start
  <1>1. ASSUME NEW i \in ProposalId, Exists(i)'
        PROVE  /\ new(i) \in Nat /\ now \in Nat /\ now' \in Nat /\ now' >= now
               /\ Exists(i) => new(i) = old(i)
               /\ ~Exists(i) => new(i) = now /\ now' = now
               /\ new(i) <= now'
    <2>1. new(i) \in Nat /\ now \in Nat /\ now' \in Nat /\ now' >= now
      BY <1>0, <1>1, FreshStart DEF TypeOK, Proposal, Block, Exists
    <2>2. Exists(i) => new(i) = old(i)
      BY RecordStepKeeps
    <2>3. ~Exists(i) => new(i) = now /\ now' = now
      BY <1>1, FreshStart
    <2> QED
      BY <2>1, <2>2, <2>3 DEF StartsInOrder
  <1>2. ASSUME NEW i \in ProposalId, Exists(i)', NEW j \in ProposalId, Exists(j)',
               i < j
        PROVE  new(i) <= new(j)
    <2>1. CASE Exists(i) /\ Exists(j)
      BY <1>1, <1>2, <2>1 DEF StartsInOrder
    <2>2. CASE Exists(i) /\ ~Exists(j)
      <3>1. old(i) <= now
        BY <2>2 DEF StartsInOrder
      <3> QED
        BY <1>1, <1>2, <2>2, <3>1
    <2>3. CASE ~Exists(i) /\ Exists(j)
      <3>1. j < nextProposalId /\ ~(i < nextProposalId)
        BY <2>3 DEF IdsDense
      <3>2. i \in Nat /\ j \in Nat /\ nextProposalId \in Nat
        BY WidthAssumption DEF TypeOK, ProposalId
      <3> QED
        BY <1>2, <3>1, <3>2
    <2>4. CASE ~Exists(i) /\ ~Exists(j)
      BY <1>1, <1>2, <2>4
    <2> QED
      BY <2>1, <2>2, <2>3, <2>4
  <1> HIDE DEF new
  <1>3. \A i \in ProposalId : Exists(i)' =>
          /\ new(i) <= now'
          /\ \A j \in ProposalId : Exists(j)' /\ i < j => new(i) <= new(j)
    BY <1>1, <1>2
  <1> QED
    BY <1>3 DEF StartsInOrder, new

-----------------------------------------------------------------------------
(* Answers.                                                                *)

\* What ListIsPast says of one record of the list.
OfPast(old, id) ==
    /\ old \in Proposal
    /\ Exists(id)
    /\ <<old.author, old.start, old.end, old.action>>
          = <<proposals[id].author, proposals[id].start, proposals[id].end,
              proposals[id].action>>
    /\ old.forVotes <= proposals[id].forVotes
    /\ old.againstVotes <= proposals[id].againstVotes
    /\ old.status # "Active" => old = proposals[id]

\* A record is of its own past when it is read (proposal-list.tsx:60-76).
LEMMA AnswerOfPast ==
    ASSUME TypeOK, NEW id \in ProposalId, Exists(id)
    PROVE  OfPast(proposals[id], id)
  BY RecordType, WidthAssumption DEF OfPast, Proposal, Balance

\* What is of the past stays so, whatever happens on the chain.
LEMMA StaysOfPast ==
    ASSUME TypeOK, IdsDense, [Next]_vars,
           NEW id \in ProposalId, NEW old, OfPast(old, id)
    PROVE  OfPast(old, id)'
  <1> DEFINE p == proposals[id]
             q == proposals'[id]
  <1>1. /\ old \in Proposal /\ Exists(id) /\ p \in Proposal
        /\ <<old.author, old.start, old.end, old.action>>
              = <<p.author, p.start, p.end, p.action>>
        /\ old.forVotes <= p.forVotes /\ old.againstVotes <= p.againstVotes
        /\ old.status # "Active" => old = p
    BY RecordType DEF OfPast
  <1>2. /\ Exists(id)'
        /\ q.author = p.author /\ q.start = p.start
        /\ q.end = p.end /\ q.action = p.action
        /\ q.forVotes >= p.forVotes /\ q.againstVotes >= p.againstVotes
        /\ p.status # "Active" => q = p
    BY <1>1, RecordStepKeeps DEF IsActive, Kept
  <1>3. q \in Proposal
    BY <1>2, NextTypeOK DEF TypeOK, Exists
  <1>4. /\ old.forVotes \in Nat /\ p.forVotes \in Nat /\ q.forVotes \in Nat
        /\ old.againstVotes \in Nat /\ p.againstVotes \in Nat
        /\ q.againstVotes \in Nat
    BY <1>1, <1>3, WidthAssumption DEF Proposal, Balance
  <1>5. old.forVotes <= q.forVotes /\ old.againstVotes <= q.againstVotes
    BY <1>1, <1>2, <1>4
  <1> QED
    BY <1>1, <1>2, <1>5 DEF OfPast

-----------------------------------------------------------------------------
(* The list.                                                               *)

\* The first n ids, each at one place of the list, the oldest first.
ListOf(n, list) ==
    /\ n \in 0..nextProposalId
    /\ Len(list) = n
    /\ DOMAIN list = 1..n
    /\ {list[k].id : k \in DOMAIN list} = 0..(n - 1)
    /\ \A k \in DOMAIN list : OfPast(list[k].record, list[k].id)
    /\ OldestFirst(list)

ListingInv ==
    /\ TypeOK
    /\ ProposalInv
    /\ StartsInOrder
    /\ reading \in {"keys", "records", "nothing", "failed"}
    /\ \E n \in 0..nextProposalId : keys = 0..(n - 1)
    /\ DOMAIN answers \subseteq keys
    /\ \A id \in DOMAIN answers : OfPast(answers[id], id)
    /\ reading = "keys" => keys = {} /\ DOMAIN answers = {}
    /\ IF reading = "nothing" THEN \E n \in 0..nextProposalId : ListOf(n, listed)
                              ELSE listed = << >>

LEMMA InitListingInv == ListingInit => ListingInv
  <1> SUFFICES ASSUME ListingInit PROVE ListingInv
    OBVIOUS
  <1>1. TypeOK /\ ProposalInv
    BY InitTypeOK, InitProposalInv DEF ListingInit
  <1>2. StartsInOrder
    BY DEF ListingInit, Init, StartsInOrder, Exists
  <1>3. 0 \in 0..nextProposalId /\ keys = 0..(0 - 1)
    BY DEF ListingInit, Init
  <1> QED
    BY <1>1, <1>2, <1>3 DEF ListingInit, ListingInv

\* The ids below the next are ids.
LEMMA SmallIds ==
    ASSUME TypeOK, NEW n \in 0..nextProposalId
    PROVE  n \in Nat /\ nextProposalId \in Nat /\ 0..(n - 1) \subseteq ProposalId
  BY WidthAssumption DEF TypeOK, ProposalId

\* An order of the first n ids has each of them at one place.
LEMMA OrderOfIds ==
    ASSUME NEW n \in Nat, NEW order \in SetToSeqs(0..(n - 1))
    PROVE  /\ order \in [1..n -> 0..(n - 1)]
           /\ {order[k] : k \in 1..n} = 0..(n - 1)
  <1>1. Cardinality(0..(n - 1)) = n /\ IsFiniteSet(0..(n - 1))
    BY FS_Interval
  <1>2. Cardinality(1..n) = n /\ IsFiniteSet(1..n)
    BY FS_Interval
  <1>3. /\ order \in [1..n -> 0..(n - 1)]
        /\ \A i, j \in 1..n : i # j => order[i] # order[j]
    BY <1>1 DEF SetToSeqs
  <1>4. order \in Injection(1..n, 0..(n - 1))
    BY <1>3 DEF Injection, IsInjective
  <1>5. order \in Surjection(1..n, 0..(n - 1))
    BY <1>1, <1>2, <1>4, FS_Injection
  <1> QED
    BY <1>3, <1>5 DEF Surjection

\* What is shown of a record for each of the first n ids is a list of them.
LEMMA ShowsList ==
    ASSUME TypeOK, UNCHANGED vars, NEW n \in 0..nextProposalId, NEW records,
           DOMAIN records = 0..(n - 1),
           \A id \in DOMAIN records : OfPast(records[id], id),
           Show(records)
    PROVE  ListOf(n, listed)'
  <1>1. PICK order \in SetToSeqs(DOMAIN records) :
          listed' = [k \in DOMAIN order |->
                        [id |-> order[k], record |-> records[order[k]]]]
    BY DEF Show
  <1>2. n \in Nat /\ 0..(n - 1) \subseteq ProposalId
    BY SmallIds
  <1>3. /\ order \in [1..n -> 0..(n - 1)]
        /\ {order[k] : k \in 1..n} = 0..(n - 1)
    BY <1>1, <1>2, OrderOfIds
  <1>4. /\ DOMAIN listed' = 1..n
        /\ \A k \in 1..n : /\ listed'[k].id = order[k]
                           /\ listed'[k].record = records[order[k]]
    BY <1>1, <1>3
  <1>5. Len(listed') = n
    <2>1. PICK list : list = listed'
      OBVIOUS
    <2>2. list \in [1..n -> {list[k] : k \in 1..n}]
      BY <1>1, <1>3, <2>1
    <2> QED
      BY <1>2, <2>1, <2>2
  <1>6. {listed'[k].id : k \in DOMAIN listed'} = 0..(n - 1)
    <2>1. PICK list : list = listed'
      OBVIOUS
    <2>2. \A k \in 1..n : list[k].id = order[k]
      BY <1>4, <2>1
    <2>3. {list[k].id : k \in 1..n} = {order[k] : k \in 1..n}
      BY <2>2
    <2> QED
      BY <1>3, <1>4, <2>1, <2>3
  <1>7. \A k \in DOMAIN listed' : OfPast(listed'[k].record, listed'[k].id)
    BY <1>3, <1>4
  <1>8. \A old, id : OfPast(old, id) => OfPast(old, id)'
    BY DEF OfPast, Exists, vars, proposalVars
  <1>9. nextProposalId' = nextProposalId
    BY DEF vars, proposalVars
  <1>10. OldestFirst(listed)'
    BY DEF Show, OldestFirst
  <1> QED
    BY <1>4, <1>5, <1>6, <1>7, <1>8, <1>9, <1>10 DEF ListOf

\* A list stays one of the past.
LEMMA ListStays ==
    ASSUME TypeOK, IdsDense, [Next]_vars, listed' = listed,
           NEW n \in 0..nextProposalId, ListOf(n, listed)
    PROVE  n \in 0..nextProposalId' /\ ListOf(n, listed)'
  <1>1. nextProposalId' \in Nat /\ nextProposalId' >= nextProposalId
    BY IdStep, NextTypeOK, WidthAssumption DEF Taken, TypeOK, ProposalId
  <1>2. ASSUME NEW k \in DOMAIN listed
        PROVE  OfPast(listed[k].record, listed[k].id)'
    <2>1. listed[k].id \in 0..(n - 1)
      BY DEF ListOf
    <2>2. listed[k].id \in ProposalId
      BY <2>1, SmallIds
    <2>3. PICK old, id : old = listed[k].record /\ id = listed[k].id
      OBVIOUS
    <2>4. OfPast(old, id)
      BY <2>3 DEF ListOf
    <2>5. OfPast(old, id)'
      BY <2>2, <2>3, <2>4, StaysOfPast
    <2>6. old = listed'[k].record /\ id = listed'[k].id
      BY <2>3
    <2> QED
      BY <2>5, <2>6
  <1>3. n \in 0..nextProposalId'
    BY <1>1, SmallIds
  <1>4. OldestFirst(listed)'
    BY DEF ListOf, OldestFirst
  <1>5. \A k \in DOMAIN listed' : OfPast(listed[k].record, listed[k].id)'
    BY <1>2
  <1>6. /\ Len(listed') = n /\ DOMAIN listed' = 1..n
        /\ {listed'[k].id : k \in DOMAIN listed'} = 0..(n - 1)
    BY DEF ListOf
  <1> QED
    BY <1>3, <1>4, <1>5, <1>6 DEF ListOf

\* The same of the keys and the answers while the list is being read.
LEMMA AnswersStay ==
    ASSUME ListingInv, [Next]_vars
    PROVE  /\ TypeOK' /\ ProposalInv' /\ StartsInOrder'
           /\ \A n \in 0..nextProposalId : n \in 0..nextProposalId'
           /\ \A id \in DOMAIN answers : \A old :
                 old = answers[id] => OfPast(old, id)'
  <1>1. TypeOK /\ IdsDense /\ ProposalInv
    BY DEF ListingInv, ProposalInv
  <1>2. TypeOK' /\ ProposalInv'
    BY <1>1, NextTypeOK, NextProposalInv
  <1>3. StartsInOrder'
    BY <1>1, <1>2, NextStartsInOrder DEF ProposalInv, ListingInv
  <1>4. /\ nextProposalId \in Nat /\ nextProposalId' \in Nat
        /\ nextProposalId' >= nextProposalId
    BY <1>1, <1>2, IdStep, WidthAssumption DEF Taken, TypeOK, ProposalId
  <1>5. ASSUME NEW id \in DOMAIN answers, NEW old, old = answers[id]
        PROVE  OfPast(old, id)'
    <2>1. PICK n \in 0..nextProposalId : keys = 0..(n - 1)
      BY DEF ListingInv
    <2>2. id \in ProposalId
      BY <1>1, <2>1, SmallIds DEF ListingInv
    <2>3. OfPast(old, id)
      BY <1>5 DEF ListingInv
    <2> QED
      BY <1>1, <2>2, <2>3, StaysOfPast
  <1> QED
    BY <1>2, <1>3, <1>4, <1>5

\* The chain goes on beside the list.
LEMMA ListingKept ==
    ASSUME ListingInv, [Next]_vars,
           UNCHANGED listVars \/ (Fail /\ UNCHANGED vars)
    PROVE  ListingInv'
  <1>1. UNCHANGED <<keys, answers, listed>>
    BY DEF listVars, Fail
  <1>2. /\ reading' \in {"keys", "records", "nothing", "failed"}
        /\ reading' = "keys" => reading = "keys"
        /\ reading' = "nothing" <=> reading = "nothing"
    BY DEF listVars, Fail, ListingInv
  <1>3. /\ TypeOK' /\ ProposalInv' /\ StartsInOrder'
        /\ \A n \in 0..nextProposalId : n \in 0..nextProposalId'
        /\ \A id \in DOMAIN answers : \A old : old = answers[id] => OfPast(old, id)'
    BY AnswersStay
  <1>4. \A id \in DOMAIN answers' : OfPast(answers[id], id)'
    <2>1. SUFFICES ASSUME NEW id \in DOMAIN answers'
                   PROVE  OfPast(answers[id], id)'
      OBVIOUS
    <2>2. PICK old : old = answers[id]
      OBVIOUS
    <2>3. OfPast(old, id)' /\ old = answers'[id]
      BY <1>1, <1>3, <2>2
    <2> QED
      BY <2>3
  <1>5. IF reading' = "nothing" THEN \E n \in 0..nextProposalId' : ListOf(n, listed)'
                                ELSE listed' = << >>
    <2>1. CASE reading = "nothing"
      <3>1. PICK n \in 0..nextProposalId : ListOf(n, listed)
        BY <2>1 DEF ListingInv
      <3>2. n \in 0..nextProposalId' /\ ListOf(n, listed)'
        BY <1>1, <3>1, ListStays DEF ListingInv, ProposalInv
      <3> QED
        BY <1>2, <2>1, <3>2
    <2>2. CASE reading # "nothing"
      BY <1>1, <1>2, <2>2 DEF ListingInv
    <2> QED
      BY <2>1, <2>2
  <1>6. \E n \in 0..nextProposalId' : keys' = 0..(n - 1)
    <2>1. PICK n \in 0..nextProposalId : keys = 0..(n - 1)
      BY DEF ListingInv
    <2> QED
      BY <1>1, <1>3, <2>1
  <1>7. /\ DOMAIN answers' \subseteq keys'
        /\ reading' = "keys" => keys' = {} /\ DOMAIN answers' = {}
    BY <1>1, <1>2 DEF ListingInv
  <1> QED
    BY <1>2, <1>3, <1>4, <1>5, <1>6, <1>7 DEF ListingInv

\* The keys are the ids of that moment; without any, the list is empty.
LEMMA ReadKeysKeeps == ListingInv /\ ReadKeys => ListingInv'
  <1> SUFFICES ASSUME ListingInv, ReadKeys PROVE ListingInv'
    OBVIOUS
  <1>1. UNCHANGED vars /\ [Next]_vars /\ UNCHANGED answers /\ DOMAIN answers = {}
    BY DEF ReadKeys, ListingInv
  <1>2. TypeOK /\ IdsDense /\ listed = << >>
    BY DEF ListingInv, ProposalInv, ReadKeys
  <1>3. /\ TypeOK' /\ ProposalInv' /\ StartsInOrder'
        /\ \A n \in 0..nextProposalId : n \in 0..nextProposalId'
    BY <1>1, AnswersStay
  <1>4. /\ nextProposalId \in 0..nextProposalId
        /\ keys' = 0..(nextProposalId - 1)
    <2>1. /\ nextProposalId \in Nat /\ nextProposalId \in ProposalId
          /\ \A i \in ProposalId : i \in Nat /\ (Exists(i) <=> i < nextProposalId)
      BY <1>2, WidthAssumption DEF TypeOK, ProposalId, IdsDense
    <2>2. 0..(nextProposalId - 1) \subseteq ProposalId
      BY <1>2, <2>1, SmallIds
    <2>3. \A i \in ProposalId : Exists(i) <=> i \in 0..(nextProposalId - 1)
      BY <2>1
    <2>4. keys' = {i \in ProposalId : Exists(i)}
      BY DEF ReadKeys
    <2>5. keys' = 0..(nextProposalId - 1)
      BY <2>2, <2>3, <2>4
    <2> QED
      BY <2>1, <2>5
  <1>5. CASE keys' = {}
    <2>1. Show(answers)
      BY <1>5 DEF ReadKeys
    <2>2. nextProposalId = 0
      <3>1. nextProposalId \in Nat
        BY <1>2, WidthAssumption DEF TypeOK, ProposalId
      <3>2. nextProposalId # 0 => 0 \in 0..(nextProposalId - 1)
        BY <3>1
      <3> QED
        BY <1>4, <1>5, <3>2
    <2>3. ListOf(0, listed)'
      <3>1. 0 \in 0..nextProposalId /\ DOMAIN answers = 0..(0 - 1)
        BY <1>1, <2>2
      <3>2. \A id \in DOMAIN answers : OfPast(answers[id], id)
        BY <1>1
      <3> QED
        BY <1>1, <1>2, <2>1, <3>1, <3>2, ShowsList
    <2>4. 0 \in 0..nextProposalId'
      BY <1>3, <2>2
    <2>5. keys' = 0..(0 - 1) /\ reading' = "nothing" /\ DOMAIN answers' = {}
      BY <1>1, <1>5, <2>1 DEF Show
    <2> QED
      BY <1>3, <1>5, <2>3, <2>4, <2>5 DEF ListingInv
  <1>6. CASE keys' # {}
    <2>1. reading' = "records" /\ listed' = << >> /\ DOMAIN answers' = {}
      BY <1>1, <1>2, <1>6 DEF ReadKeys
    <2>2. \E n \in 0..nextProposalId' : keys' = 0..(n - 1)
      BY <1>3, <1>4
    <2> QED
      BY <1>3, <2>1, <2>2 DEF ListingInv
  <1> QED
    BY <1>5, <1>6

\* A record is told as it is, and with the last of them the list is shown.
LEMMA ReadRecordKeeps ==
    ASSUME ListingInv, NEW i \in ProposalId, ReadRecord(i)
    PROVE  ListingInv'
  <1>1. UNCHANGED vars /\ [Next]_vars /\ UNCHANGED keys /\ listed = << >>
    BY DEF ReadRecord, ListingInv
  <1>2. TypeOK /\ IdsDense
    BY DEF ListingInv, ProposalInv
  <1>3. /\ TypeOK' /\ ProposalInv' /\ StartsInOrder'
        /\ \A n \in 0..nextProposalId : n \in 0..nextProposalId'
    BY <1>1, AnswersStay
  <1>4. PICK n \in 0..nextProposalId : keys = 0..(n - 1)
    BY DEF ListingInv
  <1>5. i \in keys /\ Exists(i)
    BY <1>2, <1>4, SmallIds DEF ReadRecord, IdsDense
  <1>6. PICK told : told = answers'
    OBVIOUS
  <1>7. /\ DOMAIN told = DOMAIN answers \cup {i}
        /\ \A j \in DOMAIN told : told[j] = IF j = i THEN proposals[i] ELSE answers[j]
    BY <1>6 DEF ReadRecord
  <1>8. DOMAIN told \subseteq keys
    BY <1>5, <1>7 DEF ListingInv
  <1>9. \A j \in DOMAIN told : OfPast(told[j], j)
    BY <1>2, <1>5, <1>7, AnswerOfPast DEF ListingInv
  <1>10. \A old, id : OfPast(old, id) => OfPast(old, id)'
    BY <1>1 DEF OfPast, Exists, vars, proposalVars
  <1>11. \A j \in DOMAIN answers' : OfPast(answers[j], j)'
    BY <1>6, <1>9, <1>10
  <1>12. /\ \E m \in 0..nextProposalId' : keys' = 0..(m - 1)
         /\ DOMAIN answers' \subseteq keys'
    BY <1>1, <1>3, <1>4, <1>6, <1>8
  <1>13. CASE DOMAIN told = keys
    <2>1. Show(told)
      BY <1>6, <1>13 DEF ReadRecord
    <2>2. ListOf(n, listed)'
      BY <1>1, <1>2, <1>4, <1>9, <1>13, <2>1, ShowsList
    <2>3. reading' = "nothing" /\ n \in 0..nextProposalId'
      BY <1>3, <2>1 DEF Show
    <2> QED
      BY <1>3, <1>11, <1>12, <2>2, <2>3 DEF ListingInv
  <1>14. CASE DOMAIN told # keys
    <2>1. reading' = "records" /\ listed' = << >>
      BY <1>1, <1>6, <1>14 DEF ReadRecord
    <2> QED
      BY <1>3, <1>11, <1>12, <2>1 DEF ListingInv
  <1> QED
    BY <1>13, <1>14

LEMMA NextListingInv == ListingInv /\ [ListingNext]_listingVars => ListingInv'
  <1> SUFFICES ASSUME ListingInv, [ListingNext]_listingVars PROVE ListingInv'
    OBVIOUS
  <1>1. [Next]_vars
    BY ListingStepIsStep
  <1>2. CASE Chain \/ UNCHANGED listingVars
    BY <1>1, <1>2, ListingKept DEF Chain, listingVars
  <1>3. CASE Fail
    BY <1>1, <1>3, ListingKept DEF Fail
  <1>4. CASE ReadKeys
    BY <1>4, ReadKeysKeeps
  <1>5. ASSUME NEW i \in ProposalId, ReadRecord(i) PROVE ListingInv'
    BY <1>5, ReadRecordKeeps
  <1> QED
    BY <1>2, <1>3, <1>4, <1>5 DEF ListingNext

-----------------------------------------------------------------------------
(* The theorems.                                                           *)

\* However the answers are spread over the blocks, the list has the oldest
\* proposals, each once, as they were at some time (proposal-list.tsx:60-81).
THEOREM ListShowsPast == ListingSpec => []ListIsPast
  <1>1. ASSUME ListingInv, reading = "nothing"
        PROVE  ListIsPast
    <2>1. PICK n \in 0..nextProposalId : ListOf(n, listed)
      BY <1>1 DEF ListingInv
    <2> QED
      BY <2>1 DEF ListOf, OfPast, ListIsPast
  <1>2. ListingInv => ListIsPast
    BY <1>1 DEF ListIsPast
  <1> QED
    BY <1>2, InitListingInv, NextListingInv, PTL DEF ListingSpec

\* What the list shows in the wrong order of ids was created in one block.
THEOREM ListIsInOrder == ListingSpec => []InOrderOfCreation
  <1>1. ASSUME ListingInv, NEW k \in DOMAIN listed, NEW m \in DOMAIN listed,
               k < m, listed[k].id > listed[m].id
        PROVE  proposals[listed[k].id].start = proposals[listed[m].id].start
    <2>1. PICK n \in 0..nextProposalId : ListOf(n, listed)
      BY <1>1 DEF ListingInv
    <2> DEFINE i == listed[k].id
               j == listed[m].id
    <2>2. /\ OfPast(listed[k].record, i) /\ OfPast(listed[m].record, j)
          /\ listed[k].record.start <= listed[m].record.start
          /\ i \in 0..(n - 1) /\ j \in 0..(n - 1)
      BY <1>1, <2>1 DEF ListOf, OldestFirst
    <2>3. i \in ProposalId /\ j \in ProposalId
      BY <1>1, <2>2, SmallIds DEF ListingInv
    <2>4. /\ Exists(i) /\ Exists(j)
          /\ proposals[i].start <= proposals[j].start
      BY <2>2 DEF OfPast
    <2>5. proposals[j].start <= proposals[i].start
      BY <1>1, <2>3, <2>4, <2>2 DEF ListingInv, StartsInOrder
    <2>6. proposals[i].start \in Nat /\ proposals[j].start \in Nat
      BY <1>1, <2>3, <2>4, RecordType DEF ListingInv, Proposal, Block
    <2> QED
      BY <2>4, <2>5, <2>6
  <1>2. ListingInv => InOrderOfCreation
    BY <1>1 DEF InOrderOfCreation
  <1> QED
    BY <1>2, InitListingInv, NextListingInv, PTL DEF ListingSpec

\* A list filtered for decided proposals, and by any text of the authors' addresses,
\* is never wrong, however old it is.
THEOREM FilterStands == ListingSpec => []FilteredStands
  <1>1. ASSUME ListingInv, NEW author \in AuthorText \cup {NoFilter},
               NEW status \in {"Approved", "Rejected"},
               NEW k \in FilteredProposals(author, status)
        PROVE  /\ proposals[listed[k].id].status = status
               /\ author # NoFilter =>
                     proposals[listed[k].id].author \in Containing[author]
    <2>1. k \in DOMAIN listed /\ Matches(listed[k], author, status)
      BY DEF FilteredProposals
    <2>2. PICK n \in 0..nextProposalId : ListOf(n, listed)
      BY <1>1, <2>1 DEF ListingInv
    <2>3. OfPast(listed[k].record, listed[k].id)
      BY <2>1, <2>2 DEF ListOf
    <2>4. status # NoFilter /\ status # "Active"
      BY FilterAssumption DEF ProposalStatus
    <2> QED
      BY <2>1, <2>3, <2>4 DEF Matches, OfPast
  <1>2. ListingInv => FilteredStands
    BY <1>1 DEF FilteredStands
  <1> QED
    BY <1>2, InitListingInv, NextListingInv, PTL DEF ListingSpec

=============================================================================
