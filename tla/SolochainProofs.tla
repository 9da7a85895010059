--------------------------- MODULE SolochainProofs ---------------------------
(***************************************************************************)
(* That final blocks never disagree and are one ledger, that databases are *)
(* coherent and that a slot has one block, for every number of nodes,      *)
(* slots, rounds and transactions.                                         *)
(***************************************************************************)
EXTENDS SolochainRefinement, SumProofs, SequenceTheorems

-----------------------------------------------------------------------------
(* Prefixes.                                                               *)

Block == [slot : Nat, body : SUBSET Tx]
Chain == Seq(Block)

\* A prefix agrees with the longer sequence place by place.
LEMMA PrefixIs ==
    ASSUME NEW s \in Chain, NEW t \in Chain
    PROVE  IsPrefix(s, t) <=> /\ Len(s) <= Len(t)
                              /\ \A i \in 1..Len(s) : s[i] = t[i]
  <1>0. Len(s) \in Nat /\ Len(t) \in Nat
    BY LenProperties DEF Chain
  <1>1. CASE ~(Len(s) <= Len(t))
    BY <1>1 DEF IsPrefix
  <1>2. CASE Len(s) <= Len(t)
    <2> DEFINE u == SubSeq(t, 1, Len(s))
    <2>1. \A i \in 1..Len(s) : t[i] \in Block
      BY <1>0, <1>2, ElementOfSeq DEF Chain
    <2>2. /\ u \in Seq(Block) /\ Len(u) = Len(s)
          /\ \A i \in 1..Len(s) : u[i] = t[i]
      <3>1. /\ u \in Seq(Block)
            /\ Len(u) = IF 1 <= Len(s) THEN Len(s) - 1 + 1 ELSE 0
            /\ \A i \in 1..Len(s) - 1 + 1 : u[i] = t[1 + i - 1]
        BY <1>0, <2>1, SubSeqProperties
      <3> QED
        BY <3>1, <1>0
    <2>3. SubSeq(s, 1, Len(s)) = s
      BY SubSeqFull DEF Chain
    <2>4. (s = u) <=> \A i \in 1..Len(s) : s[i] = u[i]
      <3>1. ASSUME \A i \in 1..Len(s) : s[i] = u[i] PROVE s = u
        <4> HIDE DEF u
        <4> QED
          BY <2>2, <3>1, SeqEqual DEF Chain
      <3> QED
        BY <3>1
    <2> QED
      BY <1>2, <2>2, <2>3, <2>4 DEF IsPrefix
  <1> QED
    BY <1>1, <1>2

LEMMA PrefixRefl == ASSUME NEW s \in Chain PROVE IsPrefix(s, s)
  <1>1. Len(s) \in Nat
    BY LenProperties DEF Chain
  <1> QED
    BY <1>1, PrefixIs

LEMMA PrefixTrans ==
    ASSUME NEW s \in Chain, NEW t \in Chain, NEW u \in Chain,
           IsPrefix(s, t), IsPrefix(t, u)
    PROVE  IsPrefix(s, u)
  <1>1. Len(s) \in Nat /\ Len(t) \in Nat /\ Len(u) \in Nat
    BY LenProperties DEF Chain
  <1>2. Len(s) <= Len(t) /\ \A i \in 1..Len(s) : s[i] = t[i]
    BY PrefixIs
  <1>3. Len(t) <= Len(u) /\ \A i \in 1..Len(t) : t[i] = u[i]
    BY PrefixIs
  <1>4. Len(s) <= Len(u) /\ \A i \in 1..Len(s) : s[i] = u[i]
    BY <1>1, <1>2, <1>3
  <1> QED
    BY <1>4, PrefixIs

\* Two prefixes of one sequence are prefixes of one another.
LEMMA PrefixesOfOne ==
    ASSUME NEW s \in Chain, NEW t \in Chain, NEW u \in Chain,
           IsPrefix(s, u), IsPrefix(t, u), Len(s) <= Len(t)
    PROVE  IsPrefix(s, t)
  <1>1. Len(s) \in Nat /\ Len(t) \in Nat /\ Len(u) \in Nat
    BY LenProperties DEF Chain
  <1>2. \A i \in 1..Len(s) : s[i] = u[i]
    BY PrefixIs
  <1>3. \A i \in 1..Len(t) : t[i] = u[i]
    BY PrefixIs
  <1>4. \A i \in 1..Len(s) : s[i] = t[i]
    BY <1>1, <1>2, <1>3
  <1> QED
    BY <1>4, PrefixIs

LEMMA EmptyPrefix ==
    ASSUME NEW s \in Chain
    PROVE  <<>> \in Chain /\ IsPrefix(<<>>, s)
  <1>1. <<>> \in Chain /\ Len(<<>>) = 0 /\ Len(s) \in Nat
    BY EmptySeq, LenProperties DEF Chain
  <1>2. Len(<<>>) <= Len(s) /\ \A i \in 1..Len(<<>>) : <<>>[i] = s[i]
    BY <1>1
  <1> QED
    BY <1>1, <1>2, PrefixIs

\* Prefixes(s) are the chains that are prefixes of s.
LEMMA PrefixesAre ==
    ASSUME NEW s \in Chain
    PROVE  /\ Prefixes(s) \subseteq Chain
           /\ \A p \in Chain : p \in Prefixes(s) <=> IsPrefix(p, s)
  <1>0. Len(s) \in Nat
    BY LenProperties DEF Chain
  <1>1. ASSUME NEW l \in 0..Len(s)
        PROVE  /\ SubSeq(s, 1, l) \in Chain
               /\ Len(SubSeq(s, 1, l)) = l
               /\ \A i \in 1..l : SubSeq(s, 1, l)[i] = s[i]
    <2>1. \A i \in 1..l : s[i] \in Block
      BY <1>0, ElementOfSeq DEF Chain
    <2>2. /\ SubSeq(s, 1, l) \in Seq(Block)
          /\ Len(SubSeq(s, 1, l)) = IF 1 <= l THEN l - 1 + 1 ELSE 0
          /\ \A i \in 1..l - 1 + 1 : SubSeq(s, 1, l)[i] = s[1 + i - 1]
      BY <1>0, <2>1, SubSeqProperties
    <2> QED
      BY <1>0, <2>2 DEF Chain
  <1>2. Prefixes(s) \subseteq Chain
    BY <1>1 DEF Prefixes
  <1>3. ASSUME NEW p \in Chain, p \in Prefixes(s) PROVE IsPrefix(p, s)
    <2>1. PICK l \in 0..Len(s) : p = SubSeq(s, 1, l)
      BY <1>3 DEF Prefixes
    <2>2. Len(p) <= Len(s) /\ \A i \in 1..Len(p) : p[i] = s[i]
      BY <1>0, <1>1, <2>1
    <2> QED
      BY <2>2, PrefixIs
  <1>4. ASSUME NEW p \in Chain, IsPrefix(p, s) PROVE p \in Prefixes(s)
    <2>1. /\ Len(p) \in Nat /\ Len(p) <= Len(s)
          /\ \A i \in 1..Len(p) : p[i] = s[i]
      BY <1>4, PrefixIs, LenProperties DEF Chain
    <2>2. Len(p) \in 0..Len(s)
      BY <1>0, <2>1
    <2>3. /\ SubSeq(s, 1, Len(p)) \in Chain
          /\ Len(SubSeq(s, 1, Len(p))) = Len(p)
          /\ \A i \in 1..Len(p) : SubSeq(s, 1, Len(p))[i] = s[i]
      BY <1>1, <2>2
    <2>4. p = SubSeq(s, 1, Len(p))
      BY <2>1, <2>3, SeqEqual DEF Chain
    <2> QED
      BY <2>2, <2>4 DEF Prefixes
  <1> QED
    BY <1>2, <1>3, <1>4

LEMMA EmptyPrefixes == Prefixes(<<>>) = {<<>>}
  <1>1. <<>> \in Chain /\ Len(<<>>) = 0 /\ <<>> \in Prefixes(<<>>)
    BY EmptySeq, EmptyPrefix, PrefixesAre DEF Chain
  <1>2. ASSUME NEW p \in Prefixes(<<>>) PROVE p = <<>>
    <2>1. p \in Chain /\ IsPrefix(p, <<>>)
      BY <1>1, <1>2, PrefixesAre
    <2>2. Len(p) \in Nat /\ Len(p) <= 0
      BY <1>1, <2>1, LenProperties DEF IsPrefix, Chain
    <2> QED
      BY <2>1, <2>2, EmptySeq DEF Chain
  <1> QED
    BY <1>1, <1>2

\* The longest common prefix of some chains is one, and every common prefix
\* of them is a prefix of it.
LEMMA LongestIs ==
    ASSUME NEW C \in SUBSET Chain, C # {}
    PROVE  LET d == LongestCommonPrefix(C)
           IN  /\ d \in Chain
               /\ \A c \in C : IsPrefix(d, c)
               /\ \A p \in Chain : (\A c \in C : IsPrefix(p, c)) => IsPrefix(p, d)
  <1> DEFINE K == CommonPrefixes(C)
             Longest(k) == \A other \in K : Len(other) <= Len(k)
             d == LongestCommonPrefix(C)
  <1>1. PICK c0 \in C : TRUE
    OBVIOUS
  <1>2. \A p \in Chain : p \in K <=> \A c \in C : IsPrefix(p, c)
    BY <1>1, PrefixesAre DEF CommonPrefixes
  <1>3. K \subseteq Chain
    BY PrefixesAre DEF CommonPrefixes
  <1>4. <<>> \in K
    BY <1>1, <1>2, EmptyPrefix
  <1> HIDE DEF K
  <1>5. \A k \in K : Len(k) \in Nat /\ Len(k) <= Len(c0)
    <2>1. \A k \in K : IsPrefix(k, c0)
      BY <1>1, <1>2, <1>3
    <2> QED
      BY <2>1, <1>3, LenProperties DEF IsPrefix, Chain
  <1>6. Len(c0) \in Nat
    BY <1>1, LenProperties DEF Chain
  <1>7. \E k \in K : Longest(k)
    <2> DEFINE N == {Len(c0) - Len(k) : k \in K}
    <2>1. N \in SUBSET Nat /\ N # {}
      BY <1>4, <1>5, <1>6
    <2>2. PICK n \in N : \A i \in N : n <= i
      <3> HIDE DEF N
      <3> QED
        BY <2>1, LeastNat
    <2>3. PICK k \in K : n = Len(c0) - Len(k)
      OBVIOUS
    <2>4. ASSUME NEW other \in K PROVE Len(other) <= Len(k)
      <3>1. Len(c0) - Len(k) <= Len(c0) - Len(other)
        BY <2>2, <2>3
      <3> QED
        BY <3>1, <1>5, <1>6
    <2> QED
      BY <2>4
  <1>8. d \in K /\ Longest(d)
    BY <1>7 DEF LongestCommonPrefix, K
  <1>9. d \in Chain /\ \A c \in C : IsPrefix(d, c)
    BY <1>2, <1>3, <1>8
  <1>10. ASSUME NEW p \in Chain, \A c \in C : IsPrefix(p, c)
         PROVE  IsPrefix(p, d)
    <2>1. p \in K /\ Len(p) <= Len(d)
      BY <1>2, <1>8, <1>10
    <2>2. IsPrefix(p, c0) /\ IsPrefix(d, c0)
      BY <1>9, <1>10
    <2> HIDE DEF d
    <2> QED
      BY <2>1, <2>2, <1>9, PrefixesOfOne
  <1> QED
    BY <1>9, <1>10

-----------------------------------------------------------------------------
(* Types.                                                                  *)

SignedVote == [round : Nat \ {0}, voter : Voter, chain : Chain]

NetworkTypes ==
    /\ slot \in Nat
    /\ up \in [Node -> BOOLEAN]
    /\ worked \in [Node -> BOOLEAN]
    /\ pool \in [Node -> SUBSET Tx]
    /\ known \in [Node -> SUBSET Chain]
    /\ best \in [Node -> Chain]
    /\ final \in [Node -> Chain]
    /\ round \in [Node -> Nat \ {0}]
    /\ voted \in [Node -> BOOLEAN]
    /\ votes \subseteq SignedVote

LEMMA VoterIsSome == Voter # {} /\ Voter \subseteq Node
  <1>1. LoadSpec(ChainId) = "development" \/ LoadSpec(ChainId) = "local_testnet"
    BY PresetAssumption DEF PresetNames
  <1>2. Authority = <<"Alice">> \/ Authority = <<"Alice", "Bob">>
    BY <1>1 DEF Authority, GetPreset, DevelopmentConfigGenesis,
                LocalConfigGenesis, TestnetGenesis
  <1>3. 1 \in DOMAIN Authority
    BY <1>2
  <1> QED
    BY <1>3, PresetAssumption DEF Voter, ToSet

LEMMA IncludedIsTx == ASSUME NEW c \in Chain PROVE Included(c) \subseteq Tx
  <1>1. ASSUME NEW i \in DOMAIN c PROVE c[i].body \subseteq Tx
    <2>1. DOMAIN c = 1..Len(c)
      BY LenProperties DEF Chain
    <2>2. c[i] \in Block
      BY <2>1, ElementOfSeq DEF Chain
    <2> QED
      BY <2>2 DEF Block
  <1> QED
    BY <1>1 DEF Included

LEMMA MaintainedIsTx ==
    ASSUME NEW p \in SUBSET Tx, NEW c \in Chain, NEW d \in Chain
    PROVE  Maintained(p, c, d) \in SUBSET Tx
  BY IncludedIsTx DEF Maintained

\* A new block is a chain one longer than its parent.
LEMMA NewBlockIs ==
    ASSUME slot \in Nat, NEW parent \in Chain, NEW body \in SUBSET Tx
    PROVE  /\ NewBlock(parent, body) \in Chain
           /\ Len(NewBlock(parent, body)) = Len(parent) + 1
           /\ \A i \in 1..Len(parent) : NewBlock(parent, body)[i] = parent[i]
           /\ NewBlock(parent, body)[Len(parent) + 1] = [slot |-> slot, body |-> body]
  <1>1. [slot |-> slot, body |-> body] \in Block
    BY DEF Block
  <1> QED
    BY <1>1, AppendProperties DEF NewBlock, Chain

LEMMA SelectedIs ==
    ASSUME NetworkTypes, NEW n \in Node, NEW c \in SelectChain(n)
    PROVE  c \in Chain /\ c \in known[n] /\ IsPrefix(best[n], c)
  BY DEF NetworkTypes, SelectChain

LEMMA ImportTyped ==
    ASSUME NetworkTypes, NEW n \in Node, NEW c \in Chain, Import(n, c),
           worked' \in [Node -> BOOLEAN]
    PROVE  NetworkTypes'
  <1>1. ForkChoice(best[n], c) \in Chain
    BY DEF ForkChoice, NetworkTypes
  <1>2. Maintained(pool[n], best[n], ForkChoice(best[n], c)) \in SUBSET Tx
    BY <1>1, MaintainedIsTx DEF NetworkTypes
  <1> QED
    BY <1>1, <1>2 DEF NetworkTypes, Import

LEMMA TypesKept == ASSUME NetworkTypes, [Next]_vars PROVE NetworkTypes'
  <1>1. CASE Tick
    BY <1>1, BoundAssumption DEF Tick, NetworkTypes, databaseVars
  <1>2. ASSUME NEW n \in Node, Start(n) PROVE NetworkTypes'
    BY <1>2 DEF Start, NetworkTypes, databaseVars
  <1>3. ASSUME NEW n \in Node, Stop(n) PROVE NetworkTypes'
    BY <1>3 DEF Stop, NetworkTypes, databaseVars
  <1>4. ASSUME NEW n \in Node, NEW tx \in Tx, Submit(n, tx) PROVE NetworkTypes'
    BY <1>4 DEF Submit, NetworkTypes, databaseVars
  <1>5. ASSUME NEW n \in Node, Author(n) PROVE NetworkTypes'
    <2>1. PICK parent \in SelectChain(n), body \in SUBSET pool[n] :
             Import(n, NewBlock(parent, body))
      BY <1>5 DEF Author
    <2>2. body \in SUBSET Tx
      BY DEF NetworkTypes
    <2>3. NewBlock(parent, body) \in Chain
      BY <2>2, SelectedIs, NewBlockIs DEF NetworkTypes
    <2>4. worked' \in [Node -> BOOLEAN]
      BY <1>5 DEF Author, NetworkTypes
    <2> QED
      BY <2>1, <2>3, <2>4, ImportTyped
  <1>6. ASSUME NEW n \in Node, NEW m \in Node, Receive(n, m) PROVE NetworkTypes'
    <2>1. PICK c \in known[m] : Import(n, c)
      BY <1>6 DEF Receive
    <2>2. c \in Chain /\ worked' \in [Node -> BOOLEAN]
      BY <1>6, <2>1 DEF Receive, NetworkTypes
    <2> QED
      BY <2>1, <2>2, ImportTyped
  <1>7. ASSUME NEW n \in Node, Vote(n) PROVE NetworkTypes'
    <2>1. PICK head \in SelectChain(n) : \E c \in Prefixes(head) :
             votes' = votes \cup {[round |-> round[n], voter |-> n, chain |-> c]}
      BY <1>7 DEF Vote
    <2>0. PICK c \in Prefixes(head) :
             votes' = votes \cup {[round |-> round[n], voter |-> n, chain |-> c]}
      BY <2>1
    <2>2. c \in Chain /\ n \in Voter
      BY <1>7, SelectedIs, PrefixesAre DEF Vote, MayVote
    <2>3. [round |-> round[n], voter |-> n, chain |-> c] \in SignedVote
      BY <2>2 DEF NetworkTypes, SignedVote
    <2> QED
      BY <1>7, <2>0, <2>3 DEF Vote, NetworkTypes
  <1>8. ASSUME NEW n \in Node, NEW r \in 1..MaxRound, Conclude(n, r)
        PROVE  NetworkTypes'
    <2> DEFINE top(c) == IF IsPrefix(c, best[n]) THEN best[n] ELSE c
    <2>1. PICK f \in Ballots(r) :
             LET c == Decision(f)
             IN  /\ c \in known[n]
                 /\ final' = [final EXCEPT ![n] = c]
                 /\ best' = [best EXCEPT ![n] = top(c)]
                 /\ known' = [known EXCEPT ![n] = {d \in @ : Comparable(c, d)}]
                 /\ pool' = [pool EXCEPT ![n] = Maintained(@, best[n], top(c))]
      BY <1>8 DEF Conclude
    <2> DEFINE c == Decision(f)
    <2>2. c \in Chain /\ top(c) \in Chain
      BY <2>1 DEF NetworkTypes
    <2>3. Maintained(pool[n], best[n], top(c)) \in SUBSET Tx
      BY <2>2, MaintainedIsTx DEF NetworkTypes
    <2>4. round' \in [Node -> Nat \ {0}] /\ r + 1 \in Nat \ {0}
      BY <1>8, BoundAssumption DEF Conclude, NetworkTypes
    <2> HIDE DEF c, top
    <2>5. /\ final' \in [Node -> Chain] /\ best' \in [Node -> Chain]
          /\ pool' \in [Node -> SUBSET Tx]
      BY <2>1, <2>2, <2>3 DEF NetworkTypes, c
    <2>6. known' \in [Node -> SUBSET Chain]
      BY <2>1 DEF NetworkTypes, c
    <2> QED
      BY <1>8, <2>4, <2>5, <2>6 DEF Conclude, NetworkTypes
  <1>9. ASSUME NEW n \in Node, ImportBlocks(n) PROVE NetworkTypes'
    <2>1. PICK m \in Node : \E c \in known[m] :
             /\ known' = [known EXCEPT ![n] = @ \cup Prefixes(c)]
             /\ best' = [best EXCEPT ![n] = ForkChoice(@, c)]
      BY <1>9 DEF ImportBlocks
    <2>0. PICK c \in known[m] :
             /\ known' = [known EXCEPT ![n] = @ \cup Prefixes(c)]
             /\ best' = [best EXCEPT ![n] = ForkChoice(@, c)]
      BY <2>1
    <2>2. c \in Chain
      BY DEF NetworkTypes
    <2>3. Prefixes(c) \subseteq Chain /\ ForkChoice(best[n], c) \in Chain
      BY <2>2, PrefixesAre DEF ForkChoice, NetworkTypes
    <2> QED
      BY <1>9, <2>0, <2>3 DEF ImportBlocks, NetworkTypes
  <1>10. ASSUME NEW n \in Node, PurgeChain(n) PROVE NetworkTypes'
    <2>1. <<>> \in Chain
      BY EmptySeq DEF Chain
    <2> QED
      BY <1>10, <2>1 DEF PurgeChain, ForgetVotes, NetworkTypes
  <1>11. ASSUME NEW n \in Node, Revert(n) PROVE NetworkTypes'
    <2>1. PICK c \in Prefixes(best[n]) :
             /\ best' = [best EXCEPT ![n] = c]
             /\ known' = [known EXCEPT ![n] = {d \in @ : Len(d) <= Len(c)}]
      BY <1>11 DEF Revert
    <2>2. c \in Chain
      BY <2>1, PrefixesAre DEF NetworkTypes
    <2> QED
      BY <1>11, <2>1, <2>2 DEF Revert, ForgetVotes, NetworkTypes
  <1>12. CASE UNCHANGED vars
    BY <1>12 DEF vars, databaseVars, NetworkTypes
  <1> QED
    BY <1>1, <1>2, <1>3, <1>4, <1>5, <1>6, <1>7, <1>8, <1>9, <1>10, <1>11,
       <1>12 DEF Next, Service, Command

LEMMA TypesFirst == Init => NetworkTypes
  <1>1. <<>> \in Chain
    BY EmptySeq DEF Chain
  <1> QED
    BY <1>1 DEF Init, NetworkTypes

LEMMA NetworkTyped == Spec => []NetworkTypes
  BY TypesFirst, TypesKept, PTL DEF Spec

-----------------------------------------------------------------------------
(* Agreement.                                                              *)

\* A voter votes once in a round, and never again in a round it has left.
VotesOnce ==
    /\ \A v, w \in votes : v.round = w.round /\ v.voter = w.voter => v = w
    /\ \A v \in votes : \/ v.round < round[v.voter]
                        \/ v.round = round[v.voter] /\ voted[v.voter]

\* Who is in a round saw the one before it decided, and votes in a round only
\* follow on votes of all in the one before.
RoundsReached ==
    /\ \A n \in Node :
          round[n] > 1 => \E f \in Ballots(round[n] - 1) : final[n] = Decision(f)
    /\ \A v \in votes : v.round > 1 => Ballots(v.round - 1) # {}

\* Votes are on what earlier rounds decided.
VotesExtend ==
    \A r \in Nat \ {0} : \A f \in Ballots(r) : \A v \in votes :
        r < v.round => IsPrefix(Decision(f), v.chain)

\* What is final was decided in some round.
FinalIsDecided ==
    \A n \in Node : \/ final[n] = <<>>
                    \/ \E r \in Nat \ {0} : \E f \in Ballots(r) :
                          final[n] = Decision(f)

Agreement == VotesOnce /\ RoundsReached /\ VotesExtend /\ FinalIsDecided

\* None of it is promised once a voter's database forgot its votes.
AgreementKept == NetworkTypes /\ (forgot = {} => Agreement)

\* A ballot has a vote of every voter for what it says of it.
LEMMA BallotIs ==
    ASSUME NetworkTypes, NEW r, NEW f \in Ballots(r)
    PROVE  /\ f \in [Voter -> Chain]
           /\ \A a \in Voter : [round |-> r, voter |-> a, chain |-> f[a]] \in votes
           /\ Decision(f) \in Chain
           /\ \A a \in Voter : IsPrefix(Decision(f), f[a])
           /\ \A p \in Chain : (\A a \in Voter : IsPrefix(p, f[a]))
                                  => IsPrefix(p, Decision(f))
  <1>1. f \in [Voter -> {v.chain : v \in InRound(r)}]
    BY DEF Ballots
  <1>2. {v.chain : v \in InRound(r)} \subseteq Chain
    BY DEF InRound, NetworkTypes, SignedVote
  <1>3. f \in [Voter -> Chain]
    BY <1>1, <1>2
  <1>4. \A a \in Voter : [round |-> r, voter |-> a, chain |-> f[a]] \in votes
    BY DEF Ballots
  <1> DEFINE C == {f[a] : a \in Voter}
  <1>5. C \in SUBSET Chain /\ C # {}
    BY <1>3, VoterIsSome
  <1>6. /\ Decision(f) = LongestCommonPrefix(C)
        /\ \A a \in Voter : f[a] \in C
        /\ \A c \in C : \E a \in Voter : c = f[a]
    BY DEF Decision
  <1> HIDE DEF C
  <1>7. /\ Decision(f) \in Chain
        /\ \A c \in C : IsPrefix(Decision(f), c)
        /\ \A p \in Chain : (\A c \in C : IsPrefix(p, c)) => IsPrefix(p, Decision(f))
    BY <1>5, <1>6, LongestIs
  <1>8. ASSUME NEW p \in Chain, \A a \in Voter : IsPrefix(p, f[a])
        PROVE  IsPrefix(p, Decision(f))
    <2>1. \A c \in C : IsPrefix(p, c)
      BY <1>6, <1>8
    <2> QED
      BY <1>7, <2>1
  <1> QED
    BY <1>3, <1>4, <1>6, <1>7, <1>8

\* With votes unique, a round has at most one ballot.
LEMMA OneBallot ==
    ASSUME NetworkTypes, VotesOnce, NEW r, NEW f \in Ballots(r), NEW g \in Ballots(r)
    PROVE  f = g
  <1>1. f \in [Voter -> Chain] /\ g \in [Voter -> Chain]
    BY BallotIs
  <1>2. ASSUME NEW a \in Voter PROVE f[a] = g[a]
    <2> DEFINE v == [round |-> r, voter |-> a, chain |-> f[a]]
               w == [round |-> r, voter |-> a, chain |-> g[a]]
    <2>1. v \in votes /\ w \in votes
      BY BallotIs
    <2>2. v = w
      BY <2>1 DEF VotesOnce
    <2> QED
      BY <2>2
  <1> QED
    BY <1>1, <1>2

\* A later ballot decides on top of an earlier one.
LEMMA LaterDecision ==
    ASSUME NetworkTypes, VotesExtend, NEW r \in Nat \ {0}, NEW s \in Nat \ {0},
           r < s, NEW f \in Ballots(r), NEW g \in Ballots(s)
    PROVE  IsPrefix(Decision(f), Decision(g))
  <1>1. ASSUME NEW a \in Voter PROVE IsPrefix(Decision(f), g[a])
    <2> DEFINE v == [round |-> s, voter |-> a, chain |-> g[a]]
    <2>1. v \in votes /\ v.round = s /\ v.chain = g[a]
      BY BallotIs
    <2> QED
      BY <2>1 DEF VotesExtend
  <1>2. Decision(f) \in Chain
    BY BallotIs
  <1> QED
    BY <1>1, <1>2, BallotIs

LEMMA AgreementAgrees ==
    ASSUME NetworkTypes, Agreement
    PROVE  \A m, n \in Node : Comparable(final[m], final[n])
  <1> SUFFICES ASSUME NEW m \in Node, NEW n \in Node
               PROVE  Comparable(final[m], final[n])
    OBVIOUS
  <1>0. final[m] \in Chain /\ final[n] \in Chain
    BY DEF NetworkTypes
  <1>1. CASE final[m] = <<>> \/ final[n] = <<>>
    BY <1>0, <1>1, EmptyPrefix DEF Comparable
  <1>2. CASE final[m] # <<>> /\ final[n] # <<>>
    <2>1. PICK r \in Nat \ {0} : \E f \in Ballots(r) : final[m] = Decision(f)
      BY <1>2 DEF Agreement, FinalIsDecided
    <2>2. PICK f \in Ballots(r) : final[m] = Decision(f)
      BY <2>1
    <2>3. PICK s \in Nat \ {0} : \E g \in Ballots(s) : final[n] = Decision(g)
      BY <1>2 DEF Agreement, FinalIsDecided
    <2>4. PICK g \in Ballots(s) : final[n] = Decision(g)
      BY <2>3
    <2>5. CASE r < s
      BY <2>2, <2>4, <2>5, LaterDecision DEF Agreement, Comparable
    <2>6. CASE s < r
      BY <2>2, <2>4, <2>6, LaterDecision DEF Agreement, Comparable
    <2>7. CASE r = s
      <3>1. f = g
        BY <2>7, OneBallot DEF Agreement
      <3> QED
        BY <1>0, <2>2, <2>4, <3>1, PrefixRefl DEF Comparable
    <2> QED
      BY <2>5, <2>6, <2>7
  <1> QED
    BY <1>1, <1>2

\* Steps that neither vote nor finalize.
LEMMA AgreementOfOthers ==
    ASSUME Agreement, UNCHANGED <<final, round, voted, votes>>
    PROVE  Agreement'
  <1>1. \A r : Ballots(r)' = Ballots(r)
    BY DEF Ballots, InRound
  <1>2. VotesOnce'
    BY DEF Agreement, VotesOnce
  <1>3. RoundsReached'
    BY <1>1 DEF Agreement, RoundsReached
  <1>4. VotesExtend'
    BY <1>1 DEF Agreement, VotesExtend
  <1>5. FinalIsDecided'
    BY <1>1 DEF Agreement, FinalIsDecided
  <1> QED
    BY <1>2, <1>3, <1>4, <1>5 DEF Agreement

\* A vote of a node that follows what it saw decided: it extends every
\* earlier decision, and it is not late for a round that others went past.
LEMMA AgreementOfVote ==
    ASSUME NetworkTypes, NetworkTypes', Agreement, NEW n \in Node, Vote(n)
    PROVE  Agreement'
  <1> DEFINE s == round[n]
  <1>1. PICK head \in SelectChain(n) : \E c \in Prefixes(head) :
           /\ IsPrefix(final[n], c)
           /\ votes' = votes \cup {[round |-> s, voter |-> n, chain |-> c]}
    BY DEF Vote
  <1>2. PICK c \in Prefixes(head) :
           /\ IsPrefix(final[n], c)
           /\ votes' = votes \cup {[round |-> s, voter |-> n, chain |-> c]}
    BY <1>1
  <1> DEFINE vote == [round |-> s, voter |-> n, chain |-> c]
  <1>3. /\ c \in Chain /\ n \in Voter /\ s \in Nat \ {0} /\ voted[n] = FALSE
        /\ UNCHANGED <<final, round>>
        /\ voted' = [voted EXCEPT ![n] = TRUE]
    BY SelectedIs, PrefixesAre DEF Vote, MayVote, NetworkTypes
  <1>4. \A v \in votes : /\ v.round \in Nat \ {0} /\ v.voter \in Node
                         /\ v.chain \in Chain
    BY VoterIsSome DEF NetworkTypes, SignedVote
  <1>5. \A v \in votes : v.voter = n => v.round < s
    BY <1>3, <1>4 DEF Agreement, VotesOnce
  <1>6. VotesOnce'
    <2>1. \A v, w \in votes' : v.round = w.round /\ v.voter = w.voter => v = w
      BY <1>2, <1>3, <1>4, <1>5 DEF Agreement, VotesOnce
    <2>2. ASSUME NEW v \in votes'
          PROVE  \/ v.round < round'[v.voter]
                 \/ v.round = round'[v.voter] /\ voted'[v.voter]
      <3>1. CASE v \in votes
        BY <1>3, <1>4, <1>5, <3>1 DEF Agreement, VotesOnce, NetworkTypes
      <3>2. CASE v = vote
        BY <1>3, <3>2 DEF NetworkTypes
      <3> QED
        BY <1>2, <3>1, <3>2
    <2> QED
      BY <2>1, <2>2 DEF VotesOnce
  <1>7. \A r \in Nat : r # s => Ballots(r)' = Ballots(r)
    <2>1. ASSUME NEW r \in Nat, r # s PROVE Ballots(r)' = Ballots(r)
      <3>1. InRound(r)' = InRound(r)
        BY <1>2, <2>1 DEF InRound
      <3>2. \A a, d : [round |-> r, voter |-> a, chain |-> d] \in votes'
                         <=> [round |-> r, voter |-> a, chain |-> d] \in votes
        BY <1>2, <2>1
      <3> QED
        BY <3>1, <3>2 DEF Ballots
    <2> QED
      BY <2>1
  <1>0. \A r : Ballots(r) \subseteq Ballots(r)'
    <2>1. ASSUME NEW r, NEW f \in Ballots(r) PROVE f \in Ballots(r)'
      BY <1>2 DEF Ballots, InRound
    <2> QED
      BY <2>1
  <1>8. RoundsReached'
    <2>1. ASSUME NEW m \in Node, round'[m] > 1
          PROVE  \E f \in Ballots(round[m] - 1)' : final'[m] = Decision(f)
      <3>1. PICK f \in Ballots(round[m] - 1) : final[m] = Decision(f)
        BY <1>3, <2>1 DEF Agreement, RoundsReached
      <3>2. f \in Ballots(round[m] - 1)'
        BY <1>0, <1>3, <3>1
      <3> QED
        BY <1>3, <3>1, <3>2
    <2>2. ASSUME NEW v \in votes', v.round > 1 PROVE Ballots(v.round - 1)' # {}
      <3>1. Ballots(v.round - 1) # {}
        <4>1. CASE v \in votes
          BY <2>2, <4>1 DEF Agreement, RoundsReached
        <4>2. CASE v = vote
          <5>1. v.round = round[n]
            BY <4>2
          <5> QED
            BY <2>2, <5>1 DEF Agreement, RoundsReached
        <4> QED
          BY <1>2, <4>1, <4>2
      <3>2. PICK f \in Ballots(v.round - 1) : TRUE
        BY <3>1
      <3>3. f \in Ballots(v.round - 1)'
        BY <1>0, <3>2
      <3> QED
        BY <3>3
    <2> QED
      BY <1>3, <2>1, <2>2 DEF RoundsReached
  <1>9. VotesExtend'
    <2> SUFFICES ASSUME NEW r \in Nat \ {0}, NEW f \in Ballots(r)',
                        NEW v \in votes', r < v.round
                 PROVE  IsPrefix(Decision(f), v.chain)
      BY DEF VotesExtend
    <2>1. CASE r = s
      \* Nobody votes in a later round: this voter would have voted in this.
      <3>1. v \in votes
        BY <1>2, <2>1
      <3>2. v.round - 1 >= s /\ v.round > 1
        BY <1>3, <1>4, <2>1, <3>1
      <3>3. PICK g \in Ballots(v.round - 1) : TRUE
        BY <3>1, <3>2 DEF Agreement, RoundsReached
      <3>4. [round |-> v.round - 1, voter |-> n, chain |-> g[n]] \in votes
        BY <1>3, <3>3, BallotIs
      <3>5. v.round - 1 < s
        BY <1>5, <3>4
      <3> QED
        BY <1>3, <1>4, <3>1, <3>2, <3>5
    <2>2. CASE r # s
      <3>1. f \in Ballots(r)
        BY <1>7, <2>2
      <3>2. CASE v \in votes
        BY <3>1, <3>2 DEF Agreement, VotesExtend
      <3>3. CASE v = vote
        \* The node finished the round before on top of every earlier one.
        <4>1. r < s /\ s > 1 /\ s - 1 \in Nat \ {0}
          BY <1>3, <3>3
        <4>2. PICK g \in Ballots(s - 1) : final[n] = Decision(g)
          BY <4>1 DEF Agreement, RoundsReached
        <4>3. IsPrefix(Decision(f), Decision(g))
          <5>1. CASE r = s - 1
            <6>1. f = g
              BY <3>1, <4>2, <5>1, OneBallot DEF Agreement
            <6> QED
              BY <4>1, <4>2, <6>1, BallotIs, PrefixRefl
          <5>2. CASE r < s - 1
            BY <3>1, <4>1, <4>2, <5>2, LaterDecision DEF Agreement
          <5> QED
            BY <1>3, <4>1, <5>1, <5>2
        <4>4. Decision(f) \in Chain /\ Decision(g) \in Chain
          BY <3>1, <4>2, BallotIs
        <4> QED
          BY <1>2, <1>3, <3>3, <4>2, <4>3, <4>4, PrefixTrans
      <3> QED
        BY <1>2, <3>2, <3>3
    <2> QED
      BY <2>1, <2>2
  <1>10. FinalIsDecided'
    BY <1>3, <1>0 DEF Agreement, FinalIsDecided
  <1> QED
    BY <1>6, <1>8, <1>9, <1>10 DEF Agreement

\* A node that makes a round's decision final leaves the round behind.
LEMMA AgreementOfConclude ==
    ASSUME NetworkTypes, Agreement, NEW n \in Node, NEW r \in 1..MaxRound,
           Conclude(n, r)
    PROVE  Agreement'
  <1>1. PICK f \in Ballots(r) : final' = [final EXCEPT ![n] = Decision(f)]
    BY DEF Conclude
  <1>2. /\ votes' = votes /\ round[n] <= r
        /\ round' = [round EXCEPT ![n] = r + 1]
        /\ voted' = [voted EXCEPT ![n] = FALSE]
        /\ r \in Nat \ {0}
    BY BoundAssumption DEF Conclude
  <1>3. \A q : Ballots(q)' = Ballots(q)
    BY <1>2 DEF Ballots, InRound
  <1>4. VotesOnce'
    <2>1. ASSUME NEW v \in votes
          PROVE  \/ v.round < round'[v.voter]
                 \/ v.round = round'[v.voter] /\ voted'[v.voter]
      <3>1. v.round \in Nat /\ v.voter \in Node
        BY VoterIsSome DEF NetworkTypes, SignedVote
      <3>2. \/ v.round < round[v.voter]
            \/ v.round = round[v.voter] /\ voted[v.voter]
        BY DEF Agreement, VotesOnce
      <3> QED
        BY <1>2, <3>1, <3>2 DEF NetworkTypes
    <2> QED
      BY <1>2, <2>1 DEF Agreement, VotesOnce
  <1>5. RoundsReached'
    <2>1. ASSUME NEW m \in Node, round'[m] > 1
          PROVE  \E g \in Ballots(round'[m] - 1) : final'[m] = Decision(g)
      <3>1. CASE m = n
        BY <1>1, <1>2, <3>1 DEF NetworkTypes
      <3>2. CASE m # n
        BY <1>1, <1>2, <2>1, <3>2 DEF NetworkTypes, Agreement, RoundsReached
      <3> QED
        BY <3>1, <3>2
    <2> QED
      BY <1>2, <1>3, <2>1 DEF Agreement, RoundsReached
  <1>6. VotesExtend'
    BY <1>2, <1>3 DEF Agreement, VotesExtend
  <1>7. FinalIsDecided'
    <2>1. ASSUME NEW m \in Node
          PROVE  \/ final'[m] = <<>>
                 \/ \E q \in Nat \ {0} : \E g \in Ballots(q) : final'[m] = Decision(g)
      <3>1. CASE m = n
        BY <1>1, <1>2, <3>1 DEF NetworkTypes
      <3>2. CASE m # n
        BY <1>1, <3>2 DEF NetworkTypes, Agreement, FinalIsDecided
      <3> QED
        BY <3>1, <3>2
    <2> QED
      BY <1>3, <2>1 DEF FinalIsDecided
  <1> QED
    BY <1>4, <1>5, <1>6, <1>7 DEF Agreement

\* A node that never voted may start over in the first round: no round is
\* complete without it, if it is a voter, and if not it has no vote.
LEMMA AgreementOfForgetting ==
    ASSUME NetworkTypes, Agreement, NEW n \in Node, ForgetVotes(n),
           forgot = {}, forgot' = {}, votes' = votes,
           \A m \in Node : final'[m] \in {<<>>, final[m]},
           \A m \in Node \ {n} : final'[m] = final[m]
    PROVE  Agreement'
  <1>1. /\ \A v \in votes : v.voter # n
        /\ round' = [round EXCEPT ![n] = 1]
        /\ voted' = [voted EXCEPT ![n] = FALSE]
    BY DEF ForgetVotes, HasSigned
  <1>2. \A q : Ballots(q)' = Ballots(q)
    BY DEF Ballots, InRound
  <1>3. VotesOnce'
    <2>1. \A v \in votes : v.voter \in Node \ {n}
      BY <1>1, VoterIsSome DEF NetworkTypes, SignedVote
    <2> QED
      BY <1>1, <2>1 DEF NetworkTypes, Agreement, VotesOnce
  <1>4. RoundsReached'
    <2>1. ASSUME NEW m \in Node, round'[m] > 1
          PROVE  \E g \in Ballots(round'[m] - 1) : final'[m] = Decision(g)
      <3>1. m # n /\ round'[m] = round[m] /\ final'[m] = final[m]
        BY <1>1, <2>1 DEF NetworkTypes
      <3> QED
        BY <2>1, <3>1 DEF Agreement, RoundsReached
    <2> QED
      BY <1>2, <2>1 DEF Agreement, RoundsReached
  <1>5. VotesExtend'
    BY <1>2 DEF Agreement, VotesExtend
  <1>6. FinalIsDecided'
    BY <1>2 DEF Agreement, FinalIsDecided
  <1> QED
    BY <1>3, <1>4, <1>5, <1>6 DEF Agreement

LEMMA AgreementStep == AgreementKept /\ [Next]_vars => AgreementKept'
  <1> SUFFICES ASSUME AgreementKept, [Next]_vars, forgot' = {} PROVE Agreement'
    BY TypesKept DEF AgreementKept
  <1>0. NetworkTypes /\ NetworkTypes'
    BY TypesKept DEF AgreementKept
  <1>1. ASSUME forgot = {}, UNCHANGED <<final, round, voted, votes>>
        PROVE  Agreement'
    BY <1>1, AgreementOfOthers DEF AgreementKept
  <1>2. CASE Tick \/ UNCHANGED vars
    BY <1>1, <1>2 DEF Tick, vars, databaseVars
  <1>3. ASSUME NEW n \in Node,
               \/ Start(n) \/ Stop(n) \/ (\E tx \in Tx : Submit(n, tx))
               \/ Author(n) \/ (\E m \in Node \ {n} : Receive(n, m))
               \/ ImportBlocks(n)
        PROVE  Agreement'
    BY <1>1, <1>3 DEF Start, Stop, Submit, Author, Receive, Import,
                      ImportBlocks, databaseVars
  <1>4. ASSUME NEW n \in Node, Vote(n) PROVE Agreement'
    <2>1. forgot = {}
      BY <1>4 DEF Vote
    <2> QED
      BY <1>0, <1>4, <2>1, AgreementOfVote DEF AgreementKept
  <1>5. ASSUME NEW n \in Node, NEW r \in 1..MaxRound, Conclude(n, r)
        PROVE  Agreement'
    <2>1. forgot = {}
      BY <1>5 DEF Conclude
    <2> QED
      BY <1>0, <1>5, <2>1, AgreementOfConclude DEF AgreementKept
  <1>6. ASSUME NEW n \in Node, PurgeChain(n) PROVE Agreement'
    <2>1. ForgetVotes(n) /\ votes' = votes
      BY <1>6 DEF PurgeChain
    <2>2. forgot = {}
      BY <2>1 DEF ForgetVotes
    <2>3. /\ \A m \in Node : final'[m] \in {<<>>, final[m]}
          /\ \A m \in Node \ {n} : final'[m] = final[m]
      BY <1>0, <1>6 DEF PurgeChain, NetworkTypes
    <2> QED
      BY <1>0, <2>1, <2>2, <2>3, AgreementOfForgetting DEF AgreementKept
  <1>7. ASSUME NEW n \in Node, Revert(n) PROVE Agreement'
    <2>1. ForgetVotes(n) /\ votes' = votes /\ final' = final
      BY <1>7 DEF Revert
    <2>2. forgot = {}
      BY <2>1 DEF ForgetVotes
    <2> QED
      BY <1>0, <2>1, <2>2, AgreementOfForgetting DEF AgreementKept
  <1> QED
    BY <1>2, <1>3, <1>4, <1>5, <1>6, <1>7 DEF Next, Service, Command

LEMMA AgreementFirst == Init => AgreementKept
  <1> SUFFICES ASSUME Init PROVE Agreement
    BY TypesFirst DEF AgreementKept
  <1>1. VotesOnce /\ RoundsReached
    BY DEF Init, VotesOnce, RoundsReached
  <1>2. VotesExtend /\ FinalIsDecided
    BY DEF Init, VotesExtend, FinalIsDecided
  <1> QED
    BY <1>1, <1>2 DEF Agreement

\* Forks, late and lost blocks, crashes, restarts and imports never make two
\* nodes hold final blocks of different chains, as long as no voter's
\* database forgot its votes.
THEOREM FinalBlocksAgree == Spec => []FinalityAgrees
  <1>1. AgreementKept => FinalityAgrees
    BY AgreementAgrees DEF AgreementKept, FinalityAgrees
  <1> QED
    BY <1>1, AgreementFirst, AgreementStep, PTL DEF Spec

-----------------------------------------------------------------------------
(* The ledger.                                                             *)

LEMMA CopyPrefix == \A c, d : Copies!IsPrefix(c, d) <=> IsPrefix(c, d)
  BY DEF IsPrefix, Copies!IsPrefix

\* A step that finalizes nothing and forgets nothing keeps every copy.
LEMMA CopiesKept ==
    ASSUME UNCHANGED <<final, forgot>>
    PROVE  UNCHANGED Copies!ledgerVars
  BY DEF Copies!ledgerVars

\* A conclusion extends the copy of one node, in agreement with all others.
LEMMA ConcludeExtends ==
    ASSUME AgreementKept, AgreementKept', FinalityAgrees', forgot' = {},
           NEW n \in Node, NEW r \in 1..MaxRound, Conclude(n, r)
    PROVE  Copies!Extend(n)
  <1>1. forgot = {}
    BY DEF Conclude
  <1>2. PICK c : IsPrefix(final[n], c) /\ final' = [final EXCEPT ![n] = c]
    BY DEF Conclude
  <1>3. final \in [Node -> Chain] /\ final' \in [Node -> Chain]
    BY DEF AgreementKept, NetworkTypes
  <1>4. final'[n] = c
    BY <1>2, <1>3
  <1>5. ASSUME NEW m \in Node PROVE Copies!Agree(final[m], final'[n])
    <2>1. CASE m = n
      BY <1>2, <1>4, <2>1, CopyPrefix DEF Copies!Agree
    <2>2. CASE m # n
      <3>1. Comparable(final'[m], final'[n])
        BY DEF FinalityAgrees, Comparable
      <3>2. final'[m] = final[m]
        BY <1>2, <1>3, <2>2
      <3> QED
        BY <3>1, <3>2, CopyPrefix DEF Comparable, Copies!Agree
    <2> QED
      BY <2>1, <2>2
  <1> QED
    BY <1>1, <1>2, <1>4, <1>5, CopyPrefix DEF Copies!Extend

\* A command erases the copy of a node that is operated on.
LEMMA PurgeErases ==
    ASSUME NEW n \in Node, PurgeChain(n), forgot' = {}
    PROVE  Copies!Erase(n)
  <1>1. forgot = {}
    BY DEF PurgeChain, ForgetVotes
  <1> QED
    BY <1>1 DEF PurgeChain, Copies!Erase

\* Nothing else touches what is final, and a voter's memory only gets lost.
LEMMA StepOfLedger ==
    ASSUME AgreementKept, AgreementKept', FinalityAgrees', [Next]_vars
    PROVE  Copies!LedgerNext \/ UNCHANGED Copies!ledgerVars
  <1>1. CASE forgot' # {}
    BY <1>1 DEF Copies!LedgerNext, Copies!Break
  <1>2. CASE forgot' = {}
    <2>1. CASE Tick \/ UNCHANGED vars
      BY <2>1, CopiesKept DEF Tick, vars, databaseVars
    <2>2. ASSUME NEW n \in Node,
                 \/ Start(n) \/ Stop(n) \/ (\E tx \in Tx : Submit(n, tx))
                 \/ Author(n) \/ (\E m \in Node \ {n} : Receive(n, m))
                 \/ ImportBlocks(n) \/ Vote(n)
          PROVE  UNCHANGED <<final, forgot>>
      BY <2>2 DEF Start, Stop, Submit, Author, Receive, Import, ImportBlocks,
                  Vote, databaseVars
    <2>3. ASSUME NEW n \in Node, NEW r \in 1..MaxRound, Conclude(n, r)
          PROVE  Copies!LedgerNext
      BY <1>2, <2>3, ConcludeExtends DEF Copies!LedgerNext
    <2>4. ASSUME NEW n \in Node, PurgeChain(n)
          PROVE  Copies!LedgerNext
      BY <1>2, <2>4, PurgeErases DEF Copies!LedgerNext
    <2>5. ASSUME NEW n \in Node, Revert(n)
          PROVE  UNCHANGED <<final, forgot>>
      <3>1. final' = final
        BY <2>5 DEF Revert
      <3>2. forgot = {}
        BY <1>2, <2>5 DEF Revert, ForgetVotes
      <3> QED
        BY <1>2, <3>1, <3>2
    <2> QED
      BY <2>1, <2>2, <2>3, <2>4, <2>5, CopiesKept DEF Next, Service, Command
  <1> QED
    BY <1>1, <1>2

\* The network implements Ledger: through forks, lost votes and blocks, crashes,
\* restarts and imports, what is final on a node stays final and only grows, in
\* agreement with every other node, until an operator erases it or makes a
\* voter forget.
THEOREM SolochainImplementsLedger == Spec => ImplementsLedger
  <1>1. Init => Copies!LedgerInit
    BY DEF Init, Copies!LedgerInit
  <1>2. AgreementKept /\ AgreementKept' /\ FinalityAgrees' /\ [Next]_vars
           => [Copies!LedgerNext]_Copies!ledgerVars
    BY StepOfLedger
  <1> QED
    BY <1>1, <1>2, FinalBlocksAgree, AgreementFirst, AgreementStep, PTL
       DEF Spec, ImplementsLedger, Copies!LedgerSpec

-----------------------------------------------------------------------------
(* Databases.                                                              *)

\* All prefixes of a chain but itself are prefixes of its parent.
LEMMA ParentHoldsPrefixes ==
    ASSUME NEW c \in Chain, NEW d \in Chain, Len(c) = Len(d) + 1, IsPrefix(d, c)
    PROVE  Prefixes(c) \ {c} \subseteq Prefixes(d)
  <1> SUFFICES ASSUME NEW p \in Prefixes(c), p # c PROVE p \in Prefixes(d)
    OBVIOUS
  <1>1. p \in Chain /\ IsPrefix(p, c)
    BY PrefixesAre
  <1>2. Len(p) \in Nat /\ Len(d) \in Nat
    BY <1>1, LenProperties DEF Chain
  <1>3. Len(p) <= Len(c) /\ \A i \in 1..Len(p) : p[i] = c[i]
    BY <1>1, PrefixIs
  <1>4. Len(p) # Len(c)
    BY <1>1, <1>3, SeqEqual DEF Chain
  <1>5. Len(p) <= Len(d)
    BY <1>2, <1>3, <1>4
  <1> QED
    BY <1>1, <1>5, PrefixesOfOne, PrefixesAre

LEMMA FrontIs ==
    ASSUME NEW c \in Chain, c # <<>>
    PROVE  Front(c) \in Chain /\ Len(c) = Len(Front(c)) + 1 /\ IsPrefix(Front(c), c)
  <1>1. Len(c) \in Nat \ {0}
    BY EmptySeq DEF Chain
  <1>2. \A i \in 1..Len(c) - 1 : c[i] \in Block
    BY <1>1, ElementOfSeq DEF Chain
  <1> DEFINE n == Len(c) - 1
             u == SubSeq(c, 1, n)
  <1>3. /\ u \in Seq(Block)
        /\ Len(u) = IF 1 <= n THEN n - 1 + 1 ELSE 0
        /\ \A i \in 1..n - 1 + 1 : u[i] = c[1 + i - 1]
    BY <1>1, <1>2, SubSeqProperties
  <1>5. Front(c) = u
    BY DEF Front
  <1> HIDE DEF u
  <1>4. /\ Front(c) \in Chain /\ Len(Front(c)) = Len(c) - 1
        /\ \A i \in 1..Len(c) - 1 : Front(c)[i] = c[i]
    BY <1>1, <1>3, <1>5 DEF Chain
  <1> QED
    BY <1>1, <1>4, PrefixIs

\* A block enters on top of the final one, its ancestors held.
LEMMA ImportCoherent ==
    ASSUME NetworkTypes, BestAboveFinal, NEW n \in Node, NEW c \in Chain,
           Import(n, c), IsPrefix(final[n], c), Prefixes(c) \ {c} \subseteq known[n]
    PROVE  BestAboveFinal'
  <1>1. /\ known' = [known EXCEPT ![n] = @ \cup {c}]
        /\ best' = [best EXCEPT ![n] = ForkChoice(@, c)]
        /\ final' = final
    BY DEF Import
  <1>2. best'[n] \in {best[n], c}
    BY <1>1 DEF ForkChoice, NetworkTypes
  <1> QED
    BY <1>1, <1>2 DEF BestAboveFinal, NetworkTypes

LEMMA AuthoredIs ==
    ASSUME NetworkTypes, BestAboveFinal, NEW n \in Node,
           NEW parent \in SelectChain(n), NEW body \in SUBSET pool[n]
    PROVE  /\ NewBlock(parent, body) \in Chain
           /\ IsPrefix(final[n], NewBlock(parent, body))
           /\ Prefixes(NewBlock(parent, body)) \ {NewBlock(parent, body)}
                 \subseteq known[n]
  <1> DEFINE c == NewBlock(parent, body)
  <1>1. parent \in Chain /\ parent \in known[n] /\ IsPrefix(best[n], parent)
    BY SelectedIs
  <1>2. /\ c \in Chain /\ Len(c) = Len(parent) + 1
        /\ \A i \in 1..Len(parent) : c[i] = parent[i]
    <2>1. slot \in Nat /\ body \in SUBSET Tx
      BY DEF NetworkTypes
    <2> QED
      BY <1>1, <2>1, NewBlockIs
  <1> HIDE DEF c
  <1>3. IsPrefix(parent, c)
    <2>1. Len(parent) \in Nat
      BY <1>1, LenProperties DEF Chain
    <2> QED
      BY <1>1, <1>2, <2>1, PrefixIs
  <1>4. Prefixes(c) \ {c} \subseteq known[n]
    BY <1>1, <1>2, <1>3, ParentHoldsPrefixes DEF BestAboveFinal
  <1>5. final[n] \in Chain /\ best[n] \in Chain /\ IsPrefix(final[n], best[n])
    BY DEF NetworkTypes, BestAboveFinal
  <1>6. IsPrefix(final[n], parent)
    BY <1>1, <1>5, PrefixTrans
  <1>7. IsPrefix(final[n], c)
    BY <1>1, <1>2, <1>3, <1>5, <1>6, PrefixTrans
  <1> QED
    BY <1>2, <1>4, <1>7 DEF c

LEMMA ReceivedIs ==
    ASSUME NetworkTypes, BestAboveFinal, NEW n \in Node, NEW c \in Chain,
           Importable(n, c)
    PROVE  IsPrefix(final[n], c) /\ Prefixes(c) \ {c} \subseteq known[n]
  <1>1. <<>> \in known[n]
    <2>1. best[n] \in Chain /\ best[n] \in known[n]
      BY DEF NetworkTypes, BestAboveFinal
    <2>2. <<>> \in Prefixes(best[n])
      BY <2>1, EmptyPrefix, PrefixesAre
    <2> QED
      BY <2>1, <2>2 DEF BestAboveFinal
  <1>2. c # <<>> /\ Front(c) \in known[n]
    BY <1>1 DEF Importable
  <1>3. Prefixes(c) \ {c} \subseteq Prefixes(Front(c))
    BY <1>2, FrontIs, ParentHoldsPrefixes
  <1> QED
    BY <1>2, <1>3 DEF Importable, BestAboveFinal

\* What is dropped when a block becomes final holds no ancestor of the rest.
LEMMA ConcludeCoherent ==
    ASSUME NetworkTypes, BestAboveFinal, NEW n \in Node, NEW r \in 1..MaxRound,
           Conclude(n, r)
    PROVE  BestAboveFinal'
  <1>1. PICK c \in known[n] :
           /\ final' = [final EXCEPT ![n] = c]
           /\ best' = [best EXCEPT
                          ![n] = IF IsPrefix(c, best[n]) THEN best[n] ELSE c]
           /\ known' = [known EXCEPT ![n] = {d \in @ : Comparable(c, d)}]
    BY DEF Conclude
  <1>2. c \in Chain /\ best[n] \in Chain /\ best[n] \in known[n]
    BY DEF NetworkTypes, BestAboveFinal
  <1>3. IsPrefix(c, c)
    BY <1>2, PrefixRefl
  <1>4. /\ final'[n] = c
        /\ best'[n] = IF IsPrefix(c, best[n]) THEN best[n] ELSE c
        /\ known'[n] = {d \in known[n] : Comparable(c, d)}
    BY <1>1 DEF NetworkTypes
  <1>5. IsPrefix(final'[n], best'[n]) /\ best'[n] \in known'[n]
    BY <1>2, <1>3, <1>4 DEF Comparable
  <1>6. ASSUME NEW d \in known'[n] PROVE Prefixes(d) \subseteq known'[n]
    <2>1. d \in known[n] /\ d \in Chain /\ Comparable(c, d)
      BY <1>4 DEF NetworkTypes
    <2>2. ASSUME NEW p \in Prefixes(d) PROVE Comparable(c, p)
      <3>1. p \in Chain /\ IsPrefix(p, d)
        BY <2>1, PrefixesAre
      <3>2. Len(p) \in Nat /\ Len(c) \in Nat
        BY <1>2, <3>1, LenProperties DEF Chain
      <3>3. CASE IsPrefix(c, d)
        <4>1. Len(p) <= Len(c) \/ Len(c) <= Len(p)
          BY <3>2
        <4> QED
          BY <1>2, <2>1, <3>1, <3>3, <4>1, PrefixesOfOne DEF Comparable
      <3>4. CASE IsPrefix(d, c)
        BY <1>2, <2>1, <3>1, <3>4, PrefixTrans DEF Comparable
      <3> QED
        BY <2>1, <3>3, <3>4 DEF Comparable
    <2> QED
      BY <1>4, <2>1, <2>2 DEF BestAboveFinal
  <1>7. \A m \in Node \ {n} : /\ final'[m] = final[m] /\ best'[m] = best[m]
                              /\ known'[m] = known[m]
    BY <1>1 DEF NetworkTypes
  <1> QED
    BY <1>5, <1>6, <1>7 DEF BestAboveFinal

LEMMA ImportBlocksCoherent ==
    ASSUME NetworkTypes, BestAboveFinal, NEW n \in Node, ImportBlocks(n)
    PROVE  BestAboveFinal'
  <1>1. PICK m \in Node : \E c \in known[m] :
           /\ Comparable(final[n], c)
           /\ known' = [known EXCEPT ![n] = @ \cup Prefixes(c)]
           /\ best' = [best EXCEPT ![n] = ForkChoice(@, c)]
    BY DEF ImportBlocks
  <1>2. PICK c \in known[m] :
           /\ Comparable(final[n], c)
           /\ known' = [known EXCEPT ![n] = @ \cup Prefixes(c)]
           /\ best' = [best EXCEPT ![n] = ForkChoice(@, c)]
    BY <1>1
  <1>3. final' = final
    BY DEF ImportBlocks
  <1>4. /\ c \in Chain /\ final[n] \in Chain /\ best[n] \in Chain
        /\ IsPrefix(final[n], best[n])
    BY DEF NetworkTypes, BestAboveFinal
  <1>5. IsPrefix(final[n], ForkChoice(best[n], c))
    <2>1. /\ Len(c) \in Nat /\ Len(final[n]) \in Nat /\ Len(best[n]) \in Nat
          /\ Len(final[n]) <= Len(best[n])
      BY <1>4, LenProperties, PrefixIs DEF Chain
    <2>2. CASE Len(c) > Len(best[n])
      <3>1. ~IsPrefix(c, final[n])
        <4>1. ~(Len(c) <= Len(final[n]))
          BY <2>1, <2>2
        <4> QED
          BY <4>1 DEF IsPrefix
      <3> QED
        BY <1>2, <2>2, <3>1 DEF Comparable, ForkChoice
    <2>3. CASE ~(Len(c) > Len(best[n]))
      BY <1>4, <2>3 DEF ForkChoice
    <2> QED
      BY <2>2, <2>3
  <1>6. c \in Prefixes(c) /\ Prefixes(c) \subseteq known[m]
    BY <1>4, PrefixRefl, PrefixesAre DEF BestAboveFinal
  <1>7. \A d \in Prefixes(c) : Prefixes(d) \subseteq Prefixes(c)
    BY <1>4, PrefixesAre, PrefixTrans
  <1>8. known'[n] = known[n] \cup Prefixes(c) /\ best'[n] = ForkChoice(best[n], c)
    BY <1>2 DEF NetworkTypes
  <1>9. best'[n] \in known'[n] /\ IsPrefix(final'[n], best'[n])
    BY <1>3, <1>5, <1>6, <1>8 DEF ForkChoice, BestAboveFinal
  <1>10. \A d \in known'[n] : Prefixes(d) \subseteq known'[n]
    BY <1>7, <1>8 DEF BestAboveFinal
  <1>11. \A k \in Node \ {n} : known'[k] = known[k] /\ best'[k] = best[k]
    BY <1>2 DEF NetworkTypes
  <1> QED
    BY <1>3, <1>9, <1>10, <1>11 DEF BestAboveFinal

LEMMA RevertCoherent ==
    ASSUME NetworkTypes, BestAboveFinal, NEW n \in Node, Revert(n)
    PROVE  BestAboveFinal'
  <1>1. PICK c \in Prefixes(best[n]) :
           /\ IsPrefix(final[n], c)
           /\ best' = [best EXCEPT ![n] = c]
           /\ known' = [known EXCEPT ![n] = {d \in @ : Len(d) <= Len(c)}]
    BY DEF Revert
  <1>2. final' = final
    BY DEF Revert
  <1>3. c \in Chain /\ c \in known[n] /\ Len(c) \in Nat
    BY PrefixesAre, LenProperties DEF NetworkTypes, BestAboveFinal, Chain
  <1>4. best'[n] = c /\ known'[n] = {d \in known[n] : Len(d) <= Len(c)}
    BY <1>1 DEF NetworkTypes
  <1>5. best'[n] \in known'[n] /\ IsPrefix(final'[n], best'[n])
    BY <1>1, <1>2, <1>3, <1>4
  <1>6. ASSUME NEW d \in known'[n] PROVE Prefixes(d) \subseteq known'[n]
    <2>1. /\ d \in known[n] /\ d \in Chain /\ Len(d) \in Nat /\ Len(d) <= Len(c)
          /\ Prefixes(d) \subseteq known[n]
      BY <1>4, LenProperties DEF NetworkTypes, BestAboveFinal, Chain
    <2>2. ASSUME NEW p \in Prefixes(d) PROVE Len(p) <= Len(c)
      <3>1. p \in Chain /\ IsPrefix(p, d)
        BY <2>1, PrefixesAre
      <3>2. Len(p) \in Nat /\ Len(p) <= Len(d)
        BY <2>1, <3>1, PrefixIs, LenProperties DEF Chain
      <3> QED
        BY <1>3, <2>1, <3>2
    <2> QED
      BY <1>4, <2>1, <2>2
  <1>7. \A k \in Node \ {n} : known'[k] = known[k] /\ best'[k] = best[k]
    BY <1>1 DEF NetworkTypes
  <1> QED
    BY <1>2, <1>5, <1>6, <1>7 DEF BestAboveFinal

LEMMA PurgeCoherent ==
    ASSUME NetworkTypes, BestAboveFinal, NEW n \in Node, PurgeChain(n)
    PROVE  BestAboveFinal'
  <1>1. /\ known'[n] = {<<>>} /\ best'[n] = <<>> /\ final'[n] = <<>>
        /\ \A k \in Node \ {n} : /\ known'[k] = known[k] /\ best'[k] = best[k]
                                 /\ final'[k] = final[k]
    BY DEF PurgeChain, NetworkTypes
  <1>2. <<>> \in Chain /\ IsPrefix(<<>>, <<>>)
    BY EmptySeq, EmptyPrefix DEF Chain
  <1>3. Prefixes(<<>>) = {<<>>}
    BY EmptyPrefixes
  <1> QED
    BY <1>1, <1>2, <1>3 DEF BestAboveFinal

LEMMA CoherenceStep ==
    ASSUME NetworkTypes, BestAboveFinal, [Next]_vars
    PROVE  BestAboveFinal'
  <1>1. CASE UNCHANGED databaseVars
    BY <1>1 DEF databaseVars, BestAboveFinal
  <1>2. CASE Tick \/ UNCHANGED vars
    BY <1>1, <1>2 DEF Tick, vars
  <1>3. ASSUME NEW n \in Node,
               Start(n) \/ Stop(n) \/ \E tx \in Tx : Submit(n, tx)
        PROVE  BestAboveFinal'
    BY <1>1, <1>3 DEF Start, Stop, Submit
  <1>4. ASSUME NEW n \in Node, Author(n) PROVE BestAboveFinal'
    BY <1>4, AuthoredIs, ImportCoherent DEF Author
  <1>5. ASSUME NEW n \in Node, NEW m \in Node, Receive(n, m)
        PROVE  BestAboveFinal'
    <2>1. PICK c \in known[m] : Importable(n, c) /\ Import(n, c)
      BY <1>5 DEF Receive
    <2>2. c \in Chain
      BY DEF NetworkTypes
    <2> QED
      BY <2>1, <2>2, ReceivedIs, ImportCoherent
  <1>6. ASSUME NEW n \in Node, Vote(n) PROVE BestAboveFinal'
    BY <1>6 DEF Vote, BestAboveFinal
  <1> QED
    BY <1>2, <1>3, <1>4, <1>5, <1>6, ConcludeCoherent, ImportBlocksCoherent,
       PurgeCoherent, RevertCoherent DEF Next, Service, Command

LEMMA CoherenceFirst == Init => BestAboveFinal
  <1> SUFFICES ASSUME Init PROVE BestAboveFinal
    OBVIOUS
  <1>1. <<>> \in Chain /\ IsPrefix(<<>>, <<>>)
    BY EmptySeq, EmptyPrefix DEF Chain
  <1>2. Prefixes(<<>>) = {<<>>}
    BY EmptyPrefixes
  <1> QED
    BY <1>1, <1>2 DEF Init, BestAboveFinal

\* Through forks, finality, restarts, imports and reverts a database keeps
\* the final block below the best one and the ancestors of what it holds.
THEOREM DatabasesAreCoherent == Spec => []BestAboveFinal
  <1>1. NetworkTypes /\ BestAboveFinal /\ [Next]_vars => BestAboveFinal'
    BY CoherenceStep
  <1> QED
    BY <1>1, CoherenceFirst, NetworkTyped, PTL DEF Spec

-----------------------------------------------------------------------------
(* Slots.                                                                  *)

Blocks == UNION {known[n] : n \in Node}

\* Whose slot it is has worked in it, or is down and loses its turn when it
\* starts, once there is a block of the slot.
SlotTaken ==
    \A c \in Blocks \ {<<>>} : Last(c).slot = slot =>
        \A a \in Node : AuthorOf(slot) = a => worked[a] \/ ~up[a]

BlocksInOrder == \A c \in Blocks : IsChain(c) /\ LastSlot(c) <= slot

Numbers ==
    /\ slot \in 0..MaxSlot
    /\ round \in [Node -> 1..MaxRound + 1]
    /\ \A v \in votes : v.round \in 1..MaxRound /\ IsChain(v.chain)
    /\ forgot \subseteq Voter

SlotsKept == /\ NetworkTypes /\ BestAboveFinal
             /\ SlotTaken /\ BlocksInOrder /\ Numbers /\ OneBlockPerSlot

LEMMA EmptyIsChain == IsChain(<<>>) /\ LastSlot(<<>>) = 0
  BY EmptySeq DEF IsChain, LastSlot

\* A block authored in a free slot is of a chain, and the last of it.
LEMMA AuthoredInOrder ==
    ASSUME SlotsKept, slot > 0, NEW parent \in Chain, IsChain(parent),
           SlotFree(parent, slot), NEW body \in SUBSET Tx,
           body \cap Included(parent) = {}
    PROVE  LET c == NewBlock(parent, body)
           IN  IsChain(c) /\ c # <<>> /\ Last(c).slot = slot /\ LastSlot(c) = slot
  <1> DEFINE c == NewBlock(parent, body)
             k == Len(parent)
  <1>1. /\ c \in Chain /\ Len(c) = k + 1 /\ k \in Nat
        /\ \A i \in 1..k : c[i] = parent[i]
        /\ c[k + 1] = [slot |-> slot, body |-> body]
    BY NewBlockIs, LenProperties DEF SlotsKept, NetworkTypes, Chain
  <1>2. DOMAIN parent = 1..k /\ DOMAIN c = 1..k + 1
    BY <1>1, LenProperties DEF Chain
  <1>3. /\ parent \in Seq([slot : 1..MaxSlot, body : SUBSET Tx])
        /\ \A i, j \in 1..k : i < j => /\ parent[i].slot < parent[j].slot
                                       /\ parent[i].body \cap parent[j].body = {}
    BY <1>2 DEF IsChain
  <1>4. slot \in 1..MaxSlot
    BY BoundAssumption DEF SlotsKept, Numbers
  <1>5. c \in Seq([slot : 1..MaxSlot, body : SUBSET Tx])
    BY <1>3, <1>4, AppendProperties DEF NewBlock
  <1>6. \A i \in 1..k : /\ parent[i].slot < slot /\ parent[i].slot \in Int
                        /\ parent[i].body \cap body = {}
    <2> SUFFICES ASSUME NEW i \in 1..k
                 PROVE  /\ parent[i].slot < slot /\ parent[i].slot \in Int
                        /\ parent[i].body \cap body = {}
      OBVIOUS
    <2>0. i \in 1..Len(parent) /\ Len(parent) \in 1..Len(parent)
      BY <1>1
    <2>1. /\ parent[i] \in [slot : 1..MaxSlot, body : SUBSET Tx]
          /\ parent[k] \in [slot : 1..MaxSlot, body : SUBSET Tx]
      BY <1>3, <2>0, ElementOfSeq
    <2>2. parent # <<>>
      BY <1>1, EmptySeq
    <2>3. LastSlot(parent) = parent[k].slot
      BY <2>2 DEF LastSlot, Last
    <2>4. parent[k].slot < slot
      BY <2>3 DEF SlotFree
    <2>5. parent[i].slot <= parent[k].slot
      <3>1. i = k \/ i < k
        BY <1>1
      <3>2. k \in 1..k
        BY <1>1
      <3> QED
        BY <1>3, <2>1, <3>1, <3>2
    <2>6. parent[i].body \subseteq Included(parent)
      BY <1>2 DEF Included
    <2> QED
      BY <1>4, <2>1, <2>4, <2>5, <2>6
  <1>7. ASSUME NEW i \in 1..k + 1, NEW j \in 1..k + 1, i < j
        PROVE  c[i].slot < c[j].slot /\ c[i].body \cap c[j].body = {}
    <2>1. i \in 1..k /\ c[i] = parent[i]
      BY <1>1, <1>7
    <2>2. CASE j \in 1..k
      BY <1>1, <1>3, <1>7, <2>1, <2>2
    <2>3. CASE j = k + 1
      BY <1>1, <1>6, <2>1, <2>3
    <2> QED
      BY <1>1, <2>2, <2>3
  <1> HIDE DEF c
  <1>8. IsChain(c)
    BY <1>2, <1>5, <1>7 DEF IsChain
  <1>9. c # <<>>
    BY <1>1, EmptySeq
  <1>10. Last(c) = [slot |-> slot, body |-> body]
    BY <1>1 DEF Last
  <1> QED
    BY <1>8, <1>9, <1>10 DEF c, LastSlot

\* Steps that bring no block into the world, in the slot.
LEMMA SlotsOfOthers ==
    ASSUME SlotsKept, slot' = slot, Blocks' \subseteq Blocks,
           \A a \in Node : \/ ~up'[a]
                           \/ worked'[a] = worked[a] /\ up'[a] = up[a]
                           \/ AuthorOf(slot) = a => worked'[a]
    PROVE  SlotTaken' /\ BlocksInOrder' /\ OneBlockPerSlot'
  <1>1. AuthorOf(slot)' = AuthorOf(slot)
    BY DEF AuthorOf
  <1>2. SlotTaken'
    BY <1>1 DEF SlotsKept, SlotTaken
  <1>3. BlocksInOrder'
    BY DEF SlotsKept, BlocksInOrder
  <1>4. OneBlockPerSlot'
    BY DEF SlotsKept, OneBlockPerSlot, Blocks
  <1> QED
    BY <1>2, <1>3, <1>4

LEMMA SlotsOfAuthor ==
    ASSUME SlotsKept, NEW n \in Node, Author(n)
    PROVE  SlotTaken' /\ BlocksInOrder' /\ OneBlockPerSlot'
  <1>1. /\ slot > 0 /\ AuthorOf(slot) = n /\ ~worked[n] /\ up[n] /\ slot' = slot
        /\ worked' = [worked EXCEPT ![n] = TRUE]
    BY DEF Author, Import
  <1>2. PICK parent \in SelectChain(n), body \in SUBSET pool[n] :
           /\ SlotFree(parent, slot) /\ body \cap Included(parent) = {}
           /\ Import(n, NewBlock(parent, body))
    BY DEF Author
  <1> DEFINE c == NewBlock(parent, body)
  <1>3. parent \in Chain /\ parent \in Blocks /\ body \in SUBSET Tx
    BY SelectedIs DEF SlotsKept, NetworkTypes, Blocks
  <1>4. IsChain(c) /\ c # <<>> /\ Last(c).slot = slot /\ LastSlot(c) = slot
    BY <1>1, <1>2, <1>3, AuthoredInOrder DEF SlotsKept, BlocksInOrder
  <1> HIDE DEF c
  <1>5. Blocks' \subseteq Blocks \cup {c}
    BY <1>2 DEF Import, Blocks, SlotsKept, NetworkTypes, c
  <1>6. \A d \in Blocks \ {<<>>} : Last(d).slot # slot
    BY <1>1 DEF SlotsKept, SlotTaken
  <1>7. AuthorOf(slot)' = n
    BY <1>1 DEF AuthorOf
  <1>8. worked'[n]
    BY <1>1 DEF SlotsKept, NetworkTypes
  <1>9. SlotTaken'
    BY <1>7, <1>8 DEF SlotTaken
  <1>10. BlocksInOrder'
    <2>1. slot <= slot
      BY DEF SlotsKept, NetworkTypes
    <2> QED
      BY <1>1, <1>4, <1>5, <2>1 DEF SlotsKept, BlocksInOrder
  <1>11. OneBlockPerSlot'
    BY <1>4, <1>5, <1>6 DEF SlotsKept, OneBlockPerSlot, Blocks
  <1> QED
    BY <1>9, <1>10, <1>11

LEMMA SlotsOfTick ==
    ASSUME SlotsKept, Tick PROVE SlotTaken' /\ BlocksInOrder' /\ OneBlockPerSlot'
  <1>1. slot' = slot + 1 /\ slot \in Nat /\ known' = known
    BY DEF Tick, databaseVars, SlotsKept, NetworkTypes
  <1>2. Blocks' = Blocks
    BY <1>1 DEF Blocks
  <1>3. ASSUME NEW c \in Blocks PROVE LastSlot(c) <= slot /\ LastSlot(c) \in Nat
    <2>1. IsChain(c) /\ LastSlot(c) <= slot
      BY DEF SlotsKept, BlocksInOrder
    <2>2. CASE c = <<>>
      BY <2>1, <2>2 DEF LastSlot
    <2>3. CASE c # <<>>
      <3>1. c \in Seq([slot : 1..MaxSlot, body : SUBSET Tx])
        BY <2>1 DEF IsChain
      <3>2. Len(c) \in 1..Len(c)
        BY <2>3, <3>1, EmptySeq
      <3>3. Last(c) \in [slot : 1..MaxSlot, body : SUBSET Tx]
        BY <3>1, <3>2, ElementOfSeq DEF Last
      <3> QED
        BY <2>1, <2>3, <3>3, BoundAssumption DEF LastSlot
    <2> QED
      BY <2>2, <2>3
  <1>4. BlocksInOrder'
    BY <1>1, <1>2, <1>3 DEF SlotsKept, BlocksInOrder
  <1>5. SlotTaken'
    <2>1. \A c \in Blocks \ {<<>>} : Last(c).slot # slot + 1
      BY <1>1, <1>3 DEF LastSlot
    <2> QED
      BY <1>1, <1>2, <2>1 DEF SlotTaken
  <1>6. OneBlockPerSlot'
    BY <1>1 DEF SlotsKept, OneBlockPerSlot
  <1> QED
    BY <1>4, <1>5, <1>6

LEMMA SlotsStep ==
    ASSUME SlotsKept, [Next]_vars
    PROVE  SlotTaken' /\ BlocksInOrder' /\ OneBlockPerSlot'
  <1> DEFINE Goal == SlotTaken' /\ BlocksInOrder' /\ OneBlockPerSlot'
  <1>0. NetworkTypes /\ BestAboveFinal
    BY DEF SlotsKept
  <1>1. ASSUME slot' = slot, UNCHANGED <<up, worked>>, Blocks' \subseteq Blocks
        PROVE  Goal
    BY <1>1, SlotsOfOthers
  <1>2. CASE UNCHANGED vars
    BY <1>1, <1>2 DEF vars, databaseVars, Blocks
  <1>3. ASSUME NEW n \in Node, Start(n) \/ Stop(n) PROVE Goal
    <2>1. slot' = slot /\ Blocks' = Blocks
      BY <1>3 DEF Start, Stop, databaseVars, Blocks
    <2>2. \A a \in Node : \/ ~up'[a]
                          \/ worked'[a] = worked[a] /\ up'[a] = up[a]
                          \/ AuthorOf(slot) = a => worked'[a]
      BY <1>0, <1>3 DEF Start, Stop, NetworkTypes
    <2> QED
      BY <2>1, <2>2, SlotsOfOthers
  <1>4. ASSUME NEW n \in Node, Vote(n) \/ \E tx \in Tx : Submit(n, tx)
        PROVE  Goal
    BY <1>1, <1>4 DEF Vote, Submit, databaseVars, Blocks
  <1>5. ASSUME NEW n \in Node, NEW m \in Node, Receive(n, m) PROVE Goal
    <2>1. PICK c \in known[m] : known' = [known EXCEPT ![n] = @ \cup {c}]
      BY <1>5 DEF Receive, Import
    <2>2. Blocks' \subseteq Blocks
      BY <1>0, <2>1 DEF Blocks, NetworkTypes
    <2> QED
      BY <1>1, <1>5, <2>2 DEF Receive, Import
  <1>6. ASSUME NEW n \in Node, NEW r \in 1..MaxRound, Conclude(n, r) PROVE Goal
    <2>1. PICK c : known' = [known EXCEPT ![n] = {d \in @ : Comparable(c, d)}]
      BY <1>6 DEF Conclude
    <2>2. Blocks' \subseteq Blocks
      BY <1>0, <2>1 DEF Blocks, NetworkTypes
    <2> QED
      BY <1>1, <1>6, <2>2 DEF Conclude
  <1>7. ASSUME NEW n \in Node, ImportBlocks(n) PROVE Goal
    <2>1. PICK m \in Node : \E c \in known[m] :
             known' = [known EXCEPT ![n] = @ \cup Prefixes(c)]
      BY <1>7 DEF ImportBlocks
    <2>2. PICK c \in known[m] : known' = [known EXCEPT ![n] = @ \cup Prefixes(c)]
      BY <2>1
    <2>3. Prefixes(c) \subseteq Blocks
      BY <1>0 DEF BestAboveFinal, Blocks
    <2>4. Blocks' \subseteq Blocks
      BY <1>0, <2>2, <2>3 DEF Blocks, NetworkTypes
    <2> QED
      BY <1>1, <1>7, <2>4 DEF ImportBlocks
  <1>8. ASSUME NEW n \in Node, PurgeChain(n) PROVE Goal
    <2>1. <<>> \in Blocks
      <3>1. best[n] \in Chain /\ best[n] \in known[n]
        BY <1>0 DEF NetworkTypes, BestAboveFinal
      <3>2. <<>> \in Prefixes(best[n])
        BY <3>1, EmptyPrefix, PrefixesAre
      <3> QED
        BY <1>0, <3>1, <3>2 DEF BestAboveFinal, Blocks
    <2>2. Blocks' \subseteq Blocks
      BY <1>0, <1>8, <2>1 DEF PurgeChain, Blocks, NetworkTypes
    <2> QED
      BY <1>1, <1>8, <2>2 DEF PurgeChain
  <1>9. ASSUME NEW n \in Node, Revert(n) PROVE Goal
    <2>1. PICK c : known' = [known EXCEPT ![n] = {d \in @ : Len(d) <= Len(c)}]
      BY <1>9 DEF Revert
    <2>2. Blocks' \subseteq Blocks
      BY <1>0, <2>1 DEF Blocks, NetworkTypes
    <2> QED
      BY <1>1, <1>9, <2>2 DEF Revert
  <1> QED
    BY <1>2, <1>3, <1>4, <1>5, <1>6, <1>7, <1>8, <1>9, SlotsOfAuthor,
       SlotsOfTick DEF Next, Service, Command

LEMMA NumbersStep == ASSUME SlotsKept, [Next]_vars PROVE Numbers'
  <1>0. Numbers /\ NetworkTypes
    BY DEF SlotsKept
  <1>1. CASE UNCHANGED <<slot, round, votes, forgot>>
    BY <1>0, <1>1 DEF Numbers
  <1>2. CASE Tick
    BY <1>0, <1>2, BoundAssumption DEF Tick, databaseVars, Numbers
  <1>3. ASSUME NEW n \in Node, Vote(n) PROVE Numbers'
    <2>1. PICK head \in SelectChain(n) : \E c \in Prefixes(head) :
             votes' = votes \cup {[round |-> round[n], voter |-> n, chain |-> c]}
      BY <1>3 DEF Vote
    <2>2. PICK c \in Prefixes(head) :
             votes' = votes \cup {[round |-> round[n], voter |-> n, chain |-> c]}
      BY <2>1
    <2>3. c \in Blocks
      BY <1>0, SelectedIs DEF SlotsKept, BestAboveFinal, Blocks
    <2>4. IsChain(c)
      BY <2>3 DEF SlotsKept, BlocksInOrder
    <2>5. round[n] \in 1..MaxRound
      BY <1>0, <1>3, BoundAssumption DEF Vote, NetworkTypes
    <2> QED
      BY <1>0, <1>3, <2>2, <2>4, <2>5 DEF Vote, Numbers
  <1>4. ASSUME NEW n \in Node, NEW r \in 1..MaxRound, Conclude(n, r)
        PROVE  Numbers'
    BY <1>0, <1>4, BoundAssumption DEF Conclude, Numbers
  <1>5. ASSUME NEW n \in Node, ForgetVotes(n), UNCHANGED <<slot, votes>>
        PROVE  Numbers'
    <2>1. HasSigned(n) => n \in Voter
      BY <1>0 DEF HasSigned, NetworkTypes, SignedVote
    <2> QED
      BY <1>0, <1>5, <2>1, BoundAssumption DEF ForgetVotes, Numbers
  <1>6. ASSUME NEW n \in Node, PurgeChain(n) \/ Revert(n) PROVE Numbers'
    BY <1>5, <1>6 DEF PurgeChain, Revert
  <1>7. ASSUME NEW n \in Node,
               \/ Start(n) \/ Stop(n) \/ (\E tx \in Tx : Submit(n, tx))
               \/ Author(n) \/ (\E m \in Node \ {n} : Receive(n, m))
               \/ ImportBlocks(n)
        PROVE  Numbers'
    BY <1>1, <1>7 DEF Start, Stop, Submit, Author, Receive, Import,
                      ImportBlocks, databaseVars
  <1>8. CASE UNCHANGED vars
    BY <1>1, <1>8 DEF vars, databaseVars
  <1> QED
    BY <1>2, <1>3, <1>4, <1>6, <1>7, <1>8 DEF Next, Service, Command

LEMMA SlotsFirst == Init => SlotsKept
  <1> SUFFICES ASSUME Init PROVE SlotsKept
    OBVIOUS
  <1>1. Blocks \subseteq {<<>>} /\ slot = 0
    BY DEF Init, Blocks
  <1>2. SlotTaken /\ OneBlockPerSlot
    BY <1>1 DEF SlotTaken, OneBlockPerSlot, Blocks
  <1>3. BlocksInOrder
    BY <1>1, EmptyIsChain DEF BlocksInOrder
  <1>4. Numbers
    BY BoundAssumption DEF Init, Numbers
  <1> QED
    BY <1>2, <1>3, <1>4, TypesFirst, CoherenceFirst DEF SlotsKept

LEMMA SlotsAreKept == Spec => []SlotsKept
  <1>1. SlotsKept /\ [Next]_vars => SlotsKept'
    BY TypesKept, CoherenceStep, SlotsStep, NumbersStep DEF SlotsKept
  <1> QED
    BY <1>1, SlotsFirst, PTL DEF Spec

\* An author restarted, purged or reverted in its slot does not author in it
\* again.
THEOREM SlotsHaveOneBlock == Spec => []OneBlockPerSlot
  <1>1. SlotsKept => OneBlockPerSlot
    BY DEF SlotsKept
  <1> QED
    BY <1>1, SlotsAreKept, PTL

\* Every block held is of a chain with growing slots and no transaction twice.
THEOREM SolochainTypeCorrect == Spec => []SolochainTypeOK
  <1>1. ASSUME SlotsKept PROVE SolochainTypeOK
    <2>0. NetworkTypes /\ BestAboveFinal /\ BlocksInOrder /\ Numbers
      BY <1>1 DEF SlotsKept
    <2>1. ASSUME NEW n \in Node PROVE best[n] \in Blocks /\ final[n] \in Blocks
      <3>1. /\ best[n] \in Chain /\ final[n] \in Chain /\ best[n] \in known[n]
            /\ IsPrefix(final[n], best[n])
        BY <2>0 DEF NetworkTypes, BestAboveFinal
      <3>2. final[n] \in Prefixes(best[n])
        BY <3>1, PrefixesAre
      <3> QED
        BY <2>0, <3>1, <3>2 DEF BestAboveFinal, Blocks
    <2>2. \A n \in Node : \A c \in known[n] \cup {best[n], final[n]} :
             IsChain(c) /\ LastSlot(c) <= slot
      BY <2>0, <2>1 DEF BlocksInOrder, Blocks
    <2>3. \A v \in votes : /\ v.round \in 1..MaxRound /\ v.voter \in Voter
                           /\ IsChain(v.chain)
      BY <2>0 DEF Numbers, NetworkTypes, SignedVote
    <2> QED
      BY <2>0, <2>2, <2>3 DEF SolochainTypeOK, NetworkTypes, Numbers
  <1> QED
    BY <1>1, SlotsAreKept, PTL

=============================================================================
