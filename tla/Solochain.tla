------------------------------ MODULE Solochain ------------------------------
(***************************************************************************)
(* The network of nodes that node/src/service.rs starts and                *)
(* node/src/command.rs operates, on a chain of runtime/src/configs/mod.rs: *)
(* Aura authors blocks in slots, the longest chain is followed, GRANDPA    *)
(* makes blocks final, and the transaction pool feeds the authors.         *)
(*                                                                         *)
(* Aura, GRANDPA, the client and the pool are crates outside the           *)
(* repository.  What is kept of them is what service.rs chooses: which     *)
(* task runs on which role, what each is given, and what a failure does.   *)
(*                                                                         *)
(* A block is the chain that ends in it, a sequence of slots and bodies;   *)
(* the genesis block is the empty chain.  An author is not recorded: the   *)
(* slot gives it.  Messages are read from where their sender keeps them,   *)
(* late, in any order, repeatedly or never.                                *)
(***************************************************************************)
EXTENDS Genesis, Integers, FiniteSets, SequencesExt

CONSTANTS
    ChainId,          \* the --chain argument
    Node,             \* the nodes; an authority's is named for its key
    Validator,        \* those that run in the authority role
    ForceAuthoring,   \* those that run with --force-authoring
    DisableGrandpa,   \* those that run with --no-grandpa
    MayStop,          \* bound: those that may go down
    Operated,         \* bound: those whose operator uses the commands
    Tx,               \* signed transactions, each valid once on a chain
    Entry,            \* bound: those whose pool transactions reach on their own
    MaxSlot,          \* bound: slots
    MaxRound          \* bound: GRANDPA rounds

Authority == GetPreset(LoadSpec(ChainId)).authorities
Voter     == ToSet(Authority)

\* With up to three authorities of weight one, a supermajority is all of them.
ASSUME PresetAssumption ==
    /\ LoadSpec(ChainId) \in PresetNames
    /\ Voter \subseteq Node
    /\ Cardinality(Voter) <= 3

ASSUME BoundAssumption == MaxSlot \in Nat /\ MaxRound \in Nat

VARIABLES
    slot,     \* the slot of the wall clock
    up,       \* whether the service runs
    worked,   \* whether its Aura worker has had its turn in this slot
    pool,     \* its transaction pool
    known,    \* its database: the blocks it imported
    best,     \* its database: the best block
    final,    \* its database: the last final block
    round,    \* its database: the GRANDPA round it is in
    voted,    \* its database: whether it voted in that round
    votes,    \* every vote that was ever signed
    forgot    \* history: the voters whose database forgot a vote of theirs

databaseVars == <<known, best, final, round, voted>>
vars == <<slot, up, worked, pool, databaseVars, votes, forgot>>

-----------------------------------------------------------------------------
(* Mutants: definitions below as a slip would have left them.              *)

\* A slot rounded up from the clock.
NewBlockAhead(parent, body) == Append(parent, [slot |-> slot + 1, body |-> body])

\* A round decided by the vote of anybody.
BallotsOfAny(r) ==
    {[a \in ToSet(Authority) |-> v.chain] : v \in {w \in votes : w.round = r}}

\* A worker that takes the slot it was started in for a new one.
StartUnaware(n) ==
    /\ ~up[n]
    /\ up' = [up EXCEPT ![n] = TRUE]
    /\ worked' = [worked EXCEPT ![n] = FALSE]
    /\ UNCHANGED <<slot, pool, databaseVars, votes, forgot>>

\* Blocks taken without their parents.
ImportableAlone(n, c) == c \notin known[n] /\ IsPrefix(final[n], c)

\* A GRANDPA task started for authorities only.
RunsVoterOfAuthority(n) == n \in Validator \ DisableGrandpa

-----------------------------------------------------------------------------
(* Chains.                                                                 *)

LastSlot(c) == IF c = <<>> THEN 0 ELSE Last(c).slot

Included(c) == UNION {c[i].body : i \in DOMAIN c}

IsChain(c) ==
    /\ c \in Seq([slot : 1..MaxSlot, body : SUBSET Tx])
    /\ \A i, j \in DOMAIN c :
          i < j => c[i].slot < c[j].slot /\ c[i].body \cap c[j].body = {}

Comparable(c, d) == IsPrefix(c, d) \/ IsPrefix(d, c)

\* Aura: the authorities take turns, slot by slot.
AuthorOf(s) == Authority[(s % Len(Authority)) + 1]

\* pallet_aura with AllowMultipleBlocksPerSlot = false.
SlotFree(c, s) == LastSlot(c) < s

\* The slot of a block is that of the author's clock.
NewBlock(parent, body) == Append(parent, [slot |-> slot, body |-> body])

\* LongestChain: a longest chain on top of the best block.
SelectChain(n) ==
    LET on == {c \in known[n] : IsPrefix(best[n], c)}
    IN  {c \in on : \A d \in on : Len(d) <= Len(c)}

\* The client's fork choice: a longer chain, never one merely as long.
ForkChoice(old, new) == IF Len(new) > Len(old) THEN new ELSE old

\* The pool on a change of the best block: transactions of retracted blocks
\* come back, those of the new chain leave.
Maintained(p, old, new) == (p \cup Included(old)) \ Included(new)

-----------------------------------------------------------------------------
(* Votes.                                                                  *)

InRound(r) == {v \in votes : v.round = r}

\* The ways to pick one vote of every voter in a round: one, unless somebody
\* voted twice; none while a vote is missing.
Ballots(r) == {f \in [Voter -> {v.chain : v \in InRound(r)}] :
                  \A a \in Voter : [round |-> r, voter |-> a, chain |-> f[a]]
                                      \in votes}

\* GRANDPA makes the last block final that all votes of a round are on.
Decision(f) == LongestCommonPrefix({f[a] : a \in Voter})

\* Every node runs the GRANDPA task, unless it is told not to; only one that
\* has a key, an authority, can vote in it.
RunsVoter(n) == n \notin DisableGrandpa

MayVote(n) == RunsVoter(n) /\ n \in Voter \cap Validator

HasSigned(n) == \E v \in votes : v.voter = n

-----------------------------------------------------------------------------
Init ==
    /\ slot = 0
    /\ up = [n \in Node |-> FALSE]
    /\ worked = [n \in Node |-> FALSE]
    /\ pool = [n \in Node |-> {}]
    /\ known = [n \in Node |-> {<<>>}]
    /\ best = [n \in Node |-> <<>>]
    /\ final = [n \in Node |-> <<>>]
    /\ round = [n \in Node |-> 1]
    /\ voted = [n \in Node |-> FALSE]
    /\ votes = {}
    /\ forgot = {}

\* The wall clock enters the next slot.
Tick ==
    /\ slot < MaxSlot
    /\ slot' = slot + 1
    /\ worked' = [n \in Node |-> FALSE]
    /\ UNCHANGED <<up, pool, databaseVars, votes, forgot>>

\* Mutant: a service started on an empty database, as with --tmp.
StartAnew(n) ==
    /\ ~up[n]
    /\ up' = [up EXCEPT ![n] = TRUE]
    /\ worked' = [worked EXCEPT ![n] = (AuthorOf(slot) = n)]
    /\ known' = [known EXCEPT ![n] = {<<>>}]
    /\ best' = [best EXCEPT ![n] = <<>>]
    /\ final' = [final EXCEPT ![n] = <<>>]
    /\ round' = [round EXCEPT ![n] = 1]
    /\ voted' = [voted EXCEPT ![n] = FALSE]
    /\ UNCHANGED <<slot, pool, votes, forgot>>

\* new_full: the database is opened as it was left, the pool is empty, and
\* the Aura worker begins with the next slot: a turn in this one is lost.
Start(n) ==
    /\ ~up[n]
    /\ up' = [up EXCEPT ![n] = TRUE]
    /\ worked' = [worked EXCEPT ![n] = (AuthorOf(slot) = n)]
    /\ UNCHANGED <<slot, pool, databaseVars, votes, forgot>>

\* The node crashes, is stopped, or one of its essential tasks ends: the
\* pool, the import queue, Aura or the GRANDPA voter.
Stop(n) ==
    /\ up[n] /\ n \in MayStop
    /\ up' = [up EXCEPT ![n] = FALSE]
    /\ pool' = [pool EXCEPT ![n] = {}]
    /\ UNCHANGED <<slot, worked, databaseVars, votes, forgot>>

\* A transaction reaches a node's pool, by RPC or from a peer.
Submit(n, tx) ==
    /\ up[n] /\ n \in Entry
    /\ tx \notin Included(best[n])
    /\ pool' = [pool EXCEPT ![n] = @ \cup {tx}]
    /\ UNCHANGED <<slot, up, worked, databaseVars, votes, forgot>>

\* A block enters the database of a node.
Import(n, c) ==
    /\ known' = [known EXCEPT ![n] = @ \cup {c}]
    /\ best' = [best EXCEPT ![n] = ForkChoice(@, c)]
    /\ pool' = [pool EXCEPT ![n] = Maintained(@, best[n], ForkChoice(best[n], c))]
    /\ UNCHANGED <<slot, up, final, round, voted, votes, forgot>>

\* The Aura worker of an authority whose turn it is.  It waits for peers
\* unless it is forced not to or is the only authority.  The proposer puts
\* in what the pool offers and the deadline allows.
Author(n) ==
    /\ up[n] /\ n \in Validator
    /\ slot > 0 /\ AuthorOf(slot) = n
    /\ ~worked[n]
    /\ \/ n \in ForceAuthoring
       \/ Len(Authority) = 1
       \/ \E m \in Node \ {n} : up[m]
    /\ \E parent \in SelectChain(n), body \in SUBSET pool[n] :
          /\ SlotFree(parent, slot)
          /\ body \cap Included(parent) = {}
          /\ Import(n, NewBlock(parent, body))
    /\ worked' = [worked EXCEPT ![n] = TRUE]

\* A node hears of a block of a peer.  It needs the block's parent first and
\* refuses what is not on top of its last final block.
Importable(n, c) ==
    /\ c \notin known[n]
    /\ Front(c) \in known[n]
    /\ IsPrefix(final[n], c)

Receive(n, m) ==
    /\ up[n] /\ up[m]
    /\ \E c \in known[m] : Importable(n, c) /\ Import(n, c)
    /\ UNCHANGED worked

\* The GRANDPA voter votes once in a round, for a block of the chain it
\* would author on, not below its last final block.  How far below the best
\* block is for the default voting rules to say.
Vote(n) ==
    /\ up[n] /\ MayVote(n)
    /\ round[n] <= MaxRound /\ ~voted[n]
    /\ \E head \in SelectChain(n) : \E c \in Prefixes(head) :
          /\ IsPrefix(final[n], c)
          /\ votes' = votes \cup {[round |-> round[n], voter |-> n, chain |-> c]}
    /\ voted' = [voted EXCEPT ![n] = TRUE]
    /\ UNCHANGED <<slot, up, worked, pool, known, best, final, round, forgot>>

\* The voter, which a node without a key runs too, sees a round's votes, makes
\* their decision final and goes on to the next round.  A final block off the
\* best chain becomes the best block; what is off the final chain is dropped.
Conclude(n, r) ==
    /\ up[n] /\ RunsVoter(n)
    /\ round[n] <= r
    /\ \E f \in Ballots(r) :
          LET c   == Decision(f)
              top == IF IsPrefix(c, best[n]) THEN best[n] ELSE c
          IN  /\ c \in known[n]
              /\ IsPrefix(final[n], c)
              /\ final' = [final EXCEPT ![n] = c]
              /\ best' = [best EXCEPT ![n] = top]
              /\ known' = [known EXCEPT ![n] = {d \in @ : Comparable(c, d)}]
              /\ pool' = [pool EXCEPT ![n] = Maintained(@, best[n], top)]
    /\ round' = [round EXCEPT ![n] = r + 1]
    /\ voted' = [voted EXCEPT ![n] = FALSE]
    /\ UNCHANGED <<slot, up, worked, votes, forgot>>

-----------------------------------------------------------------------------
(* The commands of command.rs that change a database or read all of it.    *)
(* A database is locked by the process that has it open: the service must  *)
(* be down.  The bound: a voter's database forgets its votes at most once. *)

\* Through the import queue, block by block and perhaps interrupted, from a
\* file that export-blocks wrote of some node's database.
ImportBlocks(n) ==
    /\ ~up[n] /\ n \in Operated
    /\ \E m \in Node \ {n} : \E c \in known[m] \ known[n] :
          /\ Comparable(final[n], c)
          /\ known' = [known EXCEPT ![n] = @ \cup Prefixes(c)]
          /\ best' = [best EXCEPT ![n] = ForkChoice(@, c)]
    /\ UNCHANGED <<slot, up, worked, pool, final, round, voted, votes, forgot>>

\* The voter starts over, in the first round.
ForgetVotes(n) ==
    /\ n \notin forgot
    /\ round' = [round EXCEPT ![n] = 1]
    /\ voted' = [voted EXCEPT ![n] = FALSE]
    /\ forgot' = IF HasSigned(n) THEN forgot \cup {n} ELSE forgot

PurgeChain(n) ==
    /\ ~up[n] /\ n \in Operated
    /\ known' = [known EXCEPT ![n] = {<<>>}]
    /\ best' = [best EXCEPT ![n] = <<>>]
    /\ final' = [final EXCEPT ![n] = <<>>]
    /\ ForgetVotes(n)
    /\ UNCHANGED <<slot, up, worked, pool, votes>>

\* Down to the last final block at most; then grandpa::revert resets the
\* voter's state.
Revert(n) ==
    /\ ~up[n] /\ n \in Operated
    /\ \E c \in Prefixes(best[n]) \ {best[n]} :
          /\ IsPrefix(final[n], c)
          /\ best' = [best EXCEPT ![n] = c]
          /\ known' = [known EXCEPT ![n] = {d \in @ : Len(d) <= Len(c)}]
    /\ ForgetVotes(n)
    /\ UNCHANGED <<slot, up, worked, pool, final, votes>>

-----------------------------------------------------------------------------
Service(n) ==
    \/ Start(n) \/ Stop(n)
    \/ \E tx \in Tx : Submit(n, tx)
    \/ Author(n)
    \/ \E m \in Node \ {n} : Receive(n, m)
    \/ Vote(n)
    \/ \E r \in 1..MaxRound : Conclude(n, r)

Command(n) == ImportBlocks(n) \/ PurgeChain(n) \/ Revert(n)

Next == Tick \/ \E n \in Node : Service(n) \/ Command(n)

Spec == Init /\ [][Next]_vars

\* Peers keep sending blocks, and the voter, an essential task, keeps going:
\* a node in which it does not is down.
FairSpec ==
    /\ Spec
    /\ \A n \in Node :
          /\ WF_vars(\E m \in Node \ {n} : Receive(n, m))
          /\ WF_vars(\E r \in 1..MaxRound : Conclude(n, r))

-----------------------------------------------------------------------------
(* Safety.                                                                 *)

\* On every block a node holds the slots increase, none is of the future, no
\* transaction is included twice, and votes are for such blocks.
SolochainTypeOK ==
    /\ slot \in 0..MaxSlot
    /\ up \in [Node -> BOOLEAN]
    /\ worked \in [Node -> BOOLEAN]
    /\ pool \in [Node -> SUBSET Tx]
    /\ \A n \in Node : \A c \in known[n] \cup {best[n], final[n]} :
          IsChain(c) /\ LastSlot(c) <= slot
    /\ round \in [Node -> 1..MaxRound + 1]
    /\ voted \in [Node -> BOOLEAN]
    /\ \A v \in votes : /\ v.round \in 1..MaxRound
                        /\ v.voter \in Voter
                        /\ IsChain(v.chain)
    /\ forgot \subseteq Voter

\* Whatever was late, lost, forked, stopped, exported and imported again: no
\* two nodes hold final blocks of different chains.  This is as long as no
\* voter's database forgot a vote: purge-chain and revert make a voter vote
\* in old rounds again, nothing prevents or punishes it (the equivocation
\* reports of apis.rs:125 do nothing), and agreement is not promised then.
FinalityAgrees ==
    forgot = {} => \A m, n \in Node : Comparable(final[m], final[n])

\* A database is coherent through forks, reverts, imports and restarts: the
\* best block is on top of the last final one, and every block held has its
\* ancestors held.
BestAboveFinal ==
    \A n \in Node :
        /\ IsPrefix(final[n], best[n])
        /\ best[n] \in known[n]
        /\ \A c \in known[n] : Prefixes(c) \subseteq known[n]

\* A slot yields at most one block, anywhere in the network: an author that
\* is restarted, reverted or purged in its slot does not author in it again.
OneBlockPerSlot ==
    LET blocks == UNION {known[n] : n \in Node}
    IN  \A c, d \in blocks \ {<<>>} : Last(c).slot = Last(d).slot => c = d

-----------------------------------------------------------------------------
(* What must come.                                                         *)

\* No node that stays up stays behind what is final on another that does for
\* good, wherever it was when it was started, on whatever fork.
Behind(m, n) ==
    /\ up[m] /\ up[n]
    /\ m \notin DisableGrandpa
    /\ forgot = {}
    /\ Len(final[m]) < Len(final[n])

FinalityCatchesUp == \A m \in Node : []<>~(\E n \in Node : Behind(m, n))

=============================================================================
