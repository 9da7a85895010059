------------------------------- MODULE Runtime -------------------------------
(***************************************************************************)
(* The treasury as users reach it: through signed extrinsics of the        *)
(* runtime that runtime/src/lib.rs composes, with its TxExtension, its     *)
(* fees, its sudo key and the reaping of empty accounts.                   *)
(*                                                                         *)
(* frame_executive, frame_system, pallet_transaction_payment, pallet_sudo  *)
(* and pallet_balances are crates outside the repository; what is kept of  *)
(* them is what lib.rs, apis.rs and configs/mod.rs select.                 *)
(*                                                                         *)
(* Executive applies an extrinsic in phases, each on the storage the last  *)
(* one left: PreDispatch checks it, takes the fee and spends the nonce,    *)
(* Dispatch makes the call, PostDispatch pays back the fee of a sudo.      *)
(* Nothing else happens in between.  Whatever was signed may be submitted  *)
(* at any later time and any number of times, by anyone.                   *)
(*                                                                         *)
(* Weights, lengths and versions only delay or refuse an extrinsic and are *)
(* left out.  An extrinsic without a signature is refused: no pallet       *)
(* validates one.                                                          *)
(***************************************************************************)
EXTENDS Treasury, Genesis

CONSTANTS
    ChainId,       \* the chain, whose genesis names the sudo key
    Fee,           \* of any extrinsic
    EraPeriod,     \* blocks every extrinsic stays valid: at most BlockHashCount,
                   \* or, of immortal ones, more blocks than there are
    NoExtrinsic,   \* no extrinsic has been applied yet
    Wanted,        \* bound: what accounts sign, records [signer, call]
    MaxSigned      \* bound: extrinsics that are ever signed

\* The calls that the project's code makes or a user of the treasury needs.
PalletCall ==
    [name : {"create_proposal"}, duration : Duration,
     action : [from : Coin, to : Coin, amount : CoinAmount]]
    \cup [name : {"vote_proposal"}, id : ProposalId, vote : VoteKind]
    \cup [name : {"finalize_proposal"}, id : ProposalId]
    \cup [name : {"deposit", "withdraw"}, amount : Amount]
    \cup [name : {"seed_vault"}, coin : Coin, amount : CoinAmount]

UserCall ==
    PalletCall
    \cup [name : {"transfer_allow_death", "transfer_keep_alive"},
          dest : Account, value : Amount]
    \cup [name : {"remark"}]

\* What Root asks for: any call as any account, and the calls of the balances
\* that only Root may make.  Bound: not the calls of frame_system that write the
\* storage or the code itself (set_storage, kill_storage, kill_prefix, set_code),
\* which sudo admits as well (configs/mod.rs:155-159).  They may rewrite every
\* record, key and balance, and nothing below is promised once one was made.
PrivilegedCall ==
    UserCall
    \cup [name : {"sudo_as"}, who : Account, call : UserCall]
    \cup [name : {"force_transfer"},
          source : Account, dest : Account, value : Amount]
    \cup [name : {"force_unreserve", "force_set_balance"},
          who : Account, amount : Balance]

RuntimeCall == UserCall \cup [name : {"sudo"}, call : PrivilegedCall]
                        \cup [name : {"set_key"}, new : Account]

ASSUME RuntimeAssumption ==
    /\ LoadSpec(ChainId) \in PresetNames
    /\ GetPreset(LoadSpec(ChainId)).root \in Account
    /\ Fee \in Nat
    /\ EraPeriod \in Nat
    /\ Wanted \subseteq [signer : Account, call : RuntimeCall]

Extrinsic == [signer : Account, nonce : Nat, born : Block, call : RuntimeCall]

VARIABLES
    nonce,     \* frame_system: extrinsics of each account, in its present life
    key,       \* pallet_sudo: Key
    stage,     \* the phase that Executive is about to enter
    running,   \* the extrinsic being applied, or the last one
    signed,    \* every extrinsic that was ever signed
    life,      \* history: how often each account was reaped
    ran,       \* history: the extrinsics applied, when and in which life
    forced     \* history: the accounts whose reserve Root released

systemVars  == <<nonce, key>>
historyVars == <<life, ran, forced>>
runtimeVars == <<vars, systemVars, stage, running, signed, historyVars>>

\* pallet_balances holds a provider reference on an account, without which
\* frame_system forgets it, while its free balance is the existential deposit.
Alive(a) == free[a] >= ExistentialDeposit

-----------------------------------------------------------------------------
(* Mutants: definitions below as a slip would have left them.              *)

\* A TxExtension without CheckNonce.
ValidAnyNonce(x) ==
    /\ Alive(x.signer)
    /\ x.born < now /\ now < x.born + EraPeriod
    /\ free[x.signer] - Fee >= ExistentialDeposit

\* A fee that is taken whether or not the account can pay it.
ValidUnpaid(x) ==
    /\ Alive(x.signer)
    /\ x.nonce = nonce[x.signer]
    /\ x.born < now /\ now < x.born + EraPeriod

\* sudo open to every account.
MaySudoAnyone(who) == who \in Account

-----------------------------------------------------------------------------
(* Extrinsics.                                                             *)

\* The indices a node may name for an account's next extrinsic: it counts
\* those of the account's extrinsics that wait in its pool.
NextIndex(who) ==
    LET waiting == {x \in signed : x.signer = who /\ x.nonce >= nonce[who]}
    IN  nonce[who] .. nonce[who] + Cardinality(waiting)

\* TxExtension: CheckEra, CheckNonce and ChargeTransactionPayment, which
\* leaves the account its existential deposit.
Valid(x) ==
    /\ Alive(x.signer)
    /\ x.nonce = nonce[x.signer]
    /\ x.born < now /\ now < x.born + EraPeriod
    /\ free[x.signer] - Fee >= ExistentialDeposit

\* A call from a signed origin.
SignedCall(who, c) ==
    \/ c.name = "create_proposal" /\ CreateProposal(who, c.duration, c.action)
    \/ c.name = "vote_proposal" /\ VoteProposal(who, c.id, c.vote)
    \/ c.name = "finalize_proposal" /\ FinalizeProposal(c.id)
    \/ c.name = "deposit" /\ Deposit(who, c.amount)
    \/ c.name = "withdraw" /\ Withdraw(who, c.amount)
    \/ c.name = "seed_vault" /\ SeedVault(c.coin, c.amount)
    \/ c.name = "transfer_allow_death" /\ Transfer(who, c.dest, c.value)
    \/ /\ c.name = "transfer_keep_alive"
       /\ free[who] - c.value >= ExistentialDeposit
       /\ Transfer(who, c.dest, c.value)
    \/ c.name = "remark" /\ UNCHANGED vars

\* Balances: two calls of Root that reach past the treasury.  A balance below
\* the existential deposit is none, and none is refused to an account with a
\* reserve.
ForceUnreserve(who, amount) ==
    /\ free' = [free EXCEPT
                   ![who] = SaturatingAdd(@, Unreserved(who, amount), MaxBalance)]
    /\ reserved' = [reserved EXCEPT ![who] = @ - Unreserved(who, amount)]
    /\ UNCHANGED <<now, proposalVars, stakeVars, rewardVars>>

ForceSetBalance(who, amount) ==
    /\ amount >= ExistentialDeposit \/ reserved[who] = 0
    /\ free' = [free EXCEPT
                   ![who] = IF amount >= ExistentialDeposit THEN amount ELSE 0]
    /\ UNCHANGED <<now, reserved, proposalVars, stakeVars, rewardVars>>

RootCall(c) ==
    \/ c.name = "sudo_as" /\ SignedCall(c.who, c.call)
    \/ c.name = "force_transfer" /\ Transfer(c.source, c.dest, c.value)
    \/ c.name = "force_unreserve" /\ ForceUnreserve(c.who, c.amount)
    \/ c.name = "force_set_balance" /\ ForceSetBalance(c.who, c.amount)
    \/ c.name = "seed_vault" /\ SeedVault(c.coin, c.amount)

MaySudo(who) == who = key

-----------------------------------------------------------------------------
RuntimeInit ==
    /\ Init
    /\ nonce = [a \in Account |-> 0]
    /\ key = GetPreset(LoadSpec(ChainId)).root
    /\ stage = "idle"
    /\ running = NoExtrinsic
    /\ signed = {}
    /\ life = [a \in Account |-> 0]
    /\ ran = {}
    /\ forced = {}

\* What has no provider is forgotten, its nonce with it.
Reap ==
    /\ nonce' = [a \in Account |-> IF Alive(a)' THEN nonce[a] ELSE 0]
    /\ life' = [a \in Account |->
                   IF Alive(a) /\ ~Alive(a)' THEN life[a] + 1 ELSE life[a]]

\* A wallet signs on top of the best block, for a period from then on.  One
\* that never ends is a period longer than the chain.
Sign(w) ==
    /\ stage = "idle"
    /\ Cardinality(signed) < MaxSigned
    /\ \E n \in NextIndex(w.signer) :
          signed' = signed \cup {[signer |-> w.signer, nonce |-> n,
                                  born |-> now - 1, call |-> w.call]}
    /\ UNCHANGED <<vars, systemVars, stage, running, historyVars>>

PreDispatch(x) ==
    /\ stage = "idle"
    /\ Valid(x)
    /\ free' = [free EXCEPT ![x.signer] = @ - Fee]
    /\ nonce' = [nonce EXCEPT ![x.signer] = @ + 1]
    /\ ran' = ran \cup {[x |-> x, block |-> now, life |-> life[x.signer]]}
    /\ running' = x
    /\ stage' = "dispatch"
    /\ UNCHANGED <<now, reserved, proposalVars, stakeVars, rewardVars, key,
                   signed, life, forced>>

\* A call that returns an error has cost its fee and its nonce.
Dispatch(who, c) ==
    /\ stage = "dispatch" /\ c.name \notin {"sudo", "set_key"}
    /\ \/ SignedCall(who, c)
       \/ ~ENABLED SignedCall(who, c) /\ UNCHANGED vars
    /\ Reap
    /\ stage' = "idle"
    /\ UNCHANGED <<key, running, signed, ran, forced>>

\* sudo succeeds, and is free, even when the call it makes fails.
Sudo(who, c) ==
    /\ stage = "dispatch" /\ c.name = "sudo"
    /\ MaySudo(who)
    /\ \/ RootCall(c.call)
       \/ ~ENABLED RootCall(c.call) /\ UNCHANGED vars
    /\ Reap
    /\ stage' = "refund"
    /\ forced' = forced \cup {a \in Account : /\ c.call.name = "force_unreserve"
                                              /\ reserved'[a] # reserved[a]}
    /\ UNCHANGED <<key, running, signed, ran>>

SetKey(who, c) ==
    /\ stage = "dispatch" /\ c.name = "set_key"
    /\ MaySudo(who)
    /\ key' = c.new
    /\ stage' = "refund"
    /\ UNCHANGED <<vars, nonce, running, signed, historyVars>>

RequireSudo(who, c) ==
    /\ stage = "dispatch" /\ c.name \in {"sudo", "set_key"}
    /\ ~MaySudo(who)
    /\ stage' = "idle"
    /\ UNCHANGED <<vars, systemVars, running, signed, historyVars>>

\* The fee goes back, unless the account is gone.
PostDispatch(who) ==
    /\ stage = "refund"
    /\ free' = [free EXCEPT ![who] =
                   IF @ + reserved[who] = 0 THEN 0
                   ELSE SaturatingAdd(@, Fee, MaxBalance)]
    /\ stage' = "idle"
    /\ UNCHANGED <<now, reserved, proposalVars, stakeVars, rewardVars,
                   systemVars, running, signed, historyVars>>

BuildBlock ==
    /\ stage = "idle"
    /\ NextBlock
    /\ UNCHANGED <<systemVars, stage, running, signed, historyVars>>

Apply(x) ==
    \/ Dispatch(x.signer, x.call)
    \/ Sudo(x.signer, x.call)
    \/ SetKey(x.signer, x.call)
    \/ RequireSudo(x.signer, x.call)
    \/ PostDispatch(x.signer)

RuntimeNext ==
    \/ BuildBlock
    \/ \E w \in Wanted : Sign(w)
    \/ \E x \in signed : PreDispatch(x)
    \/ stage # "idle" /\ Apply(running)

RuntimeSpec == RuntimeInit /\ [][RuntimeNext]_runtimeVars

-----------------------------------------------------------------------------
(* Safety.                                                                 *)

\* Taking fees never overdraws an account, and a nonce is that of an account
\* that exists.
RuntimeTypeOK ==
    /\ TypeOK /\ now > 0
    /\ nonce \in [Account -> Nat]
    /\ \A a \in Account : nonce[a] > 0 => Alive(a)
    /\ stage \in {"idle", "dispatch", "refund"}
    /\ running \in signed \cup {NoExtrinsic}
    /\ stage # "idle" => running \in signed
    /\ signed \subseteq Extrinsic
    /\ key \in Account
    /\ life \in [Account -> Nat]
    /\ forced \subseteq Account

\* Root may release an account's reserve behind the treasury's back
\* (force_unreserve): withdraw then pays less than it records.  The damage
\* stays with that account: every other stake is backed to the unit, and no
\* reserve exceeds its stake, whichever of the calls above Root makes.
StakeCovered ==
    \A a \in Account :
        /\ reserved[a] <= deposits[a]
        /\ a \notin forced => reserved[a] = deposits[a]

\* Neither fees, transfers nor balances that Root sets reap an account with a
\* recorded stake, unless Root has released its reserve before.  Then they may,
\* and the stake stays recorded under an account that is gone.
StakersStayAlive ==
    \A a \in Account : deposits[a] > 0 /\ a \notin forced => Alive(a)

-----------------------------------------------------------------------------
(* What a step may never do.                                               *)

\* An extrinsic is applied once, however often it is submitted.  The one way
\* to a second time is that its signer was reaped in between, which resets
\* the nonce; and then it must come within one era of the first.
AppliedAgain(x) ==
    \A r \in ran : r.x = x => /\ r.life < life[x.signer]
                              /\ now < r.block + EraPeriod

AppliedOnce ==
    [][stage = "idle" /\ stage' = "dispatch" => AppliedAgain(running')]_runtimeVars

\* Nobody's money, stake or vote moves without an extrinsic of theirs that is
\* being applied, save by a call above of the holder of the sudo key.
Acting(a) ==
    \/ stage = "idle" /\ stage' = "dispatch" /\ running'.signer = a
    \/ stage = "dispatch" /\ running.signer \in {a, key}

Touched(a) ==
    \/ free'[a] < free[a]
    \/ <<reserved'[a], deposits'[a]>> # <<reserved[a], deposits[a]>>
    \/ \E id \in ProposalId : a \in hasVoted'[id] \ hasVoted[id]

SignedFor == [][\A a \in Account : Touched(a) => Acting(a)]_runtimeVars

=============================================================================
