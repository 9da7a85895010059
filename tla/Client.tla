-------------------------------- MODULE Client --------------------------------
(***************************************************************************)
(* One browser tab of the frontend beside the treasury: the proposal page  *)
(* (frontend/src/components/Proposal.tsx), the form that creates one       *)
(* (create-proposal.tsx) and the deposit dialog (navbar.tsx,               *)
(* stake-pop-up.tsx).  "list" stands for every page that sends nothing.    *)
(*                                                                         *)
(* The three send their transactions in the same way: a handler awaits the *)
(* wallet and a connection, signs and submits, and from then on a callback *)
(* hears of the transaction's statuses.  The handler and the callback are  *)
(* never cancelled by leaving the page, only by reloading it or when the   *)
(* connection closes; nothing unsubscribes, so the callback hears of every *)
(* block the transaction is put into, of one that is retracted too, and    *)
(* once more when the last of them is final.                               *)
(*                                                                         *)
(* Around the tab the chain goes on: blocks, and calls of every account.   *)
(* The treasury's variables are the chain of the blocks that stay.  A      *)
(* block that does not is here only for what the callback hears of it; the *)
(* bounds on it are that such a block runs the tab's transaction on the    *)
(* state of the blocks that stay, and that no page is loaded from it.      *)
(***************************************************************************)
EXTENDS Treasury, Sequences

CONSTANTS
    Me,            \* the wallet's first account, with which the tab signs
    MaxTx,         \* bound: how many transactions the tab ever sends
    MaxRetracted,  \* bound: from how many blocks each of them is retracted
    Kinds,         \* bound: of which kinds they are
    Shown,         \* bound: the proposals whose pages it opens
    Horizon        \* bound: the last block in which anything happens

ASSUME ClientAssumption ==
    /\ Me \in Account /\ MaxTx \in Nat /\ MaxRetracted \in Nat
    /\ Shown \subseteq ProposalId
    /\ Horizon \in 1..MaxBlock

Call ==
         [kind : {"vote"}, id : ProposalId, vote : VoteKind]
    \cup [kind : {"finalize"}, id : ProposalId]
    \cup [kind : {"create"}, duration : Duration,
           action : [from : Coin, to : Coin, amount : CoinAmount]]
    \cup [kind : {"deposit"}, amount : Amount]

\* What a block makes of a transaction: without, or with a dispatch error.
Outcome == {"executed", "failed"}

\* signing: the handler runs; unsent: it never reached the node; pool: the node
\* has it; executed, failed: it is in a block that stays; lost: dropped, invalid,
\* usurped or out of date.
Stage == {"signing", "unsent", "pool", "lost"} \cup Outcome

Transaction ==
    [call      : Call,
     stage     : Stage,
     live      : BOOLEAN,        \* its handler, or callback, still runs
     mounted   : BOOLEAN,        \* the page that sent it is still there
     retracted : Nat,            \* how many blocks with it did not stay
     reports   : Seq(Outcome),   \* blocks the callback is still to hear of
     told      : SUBSET {"success", "error"}]   \* messages shown for it

VARIABLES
    page,         \* the route
    id,           \* the proposal page's parameter
    fetching,     \* the page's effect is loading that proposal
    loading,      \* state: the page shows "Loading..."
    data,         \* state: the record shown, NoProposal if none
    dataId,       \* the id that record was loaded for
    voting,       \* state: the vote button waits
    submitting,   \* state: the form's button waits
    dialog,       \* the deposit dialog: closed, open, or waiting
    txs           \* the transactions the tab has sent, oldest first

proposalPage == <<id, fetching, loading, data, dataId, voting>>
tabVars == <<page, proposalPage, submitting, dialog>>
clientVars == <<vars, tabVars, txs>>

ClientTypeOK ==
    /\ TypeOK
    /\ page \in {"list", "create", "proposal"}
    /\ id \in ProposalId
    /\ data \in Proposal \cup {NoProposal}
    /\ dataId \in ProposalId
    /\ {fetching, loading, voting, submitting} \subseteq BOOLEAN
    /\ loading => fetching
    /\ dialog \in {"closed", "open", "waiting"}
    /\ txs \in Seq(Transaction) /\ Len(txs) <= MaxTx

ClientInit ==
    /\ Init
    /\ page = "list"
    /\ id = 0
    /\ fetching = FALSE
    /\ loading = FALSE
    /\ data = NoProposal
    /\ dataId = 0
    /\ voting = FALSE
    /\ submitting = FALSE
    /\ dialog = "closed"
    /\ txs = << >>

-----------------------------------------------------------------------------
(* Pages.                                                                  *)

\* A page that has just been mounted, with the initial values of its state.
Mount(p, i) ==
    /\ page' = p
    /\ id' = i
    /\ fetching' = (p = "proposal")
    /\ loading' = (p = "proposal")
    /\ data' = NoProposal
    /\ dataId' = 0
    /\ voting' = FALSE
    /\ submitting' = FALSE

Unmounted(t) == [t EXCEPT !.mounted = FALSE]

Reloaded(t) ==
    [t EXCEPT !.live = FALSE, !.mounted = FALSE, !.reports = << >>,
              !.stage = IF @ = "signing" THEN "unsent" ELSE @]

\* Another page replaces this one.
Open(p, i) ==
    /\ p # page
    /\ Mount(p, i)
    /\ txs' = [n \in DOMAIN txs |-> Unmounted(txs[n])]
    /\ UNCHANGED <<vars, dialog>>

\* From one proposal straight to another, through the browser's history: the
\* component stays, and with it its state; only the effect runs again.  The
\* old run's connection is closed under it, which may end "Loading...".
Jump(i) ==
    /\ page = "proposal" /\ i # id
    /\ id' = i
    /\ fetching' = TRUE
    /\ \/ loading' = loading
       \/ fetching /\ loading' = FALSE
    /\ UNCHANGED <<vars, page, data, dataId, voting, submitting, dialog, txs>>

Reload ==
    /\ Mount(page, id)
    /\ dialog' = "closed"
    /\ txs' = [n \in DOMAIN txs |-> Reloaded(txs[n])]
    /\ UNCHANGED vars

\* Mutant: a return for a missing proposal that leaves "Loading..." on.
LoadLoading ==
    /\ fetching
    /\ fetching' = FALSE
    /\ \/ /\ Exists(id)
          /\ data' = proposals[id]
          /\ dataId' = id
          /\ loading' = FALSE
       \/ UNCHANGED <<loading, data, dataId>>
    /\ UNCHANGED <<vars, page, id, voting, submitting, dialog, txs>>

\* The effect's query is answered.  If there is no such proposal, or no
\* answer, what was shown before is left as it is.
Load ==
    /\ fetching
    /\ fetching' = FALSE
    /\ loading' = FALSE
    /\ \/ /\ Exists(id)
          /\ data' = proposals[id]
          /\ dataId' = id
       \/ UNCHANGED <<data, dataId>>
    /\ UNCHANGED <<vars, page, id, voting, submitting, dialog, txs>>

-----------------------------------------------------------------------------
(* Handlers.                                                               *)

Send(call) ==
    /\ Len(txs) < MaxTx
    /\ call.kind \in Kinds
    /\ txs' = Append(txs, [call |-> call, stage |-> "signing", live |-> TRUE,
                           mounted |-> TRUE, retracted |-> 0, reports |-> << >>,
                           told |-> {}])

\* The buttons are offered by the record shown, whatever became of it since.
ShowsActive ==
    /\ page = "proposal"
    /\ ~loading /\ data # NoProposal
    /\ data.status = "Active"

\* Mutant: without setVoting(true).
HandleVoteUnheld(vote) ==
    /\ ShowsActive
    /\ ~voting
    /\ Send([kind |-> "vote", id |-> id, vote |-> vote])
    /\ UNCHANGED <<vars, tabVars>>

HandleVote(vote) ==
    /\ ShowsActive
    /\ ~voting
    /\ voting' = TRUE
    /\ Send([kind |-> "vote", id |-> id, vote |-> vote])
    /\ UNCHANGED <<vars, page, id, fetching, loading, data, dataId, submitting,
                   dialog>>

\* Nothing holds this button while a decision is on its way.
HandleFinalize ==
    /\ ShowsActive
    /\ Send([kind |-> "finalize", id |-> id])
    /\ UNCHANGED <<vars, tabVars>>

\* The form repeats the pallet's bounds on the duration.  It refuses an empty
\* swap and one of a coin with itself, as the pallet does not.
Fillable(duration, action) ==
    /\ duration \in MinProposalDuration..MaxProposalDuration
    /\ action.from # action.to
    /\ action.amount >= 1

HandleSubmit(duration, action) ==
    /\ page = "create"
    /\ ~submitting
    /\ Fillable(duration, action)
    /\ submitting' = TRUE
    /\ Send([kind |-> "create", duration |-> duration, action |-> action])
    /\ UNCHANGED <<vars, page, proposalPage, dialog>>

\* Bound: a dialog in which nothing can be confirmed any more is only opened
\* while a deposit that will close it is being signed.
Useful ==
    \/ Len(txs) < MaxTx
    \/ \E n \in DOMAIN txs :
          txs[n].call.kind = "deposit" /\ txs[n].live /\ txs[n].stage = "signing"

OpenDialog ==
    /\ "deposit" \in Kinds /\ Useful
    /\ dialog = "closed" /\ dialog' = "open"
    /\ UNCHANGED <<vars, page, proposalPage, submitting, txs>>

CloseDialog ==
    /\ dialog # "closed" /\ dialog' = "closed"
    /\ UNCHANGED <<vars, page, proposalPage, submitting, txs>>

\* The dialog wants a positive amount, and holds its button once confirmed.
Confirmable(amount) == dialog = "open" /\ amount > 0

OnConfirm(amount) ==
    /\ Confirmable(amount)
    /\ dialog' = "waiting"
    /\ Send([kind |-> "deposit", amount |-> amount])
    /\ UNCHANGED <<vars, page, proposalPage, submitting>>

\* What of the page's own state a call's end releases, if the page that sent
\* it is still mounted.
Releases(t, kind, flag) == flag /\ ~(t.mounted /\ t.call.kind = kind)

\* The deposit handler ends by closing the dialog: whichever is open by then.
Closes(t) == IF t.call.kind = "deposit" THEN "closed" ELSE dialog

\* The handler throws.  Usually the node has nothing: no account, no signature,
\* no connection, not accepted.  But the answer that it was accepted may be what
\* fails, as the socket closes or the request times out: then the node has the
\* transaction, and nobody listens to what becomes of it.
Thrown(t, stage) ==
    [t EXCEPT !.stage = stage, !.live = FALSE, !.told = @ \cup {"error"}]

\* Mutant: a catch that forgets to release the buttons.
RefuseHeld(n) ==
    /\ txs[n].live /\ txs[n].stage = "signing"
    /\ \E stage \in {"unsent", "pool"} :
          txs' = [txs EXCEPT ![n] = Thrown(@, stage)]
    /\ dialog' = Closes(txs[n])
    /\ UNCHANGED <<vars, page, proposalPage, submitting>>

Refuse(n) ==
    /\ txs[n].live /\ txs[n].stage = "signing"
    /\ \E stage \in {"unsent", "pool"} :
          txs' = [txs EXCEPT ![n] = Thrown(@, stage)]
    /\ voting' = Releases(txs[n], "vote", voting)
    /\ submitting' = Releases(txs[n], "create", submitting)
    /\ dialog' = Closes(txs[n])
    /\ UNCHANGED <<vars, page, id, fetching, loading, data, dataId>>

Submit(n) ==
    /\ txs[n].live /\ txs[n].stage = "signing"
    /\ txs' = [txs EXCEPT ![n].stage = "pool"]
    /\ dialog' = Closes(txs[n])
    /\ UNCHANGED <<vars, page, proposalPage, submitting>>

-----------------------------------------------------------------------------
(* The node.                                                               *)

Execute(call) ==
    \/ call.kind = "vote"     /\ VoteProposal(Me, call.id, call.vote)
    \/ call.kind = "finalize" /\ FinalizeProposal(call.id)
    \/ call.kind = "create"   /\ CreateProposal(Me, call.duration, call.action)
    \/ call.kind = "deposit"  /\ Deposit(Me, call.amount)

\* The calls that return no error.
Succeeds(call) ==
    \/ call.kind = "vote" /\ MayVote(Me, call.id)
    \/ /\ call.kind = "finalize"
       /\ CanFinalize(call.id)
       /\ LET p == proposals[call.id] IN
             ForCarries(p) => /\ p.action.from # p.action.to
                              /\ vault[p.action.from] >= p.action.amount
    \/ call.kind = "create" /\ nextProposalId < MaxProposalId
    \/ call.kind = "deposit" /\ CanReserve(Me, call.amount)

\* A block that stays runs the transaction; a dispatch error changes nothing
\* else.  It is reported, if anything still listens, when the block is imported
\* and when it is final.
Placed(t, outcome) ==
    [t EXCEPT !.stage = outcome,
              !.reports = IF t.live THEN @ \o <<outcome, outcome>> ELSE @]

Include(n) ==
    /\ txs[n].stage = "pool"
    /\ UNCHANGED tabVars
    /\ \/ /\ txs' = [txs EXCEPT ![n] = Placed(@, "executed")]
          /\ Execute(txs[n].call)
       \/ /\ txs' = [txs EXCEPT ![n] = Placed(@, "failed")]
          /\ ~Succeeds(txs[n].call)
          /\ UNCHANGED vars

\* A block that is retracted again runs it, and it is back in the pool.  The
\* callback hears of the block, and does nothing when it is retracted; if there
\* is no callback any more, nothing has changed.
Strayed(t, outcome) ==
    [t EXCEPT !.retracted = @ + 1, !.reports = Append(@, outcome)]

Retract(n) ==
    /\ txs[n].stage = "pool" /\ txs[n].live
    /\ txs[n].retracted < MaxRetracted
    /\ LET outcome == IF Succeeds(txs[n].call) THEN "executed" ELSE "failed" IN
          txs' = [txs EXCEPT ![n] = Strayed(@, outcome)]
    /\ UNCHANGED <<vars, tabVars>>

\* The pool gives it up.  The callback hears of that too and does nothing.
Drop(n) ==
    /\ txs[n].stage = "pool"
    /\ txs' = [txs EXCEPT ![n].stage = "lost"]
    /\ UNCHANGED <<vars, tabVars>>

\* The handler's connection closes while something is still to be heard.  It is
\* made anew, but without its watch of the transaction.
Disconnect(n) ==
    /\ txs[n].live
    /\ txs[n].stage = "pool" \/ txs[n].reports # << >>
    /\ txs' = [txs EXCEPT ![n].live = FALSE, ![n].reports = << >>]
    /\ UNCHANGED <<vars, tabVars>>

Chain == Next /\ now' <= Horizon /\ UNCHANGED <<tabVars, txs>>

-----------------------------------------------------------------------------
(* The callback, on isInBlock and again on isFinalized.                    *)

\* Mutant: a callback that never looks at dispatchError.
MessagesUnchecked(outcome) == {"success"}

\* A dispatch error is reported, and then, in any case, success.
Messages(outcome) ==
    {"success"} \cup (IF outcome = "failed" THEN {"error"} ELSE {})

Reportable(n, kinds) ==
    /\ txs[n].live
    /\ txs[n].reports # << >>
    /\ txs[n].call.kind \in kinds

Heard(n) ==
    [txs EXCEPT ![n].reports = Tail(@),
                ![n].told = @ \cup Messages(Head(txs[n].reports))]

\* A vote or a decision reloads the tab, wherever it has gone since.
ReportAndReload(n) ==
    /\ Reportable(n, {"vote", "finalize"})
    /\ Mount(page, id)
    /\ dialog' = "closed"
    /\ txs' = [m \in DOMAIN txs |-> Reloaded(Heard(n)[m])]
    /\ UNCHANGED vars

\* A creation goes to the list, both times, from wherever the tab is.
ReportCreation(n) ==
    /\ Reportable(n, {"create"})
    /\ IF page = "list"
       THEN UNCHANGED <<page, proposalPage, submitting>> /\ txs' = Heard(n)
       ELSE /\ Mount("list", 0)
            /\ txs' = [m \in DOMAIN txs |-> Unmounted(Heard(n)[m])]
    /\ UNCHANGED <<vars, dialog>>

ReportDeposit(n) ==
    /\ Reportable(n, {"deposit"})
    /\ txs' = Heard(n)
    /\ UNCHANGED <<vars, tabVars>>

Report(n) == ReportAndReload(n) \/ ReportCreation(n) \/ ReportDeposit(n)

-----------------------------------------------------------------------------
User ==
    \/ Open("list", 0) \/ Reload
    \/ "create" \in Kinds /\ Open("create", 0)
    \/ \E i \in Shown : Open("proposal", i) \/ Jump(i)
    \/ \E vote \in VoteKind : HandleVote(vote)
    \/ HandleFinalize
    \/ \E duration \in Duration,
          action \in [from : Coin, to : Coin, amount : CoinAmount] :
             HandleSubmit(duration, action)
    \/ OpenDialog \/ CloseDialog
    \/ \E amount \in Amount : OnConfirm(amount)

Transacting ==
    \E n \in DOMAIN txs :
        \/ Refuse(n) \/ Submit(n) \/ Disconnect(n) \/ Report(n)
        \/ Include(n) \/ Retract(n) \/ Drop(n)

ClientNext == User \/ Load \/ Transacting \/ Chain

ClientSpec == ClientInit /\ [][ClientNext]_clientVars

(***************************************************************************)
(* Every transaction keeps moving: the wallet answers or gives up, the     *)
(* pool includes it or, its era over, drops it, and the node reports what  *)
(* it has put into a block, as long as the connection stays open.  That it *)
(* stays open is not assumed, and nothing of the user or other accounts.   *)
(***************************************************************************)
Progress(n) ==
    /\ n \in DOMAIN txs
    /\ Submit(n) \/ Refuse(n) \/ Drop(n) \/ Include(n) \/ Report(n)

FairClientSpec ==
    ClientSpec /\ \A n \in 1..MaxTx : WF_clientVars(Progress(n))

-----------------------------------------------------------------------------
(* What the user may rely on.                                              *)

\* On the chain, what an executed call is for has come about.
Done(call) ==
    CASE call.kind = "vote"     -> Me \in hasVoted[call.id]
      [] call.kind = "finalize" -> Decided(call.id)
      [] call.kind = "create"   -> \E i \in ProposalId :
                                      /\ Exists(i)
                                      /\ proposals[i].author = Me
                                      /\ proposals[i].action = call.action
      [] OTHER                  -> TRUE

\* What may be concluded from the messages shown for a transaction that was
\* never in a block that did not stay.  Success alone: it was executed, and its
\* effect is on the chain.  Both: it failed, though the success message that
\* follows the error says otherwise.  An error alone, of any transaction: the
\* handler threw and nothing more will be heard, but the node may have it and
\* execute it yet (Proposal.tsx:66-80, create-proposal.tsx:60-78, navbar.tsx:
\* 154-169).
MessagesMean ==
    \A n \in DOMAIN txs :
        LET t == txs[n] IN
          /\ t.told = {"error"} => t.stage # "signing" /\ ~t.live
          /\ t.retracted = 0 =>
                /\ t.told = {"success"} => t.stage = "executed" /\ Done(t.call)
                /\ t.told = {"success", "error"} => t.stage = "failed"

\* However often a user who sees an outdated page asks for the same, or asks
\* again because an error was shown for a call that the node has, only one vote
\* and one decision for each proposal is executed in blocks that stay.
OncePerProposal ==
    \A i \in ProposalId, kind \in {"vote", "finalize"} :
        Cardinality({n \in DOMAIN txs : /\ txs[n].call.kind = kind
                                        /\ txs[n].call.id = i
                                        /\ txs[n].stage = "executed"}) <= 1

\* The record on the page, loaded from blocks that stay, is of the past of the
\* one on the chain: the same terms, no more votes, and, if it is shown as
\* decided, the very record, across loads, jumps and reloads that come late
\* (Proposal.tsx:83-133).
DataIsPast ==
    data # NoProposal =>
        LET p == proposals[dataId] IN
          /\ Exists(dataId)
          /\ <<data.author, data.start, data.end, data.action>>
                = <<p.author, p.start, p.end, p.action>>
          /\ data.forVotes <= p.forVotes
          /\ data.againstVotes <= p.againstVotes
          /\ data.status # "Active" => data = p

\* The transactions of a kind that the mounted page has sent, and whose handler
\* has not thrown.
Out(kind) ==
    {n \in DOMAIN txs : /\ txs[n].mounted
                        /\ txs[n].call.kind = kind
                        /\ txs[n].told # {"error"}}

\* The vote button, and the form's, wait exactly while a call of their own page
\* is out, and there is never more than one; the deposit dialog only waits while
\* some deposit is being signed.  A call whose handler threw does not count,
\* though the node may have it: then the button is free and a second one may
\* follow.  The finalize button never waits (Proposal.tsx:56, 79, create-
\* proposal.tsx:29, 77, stake-pop-up.tsx).
ButtonsHeld ==
    /\ voting <=> Out("vote") # {}
    /\ submitting <=> Out("create") # {}
    /\ Cardinality(Out("vote")) <= 1 /\ Cardinality(Out("create")) <= 1
    /\ dialog = "waiting" =>
          \E n \in DOMAIN txs : /\ txs[n].live
                                /\ txs[n].call.kind = "deposit"
                                /\ txs[n].stage = "signing"

\* Every waiting button is released, unless what it waits for is lost, or the
\* connection that would tell of it: the callbacks have no branch for the one,
\* and no handler watches the other (Proposal.tsx:66-76, create-proposal.tsx:
\* 63-73).  Such a button waits for a reload.
Lost(kind) == \E n \in Out(kind) : txs[n].stage = "lost" \/ ~txs[n].live

ButtonsReleased ==
    /\ voting ~> (~voting \/ Lost("vote"))
    /\ submitting ~> (~submitting \/ Lost("create"))
    /\ (dialog = "waiting") ~> (dialog # "waiting")

=============================================================================
