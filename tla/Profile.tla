------------------------------- MODULE Profile -------------------------------
(***************************************************************************)
(* The profile page (frontend/src/components/profile.tsx) beside a chain   *)
(* that grows, forks above its finalized part and forgets old states.      *)
(*                                                                         *)
(* The page's effect depends on the account and sets it: the first run     *)
(* finds the wallet's account, which ends that run and starts a second,    *)
(* while the first is still on its way.  A run reads the account's stake,  *)
(* then the number of the best block, and from there the events of one     *)
(* block after the other, backwards.                                       *)
(*                                                                         *)
(* Karma and the total stake are read and shown like the stake and are     *)
(* left out, as are the events' details: every amount is one unit.         *)
(***************************************************************************)
EXTENDS Integers, SequencesExt

CONSTANTS
    Account,
    Me,                  \* the wallet's first account
    NoAccount,
    Window,              \* min(2000, BlockHashCount - 2)
    RowsPerPageOptions,  \* of the table
    RowsPerPage,         \* the initial one
    MaxBlock,            \* bound: the height of the chain
    MaxEvents,           \* bound: the events in a block
    Emitted              \* bound: the events a block may have

OwnKind == {"Deposited", "Withdrawn", "ProposalCreated", "ProposalVoted"}

Event ==
    [kind : OwnKind, who : Account] \cup
    [kind : {"ProposalFinalized", "SwapExecuted", "VaultSeeded"}]

ASSUME ProfileAssumption ==
    /\ Me \in Account /\ NoAccount \notin Account
    /\ Window \in Nat \ {0}
    /\ RowsPerPageOptions \subseteq Nat \ {0}
    /\ RowsPerPage \in RowsPerPageOptions
    /\ MaxBlock \in Nat /\ MaxEvents \in Nat
    /\ Emitted \subseteq Event

Row == [block : 1..MaxBlock, event : Event]

Phase == {"idle", "enabling", "connecting", "stake", "head", "scanning",
          "shown",    \* the whole window is on the page
          "cut",      \* what was read of it is on the page
          "over"}     \* returned or failed

Run == 1..2

VARIABLES
    chain,         \* the best chain: its blocks' events; the genesis has none
    final,         \* the number of its last finalized block
    pruned,        \* the states of the blocks up to this one are gone
    forked,        \* history: the best chain has been replaced
    account,       \* state: the account shown
    loading,       \* state: the page shows "Loading..."
    stake,         \* state: the stake shown
    rows,          \* state: the table
    tablePage, rowsPerPage,    \* state: the part of it on the screen
    phase,         \* what each run of the effect is waiting for
    mounted,       \* each run's variable of that name
    scan           \* each run's head, next block and rows; and, as a history,
                   \* which block was the best when it read the stake, and
                   \* which was final when it read the head

chainVars == <<chain, final, pruned, forked>>
shownVars == <<account, loading, stake, rows>>
tableVars == <<tablePage, rowsPerPage>>
runVars == <<phase, mounted, scan>>
vars == <<chainVars, shownVars, tableVars, runVars>>

ProfileTypeOK ==
    /\ chain \in Seq(Seq(Emitted)) /\ Len(chain) <= MaxBlock
    /\ final \in 0..Len(chain)
    /\ pruned \in 0..final
    /\ forked \in BOOLEAN
    /\ account \in Account \cup {NoAccount}
    /\ loading \in BOOLEAN
    /\ stake \in Nat
    /\ rows \in Seq(Row)
    /\ tablePage \in Nat
    /\ rowsPerPage \in RowsPerPageOptions
    /\ phase \in [Run -> Phase]
    /\ mounted \in [Run -> BOOLEAN]
    /\ scan \in [Run -> [head : 0..MaxBlock, next : 0..MaxBlock, out : Seq(Row),
                         since : 0..MaxBlock, sure : 0..MaxBlock]]
    /\ \A r \in Run :
          phase[r] = "scanning" => scan[r].next \in 1..scan[r].head

-----------------------------------------------------------------------------
(* The chain.                                                              *)

\* What is left of a sequence when only the elements of S are kept.
Only(s, S) ==
    LET only[n \in 0..Len(s)] ==
            IF n = 0 THEN << >>
            ELSE IF s[n] \in S THEN Append(only[n - 1], s[n]) ELSE only[n - 1]
    IN only[Len(s)]

Occurrences(events, e) == Len(Only(events, {e}))

Own(kind, a) == [kind |-> kind, who |-> a]

\* The stake of an account after these events.
StakeAfter(events, a) ==
    Occurrences(events, Own("Deposited", a))
        - Occurrences(events, Own("Withdrawn", a))

\* Nobody withdraws more than is deposited, and what is decided was created.
Possible(blocks) ==
    LET history == FlattenSeq(blocks)
        Kinds(past, kind) == Len(Only(past, {e \in Event : e.kind = kind}))
    IN \A n \in 1..Len(history) :
          LET past == SubSeq(history, 1, n) IN
            /\ \A a \in Account : StakeAfter(past, a) >= 0
            /\ Kinds(past, "ProposalFinalized")
                  <= Kinds(past, "ProposalCreated")

Block == BoundedSeq(Emitted, MaxEvents)

NewBlock ==
    /\ Len(chain) < MaxBlock
    /\ \E block \in Block :
          /\ chain' = Append(chain, block)
          /\ Possible(chain')
    /\ UNCHANGED <<final, pruned, forked, shownVars, tableVars, runVars>>

\* A longer fork takes the place of blocks that are not final.
Fork ==
    /\ Len(chain) < MaxBlock
    /\ \E kept \in final..(Len(chain) - 1) :
       \E fork \in [1..(Len(chain) + 1 - kept) -> Block] :
          /\ chain' = SubSeq(chain, 1, kept) \o fork
          /\ Possible(chain')
    /\ forked' = TRUE
    /\ UNCHANGED <<final, pruned, shownVars, tableVars, runVars>>

Finalize ==
    /\ final' \in (final + 1)..Len(chain)
    /\ UNCHANGED <<chain, pruned, forked, shownVars, tableVars, runVars>>

Prune ==
    /\ pruned' \in (pruned + 1)..final
    /\ UNCHANGED <<chain, final, forked, shownVars, tableVars, runVars>>

-----------------------------------------------------------------------------
(* The effect.                                                             *)

\* The account that a run's closure sees.
Seen(r) == IF r = 1 THEN NoAccount ELSE Me

Goto(r, p) == phase' = [phase EXCEPT ![r] = p]

Init ==
    /\ chain = << >> /\ final = 0 /\ pruned = 0 /\ forked = FALSE
    /\ account = NoAccount
    /\ loading = TRUE
    /\ stake = 0
    /\ rows = << >>
    /\ tablePage = 0
    /\ rowsPerPage = RowsPerPage
    /\ phase = [r \in Run |-> IF r = 1 THEN "enabling" ELSE "idle"]
    /\ mounted = [r \in Run |-> TRUE]
    /\ scan = [r \in Run |-> [head |-> 0, next |-> 0, out |-> << >>,
                             since |-> 0, sure |-> 0]]

\* Mutant: without setLoading(false).
NoAccountsSilent ==
    /\ phase[1] = "enabling"
    /\ Goto(1, "over")
    /\ UNCHANGED <<chainVars, shownVars, tableVars, mounted, scan>>

NoAccounts ==
    /\ phase[1] = "enabling"
    /\ Goto(1, "over")
    /\ loading' = FALSE
    /\ UNCHANGED <<chainVars, account, stake, rows, tableVars, mounted, scan>>

\* setAccount: the new state cleans up after the first run, which waits for
\* its connection by then, and starts the second.  React does so at once;
\* a connection takes several answers of the node.
SetAccount ==
    /\ phase[1] = "enabling"
    /\ account' = Me
    /\ mounted' = [mounted EXCEPT ![1] = FALSE]
    /\ phase' = [phase EXCEPT ![1] = "connecting", ![2] = "enabling"]
    /\ UNCHANGED <<chainVars, loading, stake, rows, tableVars, scan>>

Enabled ==
    /\ phase[2] = "enabling"
    /\ Goto(2, "connecting")
    /\ UNCHANGED <<chainVars, shownVars, tableVars, mounted, scan>>

\* Mutant: without the return of a run that is no longer mounted.
ConnectUnguarded(r) ==
    /\ phase[r] = "connecting"
    /\ Goto(r, IF Seen(r) = NoAccount THEN "head" ELSE "stake")
    /\ UNCHANGED <<chainVars, shownVars, tableVars, mounted, scan>>

Connect(r) ==
    /\ phase[r] = "connecting"
    /\ Goto(r, IF ~mounted[r] THEN "over"
               ELSE IF Seen(r) = NoAccount THEN "head" ELSE "stake")
    /\ UNCHANGED <<chainVars, shownVars, tableVars, mounted, scan>>

ReadStake(r) ==
    /\ phase[r] = "stake"
    /\ Goto(r, "head")
    /\ stake' = StakeAfter(FlattenSeq(chain), Seen(r))
    /\ scan' = [scan EXCEPT ![r].since = Len(chain)]
    /\ UNCHANGED <<chainVars, account, loading, rows, tableVars, mounted>>

\* Mutant: without Math.max(1, ...).
FromUnclamped(head) == head - Window + 1

\* The last block of the window.
From(head) == IF head >= Window THEN head - Window + 1 ELSE 1

\* The newest block first; the sort is stable.
SortedRows(out) ==
    LET Before(i) == {j \in DOMAIN out : \/ out[j].block > out[i].block
                                         \/ out[j].block = out[i].block /\ j < i}
    IN [n \in DOMAIN out |->
           out[CHOOSE i \in DOMAIN out : Cardinality(Before(i)) = n - 1]]

Show(r, out, p) ==
    /\ Goto(r, p)
    /\ rows' = SortedRows(out)
    /\ loading' = FALSE

\* The head is read; with no block to scan, the empty table is shown.
ReadHead(r) ==
    LET head == Len(chain) IN
      /\ phase[r] = "head"
      /\ scan' = [scan EXCEPT ![r].head = head, ![r].next = head,
                              ![r].sure = final]
      /\ IF head >= From(head)
         THEN Goto(r, "scanning") /\ UNCHANGED <<loading, rows>>
         ELSE Show(r, << >>, "shown")
      /\ UNCHANGED <<chainVars, account, stake, tableVars, mounted>>

\* Mutant: without sameAccount.
ListedOfAnyone(event, a) ==
    event.kind \in OwnKind \cup {"ProposalFinalized"}

\* Without an account nothing is the account's.
SameAccount(a, b) == {a, b} \subseteq Account /\ a = b

\* An account's own events, and every decision.
Listed(event, a) ==
    \/ event.kind \in OwnKind /\ SameAccount(event.who, a)
    \/ event.kind = "ProposalFinalized"

InBlock(b, events) ==
    [i \in DOMAIN events |-> [block |-> b, event |-> events[i]]]

RowsOf(b, a) == InBlock(b, Only(chain[b], {e \in Event : Listed(e, a)}))

\* The loop goes on below block b; below its window the table is shown.
Proceed(r, b, out) ==
    /\ scan' = [scan EXCEPT ![r].next = b - 1, ![r].out = out]
    /\ IF b > From(scan[r].head)
       THEN UNCHANGED <<phase, loading, rows>>
       ELSE Show(r, out, "shown")
    /\ UNCHANGED <<chainVars, account, stake, tableVars, mounted>>

\* The block of that number on the chain of this moment, and its events.
ScanBlock(r) ==
    LET b == scan[r].next IN
      /\ phase[r] = "scanning"
      /\ b > pruned
      /\ Proceed(r, b, scan[r].out \o RowsOf(b, Seen(r)))

\* Mutant: goes on below a block that could not be read.
BreakContinuing(r) ==
    /\ phase[r] = "scanning"
    /\ Proceed(r, scan[r].next, scan[r].out)

\* A block's events cannot be read, pruned or not: the scan ends here.
Break(r) ==
    /\ phase[r] = "scanning"
    /\ Show(r, scan[r].out, "cut")
    /\ UNCHANGED <<chainVars, account, stake, tableVars, mounted, scan>>

\* Any other await rejects.  A connection never does, it waits.
Fail(r) ==
    /\ phase[r] \in {"enabling", "stake", "head", "scanning"}
    /\ Goto(r, "over")
    /\ loading' = FALSE
    /\ UNCHANGED <<chainVars, account, stake, rows, tableVars, mounted, scan>>

-----------------------------------------------------------------------------
(* The table.                                                              *)

TableShown == ~loading /\ rows # << >>

Paginated ==
    LET start == tablePage * rowsPerPage IN
      SubSeq(rows, start + 1,
             IF start + rowsPerPage < Len(rows) THEN start + rowsPerPage
                                                ELSE Len(rows))

\* The buttons stop at the first and the last page.
ChangePage(p) ==
    /\ TableShown
    /\ p \in {tablePage - 1, tablePage + 1} /\ p >= 0
    /\ p * rowsPerPage < Len(rows)
    /\ tablePage' = p
    /\ UNCHANGED <<chainVars, shownVars, rowsPerPage, runVars>>

\* Mutant: without setPage(0).
ChangeRowsPerPageOnly(n) ==
    /\ TableShown
    /\ rowsPerPage' = n
    /\ UNCHANGED <<chainVars, shownVars, tablePage, runVars>>

ChangeRowsPerPage(n) ==
    /\ TableShown
    /\ rowsPerPage' = n
    /\ tablePage' = 0
    /\ UNCHANGED <<chainVars, shownVars, runVars>>

-----------------------------------------------------------------------------
Effect ==
    \/ NoAccounts \/ SetAccount \/ Enabled
    \/ \E r \in Run :
          \/ Connect(r) \/ ReadStake(r) \/ ReadHead(r)
          \/ ScanBlock(r) \/ Break(r) \/ Fail(r)

Next ==
    \/ NewBlock \/ Fork \/ Finalize \/ Prune
    \/ Effect
    \/ \E p \in 0..Len(rows) : ChangePage(p)
    \/ \E n \in RowsPerPageOptions : ChangeRowsPerPage(n)

Spec == Init /\ [][Next]_vars

\* The wallet and the node answer, if only with an error.
FairSpec == Spec /\ WF_vars(Effect)

-----------------------------------------------------------------------------
(* What the user may rely on.                                              *)

\* What a profile is of: the events that name the account, and decisions.
OfProfile ==
    {Own(kind, Me) : kind \in OwnKind} \cup {[kind |-> "ProposalFinalized"]}

History(low, high) ==
    FlattenSeq([i \in 1..(high + 1 - low) |->
        InBlock(high + 1 - i, Only(chain[high + 1 - i], OfProfile))])

\* Up to the last block that was final when the scan began, the table is the
\* account's history from some block on, the newest block first: no hole, no
\* event of the account missed or shown twice, and none of anyone else.  It
\* reaches to the end of the window unless a block could not be read
\* (profile.tsx:108-172).  Above that block a fork may hide or repeat events.
ListIsHistory ==
    phase[2] \in {"shown", "cut"} =>
        LET s == scan[2]
            end == IF From(s.head) <= s.sure THEN From(s.head) ELSE s.sure + 1
        IN \E low \in end..(s.sure + 1) :
              /\ Only(rows, {row \in Row : row.block <= s.sure})
                    = History(low, s.sure)
              /\ phase[2] = "shown" => low = end

\* The stake on the page is explained by the table: if that reaches back to
\* the first block, and no fork came between, the stake is what is left of
\* the deposits among its rows, up to the block it was read at.  The stake is
\* read before the head, and so is never ahead of the table (profile.tsx:
\* 89-106); the deposits shown after that block are not in it yet.
StakeExplained ==
    ~forked /\ phase[2] = "shown" /\ From(scan[2].head) = 1 =>
        LET UpTo(kind) ==
                Len(Only(rows, {row \in Row : /\ row.block <= scan[2].since
                                              /\ row.event.kind = kind}))
        IN stake = UpTo("Deposited") - UpTo("Withdrawn")

\* Once "Loading..." is gone, what is shown does not change by itself: the
\* run that was given up never comes back to overwrite it (profile.tsx:85).
ShownStays == [][~loading => UNCHANGED shownVars]_vars

\* The screen is never on a page that the table has not (profile.tsx:283-286).
PageNotEmpty == TableShown => Paginated # << >>

\* "Loading..." ends, with a table, an error, or for want of an account.
LoadingEnds == <>~loading

=============================================================================
