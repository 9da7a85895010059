------------------------------- MODULE Listing -------------------------------
(***************************************************************************)
(* The list of proposals (frontend/src/components/proposal-list.tsx)       *)
(* beside the treasury.  It reads the keys of the Proposals map and then   *)
(* one record for each of them, all at once: the answers come in any       *)
(* order, from different blocks.  Nothing is read again afterwards.        *)
(*                                                                         *)
(* Nobody catches what the effect throws: a list that fails says "Loading" *)
(* until the page is left.                                                 *)
(*                                                                         *)
(* Bounds: the keys come in one page, of one block (the API asks for a     *)
(* thousand at a time, and for the next thousand of whatever block is the  *)
(* newest by then); and the blocks that are read from stay.                *)
(***************************************************************************)
EXTENDS Treasury, SequencesExt

CONSTANTS
    NoFilter,      \* an empty filter
    AuthorText,    \* bound: what else is typed into the author's field
    Containing     \* the accounts with such a text, in any case of its letters,
                   \* somewhere in their address

ASSUME FilterAssumption ==
    /\ NoFilter \notin AuthorText \cup ProposalStatus
    /\ Containing \in [AuthorText -> SUBSET Account]

VARIABLES
    reading,        \* what the effect waits for
    keys,           \* the ids it has found
    answers,        \* the records it has been told, by id
    listed          \* state: the proposals of the page

listVars == <<reading, keys, answers, listed>>
listingVars == <<vars, listVars>>

ListingInit ==
    /\ Init
    /\ reading = "keys"
    /\ keys = {}
    /\ answers = << >>
    /\ listed = << >>

\* Mutant: without the sort.
AsAnswered(list) == TRUE

\* The keys come in the order of their hashes, in which the sort, a stable one,
\* leaves records of the same block: these may be in any order.
OldestFirst(list) ==
    \A k, m \in DOMAIN list :
        k < m => list[k].record.start <= list[m].record.start

\* Every record is there.
Show(records) ==
    /\ reading' = "nothing"
    /\ \E order \in SetToSeqs(DOMAIN records) :
          listed' = [n \in DOMAIN order |->
                        [id |-> order[n], record |-> records[order[n]]]]
    /\ OldestFirst(listed')

ReadKeys ==
    /\ reading = "keys"
    /\ keys' = {i \in ProposalId : Exists(i)}
    /\ IF keys' = {}
       THEN Show(answers)
       ELSE reading' = "records" /\ UNCHANGED listed
    /\ UNCHANGED <<vars, answers>>

ReadRecord(i) ==
    /\ reading = "records"
    /\ i \in keys \ DOMAIN answers
    /\ answers' = [j \in DOMAIN answers \cup {i} |->
                      IF j = i THEN proposals[i] ELSE answers[j]]
    /\ IF DOMAIN answers' = keys
       THEN Show(answers')
       ELSE UNCHANGED <<reading, listed>>
    /\ UNCHANGED <<vars, keys>>

Fail ==
    /\ reading \in {"keys", "records"}
    /\ reading' = "failed"
    /\ UNCHANGED <<vars, keys, answers, listed>>

\* Mutant: either filter is enough.
MatchesEither(p, author, status) ==
    \/ author # NoFilter => p.record.author \in Containing[author]
    \/ status # NoFilter => p.record.status = status

Matches(p, author, status) ==
    /\ author # NoFilter => p.record.author \in Containing[author]
    /\ status # NoFilter => p.record.status = status

\* The places in the list that the page shows under the two filters.
FilteredProposals(author, status) ==
    {k \in DOMAIN listed : Matches(listed[k], author, status)}

Chain == Next /\ UNCHANGED listVars

ListingNext ==
    \/ ReadKeys \/ Fail \/ Chain
    \/ \E i \in ProposalId : ReadRecord(i)

ListingSpec == ListingInit /\ [][ListingNext]_listingVars

-----------------------------------------------------------------------------

\* The list has the oldest proposals, each of them once, none of them left
\* out in between and none invented; only younger ones may be missing.  Each
\* is shown as it was at some time: with its own terms, no more votes than it
\* has now, and, if decided, as it is (proposal-list.tsx:60-81).
ListIsPast ==
    reading = "nothing" =>
        /\ \E n \in 0..nextProposalId :
              /\ Len(listed) = n
              /\ {listed[k].id : k \in DOMAIN listed} = 0..(n - 1)
        /\ \A k \in DOMAIN listed :
              LET old == listed[k].record
                  new == proposals[listed[k].id]
              IN /\ <<old.author, old.start, old.end, old.action>>
                       = <<new.author, new.start, new.end, new.action>>
                 /\ old.forVotes <= new.forVotes
                 /\ old.againstVotes <= new.againstVotes
                 /\ old.status # "Active" => old = new

\* In the order of the list no proposal comes before one that was created in
\* an earlier block, and so two of them are out of the order of their ids
\* only if they are of the same block (proposal-list.tsx:80).
InOrderOfCreation ==
    \A k, m \in DOMAIN listed :
        k < m /\ listed[k].id > listed[m].id =>
            proposals[listed[k].id].start = proposals[listed[m].id].start

\* Whoever filters for decided proposals, of the authors whose addresses contain
\* some text or of all, sees none that is not so on the chain by now, however old
\* the list is: only "Active" may be out of date (proposal-list.tsx:95-101).
FilteredStands ==
    \A author \in AuthorText \cup {NoFilter}, status \in {"Approved", "Rejected"} :
        \A k \in FilteredProposals(author, status) :
           LET p == proposals[listed[k].id] IN
             /\ p.status = status
             /\ author # NoFilter => p.author \in Containing[author]

=============================================================================
