-------------------------------- MODULE Ledger --------------------------------
(***************************************************************************)
(* What a network of nodes promises of its final blocks, without slots,    *)
(* forks, rounds, votes or crashes: there is one ledger, of which each     *)
(* node keeps a copy.  A copy may lag behind, it only ever grows, and no   *)
(* two copies ever disagree.  Only an operator may make a node forget its  *)
(* copy and start over.                                                    *)
(*                                                                         *)
(* This is promised as long as the network is intact.  What it loses when  *)
(* it no longer is, is left open.                                          *)
(***************************************************************************)
EXTENDS SequencesExt

CONSTANTS Keeper, Erasable

VARIABLES copy, intact

ledgerVars == <<copy, intact>>

Agree(c, d) == IsPrefix(c, d) \/ IsPrefix(d, c)

LedgerInit ==
    /\ copy = [k \in Keeper |-> <<>>]
    /\ intact = TRUE

\* A copy grows by what it lacked, or becomes the longest so far.
Extend(k) ==
    /\ IsPrefix(copy[k], copy'[k])
    /\ \A j \in Keeper : Agree(copy[j], copy'[k])
    /\ copy' = [copy EXCEPT ![k] = copy'[k]]
    /\ UNCHANGED intact

Erase(k) ==
    /\ k \in Erasable
    /\ copy' = [copy EXCEPT ![k] = <<>>]
    /\ UNCHANGED intact

\* No promise is left.
Break == ~intact'

LedgerNext == Break \/ \E k \in Keeper : Extend(k) \/ Erase(k)

LedgerSpec == LedgerInit /\ [][LedgerNext]_ledgerVars

=============================================================================
