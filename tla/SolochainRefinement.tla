-------------------------- MODULE SolochainRefinement --------------------------
(* The network of nodes implements Ledger.                                  *)
EXTENDS Solochain

\* A node's copy is what its database has as final; the network is intact
\* while no voter's database forgot a vote.
Copies == INSTANCE Ledger WITH
    Keeper   <- Node,
    Erasable <- Operated,
    copy     <- final,
    intact   <- (forgot = {})

\* To whoever reads final blocks only, slots, forks, votes, crashes and
\* restarts are invisible: each step of the network extends one node's copy of
\* one ledger, erases the copy of a node that is operated on, or changes none.
ImplementsLedger == Copies!LedgerSpec

=============================================================================
