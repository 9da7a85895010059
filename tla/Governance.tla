------------------------------ MODULE Governance ------------------------------
(***************************************************************************)
(* What the treasury promises, without stake, weights, thresholds, blocks  *)
(* or balances: a motion to swap coins is opened once, on terms that never *)
(* change; each member votes on it at most once and only while it is open; *)
(* it is closed at most once; and the only thing that takes coins out of   *)
(* the holdings is a motion that is carried, which moves exactly what its  *)
(* terms say and earns its author one point of merit.                      *)
(***************************************************************************)
EXTENDS Integers

CONSTANTS Member, Coin, Motion, NoTerms, MaxHolding, MaxMerit

Terms == [author : Member, from : Coin, to : Coin, amount : 0..MaxHolding]

Phase == {"unopened", "open", "carried", "lost"}

VARIABLES phase, terms, voters, holdings, merit

govVars == <<phase, terms, voters, holdings, merit>>

GovTypeOK ==
    /\ phase \in [Motion -> Phase]
    /\ terms \in [Motion -> Terms \cup {NoTerms}]
    /\ voters \in [Motion -> SUBSET Member]
    /\ holdings \in [Coin -> 0..MaxHolding]
    /\ merit \in [Member -> 0..MaxMerit]

GovInit ==
    /\ phase = [m \in Motion |-> "unopened"]
    /\ terms = [m \in Motion |-> NoTerms]
    /\ voters = [m \in Motion |-> {}]
    /\ holdings = [c \in Coin |-> 0]
    /\ merit = [a \in Member |-> 0]

\* What a holding or a merit becomes when n is added, up to its cap.
Raised(n, x, cap) == IF x + n > cap THEN cap ELSE x + n

Open(m) ==
    /\ phase[m] = "unopened"
    /\ phase' = [phase EXCEPT ![m] = "open"]
    /\ \E t \in Terms : terms' = [terms EXCEPT ![m] = t]
    /\ UNCHANGED <<voters, holdings, merit>>

Cast(m) ==
    /\ phase[m] = "open"
    /\ \E a \in Member \ voters[m] :
          voters' = [voters EXCEPT ![m] = @ \cup {a}]
    /\ UNCHANGED <<phase, terms, holdings, merit>>

Carry(m) ==
    LET t == terms[m] IN
    /\ phase[m] = "open"
    /\ t.from # t.to
    /\ t.amount <= holdings[t.from]
    /\ phase' = [phase EXCEPT ![m] = "carried"]
    /\ holdings' =
          [holdings EXCEPT ![t.from] = @ - t.amount,
                           ![t.to]   = Raised(t.amount, @, MaxHolding)]
    /\ merit' = [merit EXCEPT ![t.author] = Raised(1, @, MaxMerit)]
    /\ UNCHANGED <<terms, voters>>

Lose(m) ==
    /\ phase[m] = "open"
    /\ phase' = [phase EXCEPT ![m] = "lost"]
    /\ UNCHANGED <<terms, voters, holdings, merit>>

Endow(c) ==
    /\ \E n \in 0..MaxHolding :
          holdings' = [holdings EXCEPT ![c] = Raised(n, @, MaxHolding)]
    /\ UNCHANGED <<phase, terms, voters, merit>>

GovNext ==
    \/ \E m \in Motion : Open(m) \/ Cast(m) \/ Carry(m) \/ Lose(m)
    \/ \E c \in Coin : Endow(c)

GovSpec == GovInit /\ [][GovNext]_govVars

=============================================================================
