---------------------------- MODULE ProfileProofs ----------------------------
(***************************************************************************)
(* What is proved of Profile, for any accounts, events, window and length  *)
(* of the chain: a table that is shown is the account's history as far as  *)
(* the chain was final, it explains the stake beside it, its page on the   *)
(* screen has rows, and it is not overwritten.                             *)
(*                                                                         *)
(* The module goes from the operators up: sequences and what is kept of    *)
(* them, the rows of a block, the history of blocks, the stock of          *)
(* deposits, and then one lemma for each step that disturbs the inductive  *)
(* invariant ProfileInv.                                                   *)
(***************************************************************************)
EXTENDS Profile, SumProofs, SequenceTheorems

-----------------------------------------------------------------------------
(* Sequences.  Inductions are over sets of sequences, as those of SumProofs.  *)

\* A set of sequences that has the empty one and, with each, every one that is
\* longer by an element, has them all.
LEMMA SeqInduction ==
    ASSUME NEW D, NEW G \in SUBSET Seq(D), << >> \in G,
           \A s \in G, e \in D : Append(s, e) \in G
    PROVE  Seq(D) \subseteq G
  <1> DEFINE N == {n \in Nat : \A s \in Seq(D) : Len(s) = n => s \in G}
  <1>1. 0 \in N
    <2>1. \A s \in Seq(D) : Len(s) = 0 => s = << >>
      BY EmptySeq
    <2> QED
      BY <2>1
  <1>2. ASSUME NEW n \in N PROVE n + 1 \in N
    <2>0. n \in Nat /\ n + 1 \in Nat
      OBVIOUS
    <2> SUFFICES ASSUME NEW s \in Seq(D), Len(s) = n + 1
                 PROVE  s \in G
      BY <2>0
    <2>1. s # << >>
      BY EmptySeq
    <2>2. PICK t \in Seq(D), e \in D : s = Append(t, e)
      BY <2>1, SequenceEmptyOrAppend
    <2>3. Len(s) = Len(t) + 1 /\ Len(t) \in Nat
      BY <2>2, AppendProperties, LenProperties
    <2>4. Len(t) = n
      BY <2>0, <2>3
    <2> QED
      BY <2>2, <2>4
  <1>3. Nat \subseteq N
    <2> HIDE DEF N
    <2>1. N \in SUBSET Nat
      BY DEF N
    <2> QED
      BY <1>1, <1>2, <2>1, NatSetInduction
  <1> QED
    BY <1>3, LenProperties

\* One round of the recursion Only is defined by.
OnlyRound(s, S, only, n) ==
    IF n = 0 THEN << >>
    ELSE IF s[n] \in S THEN Append(only[n - 1], s[n]) ELSE only[n - 1]

\* The recursion has a solution.
LEMMA OnlyDefined ==
    ASSUME NEW s, NEW S, NEW m \in Nat
    PROVE  \E only : only = [n \in 0..m |-> OnlyRound(s, S, only, n)]
  <1> DEFINE Solves(f, k) == f = [n \in 0..k |-> OnlyRound(s, S, f, n)]
             N == {k \in Nat : \E f : Solves(f, k)}
  <1>1. 0 \in N
    <2> DEFINE f == [n \in 0..0 |-> << >>]
    <2>1. Solves(f, 0)
      <3>1. \A n \in 0..0 : OnlyRound(s, S, f, n) = << >>
        BY DEF OnlyRound
      <3> QED
        BY <3>1
    <2> QED
      BY <2>1
  <1>2. \A k \in N : k + 1 \in N
    <2> SUFFICES ASSUME NEW k \in N PROVE \E g : Solves(g, k + 1)
      OBVIOUS
    <2>1. PICK f : Solves(f, k)
      OBVIOUS
    <2>2. PICK g : g = [n \in 0..(k + 1) |-> OnlyRound(s, S, f, n)]
      OBVIOUS
    <2>3. \A n \in 0..k : g[n] = f[n]
      BY <2>1, <2>2
    <2>4. \A n \in 0..(k + 1) : OnlyRound(s, S, f, n) = OnlyRound(s, S, g, n)
      BY <2>3 DEF OnlyRound
    <2> QED
      BY <2>2, <2>4
  <1> HIDE DEF N
  <1>3. Nat \subseteq N
    <2>1. N \in SUBSET Nat
      BY DEF N
    <2> QED
      BY <1>1, <1>2, <2>1, NatSetInduction
  <1> QED
    BY <1>3 DEF N

\* Only is what the last round of a solution leaves.
LEMMA OnlyIsLastRound ==
    ASSUME NEW D, NEW s \in Seq(D), NEW S
    PROVE  \E only : /\ \A n \in 0..Len(s) : only[n] = OnlyRound(s, S, only, n)
                     /\ Only(s, S) = only[Len(s)]
  <1>1. Len(s) \in Nat
    BY LenProperties
  <1> DEFINE only == CHOOSE f : f = [n \in 0..Len(s) |-> OnlyRound(s, S, f, n)]
  <1>2. only = [n \in 0..Len(s) |-> OnlyRound(s, S, only, n)]
    BY <1>1, OnlyDefined
  <1>3. Only(s, S) = only[Len(s)]
    BY DEF Only, OnlyRound
  <1> HIDE DEF only
  <1> QED
    BY <1>2, <1>3

\* Nothing of nothing is nothing.
LEMMA OnlyEmpty ==
    ASSUME NEW S
    PROVE  Only(<< >>, S) = << >>
  <1>1. << >> \in Seq({}) /\ Len(<< >>) = 0
    BY EmptySeq
  <1>2. PICK only : /\ \A n \in 0..Len(<< >>) : only[n] = OnlyRound(<< >>, S, only, n)
                    /\ Only(<< >>, S) = only[Len(<< >>)]
    BY <1>1, OnlyIsLastRound
  <1> QED
    BY <1>1, <1>2 DEF OnlyRound

\* A last element is kept or not, and what is kept of the others stays.
LEMMA OnlyAppend ==
    ASSUME NEW D, NEW s \in Seq(D), NEW e \in D, NEW S
    PROVE  Only(Append(s, e), S)
              = IF e \in S THEN Append(Only(s, S), e) ELSE Only(s, S)
  <1> DEFINE t == Append(s, e)
  <1>1. /\ t \in Seq(D) /\ Len(t) = Len(s) + 1 /\ Len(s) \in Nat
        /\ \A n \in 1..Len(s) : t[n] = s[n]
        /\ t[Len(s) + 1] = e
    BY AppendProperties, LenProperties
  <1> HIDE DEF t
  <1>2. PICK f : /\ \A n \in 0..Len(s) : f[n] = OnlyRound(s, S, f, n)
                 /\ Only(s, S) = f[Len(s)]
    BY OnlyIsLastRound
  <1>3. PICK g : /\ \A n \in 0..Len(t) : g[n] = OnlyRound(t, S, g, n)
                 /\ Only(t, S) = g[Len(t)]
    BY <1>1, OnlyIsLastRound
  <1> DEFINE N == {n \in Nat : n <= Len(s) => g[n] = f[n]}
  <1>4. 0 \in N
    BY <1>1, <1>2, <1>3 DEF OnlyRound
  <1>5. ASSUME NEW n \in N PROVE n + 1 \in N
    <2>0. n \in Nat /\ n + 1 \in Nat
      OBVIOUS
    <2> SUFFICES ASSUME n + 1 <= Len(s)
                 PROVE  g[n + 1] = f[n + 1]
      BY <2>0
    <2>1. n \in Nat /\ g[n] = f[n]
      BY <1>1, <2>0
    <2>2. n + 1 # 0 /\ (n + 1) - 1 = n /\ n + 1 \in 1..Len(s)
      BY <1>1, <2>1
    <2>3. t[n + 1] = s[n + 1]
      BY <1>1, <2>2
    <2>4. /\ n + 1 \in 0..Len(s) /\ n + 1 \in 0..Len(t)
      BY <1>1, <2>2
    <2>5. /\ f[n + 1] = OnlyRound(s, S, f, n + 1)
          /\ g[n + 1] = OnlyRound(t, S, g, n + 1)
      BY <1>2, <1>3, <2>4
    <2> QED
      BY <2>1, <2>2, <2>3, <2>5 DEF OnlyRound
  <1> HIDE DEF N
  <1>6. Nat \subseteq N
    <2>1. N \in SUBSET Nat
      BY DEF N
    <2> QED
      BY <1>4, <1>5, <2>1, NatSetInduction
  <1>7. g[Len(s)] = f[Len(s)]
    BY <1>1, <1>6 DEF N
  <1>8. Only(t, S) = OnlyRound(t, S, g, Len(s) + 1)
    BY <1>1, <1>3
  <1>9. Len(s) + 1 # 0 /\ (Len(s) + 1) - 1 = Len(s)
    BY <1>1
  <1>10. Only(t, S) = IF e \in S THEN Append(f[Len(s)], e) ELSE f[Len(s)]
    BY <1>1, <1>7, <1>8, <1>9 DEF OnlyRound
  <1> QED
    BY <1>2, <1>10 DEF t

\* What is kept is of the same elements.
LEMMA OnlyType ==
    ASSUME NEW D, NEW S
    PROVE  \A s \in Seq(D) : Only(s, S) \in Seq(D)
  <1> DEFINE G == {s \in Seq(D) : Only(s, S) \in Seq(D)}
  <1>1. << >> \in G
    BY OnlyEmpty, EmptySeq
  <1>2. ASSUME NEW s \in G, NEW e \in D PROVE Append(s, e) \in G
    <2>1. s \in Seq(D) /\ Only(s, S) \in Seq(D)
      OBVIOUS
    <2>2. Append(s, e) \in Seq(D) /\ Append(Only(s, S), e) \in Seq(D)
      BY <2>1, AppendProperties
    <2> QED
      BY <2>1, <2>2, OnlyAppend
  <1>3. G \in SUBSET Seq(D)
    OBVIOUS
  <1> HIDE DEF G
  <1>4. Seq(D) \subseteq G
    BY <1>1, <1>2, <1>3, SeqInduction
  <1> QED
    BY <1>4 DEF G

\* A last element stays last.
LEMMA ConcatAppend ==
    ASSUME NEW D, NEW s \in Seq(D), NEW t \in Seq(D), NEW e \in D
    PROVE  s \o Append(t, e) = Append(s \o t, e)
  <1>1. << e >> \in Seq(D)
    OBVIOUS
  <1>2. Append(t, e) = t \o << e >>
    BY AppendIsConcat
  <1>3. s \o t \in Seq(D)
    BY ConcatProperties
  <1>4. Append(s \o t, e) = (s \o t) \o << e >>
    BY <1>3, AppendIsConcat
  <1> QED
    BY <1>1, <1>2, <1>4, ConcatAssociative

\* Two parts are gone through one after the other.
LEMMA OnlyConcat ==
    ASSUME NEW D, NEW S, NEW s \in Seq(D)
    PROVE  \A t \in Seq(D) : Only(s \o t, S) = Only(s, S) \o Only(t, S)
  <1> DEFINE G == {t \in Seq(D) : Only(s \o t, S) = Only(s, S) \o Only(t, S)}
  <1>1. << >> \in G
    <2>1. s \o << >> = s
      BY ConcatEmptySeq
    <2>2. Only(s, S) \o << >> = Only(s, S)
      BY OnlyType, ConcatEmptySeq
    <2> QED
      BY <2>1, <2>2, OnlyEmpty, EmptySeq
  <1>2. ASSUME NEW t \in G, NEW e \in D PROVE Append(t, e) \in G
    <2>1. t \in Seq(D) /\ Only(s \o t, S) = Only(s, S) \o Only(t, S)
      OBVIOUS
    <2>2. /\ Append(t, e) \in Seq(D) /\ s \o t \in Seq(D)
          /\ Only(s, S) \in Seq(D) /\ Only(t, S) \in Seq(D)
      BY <2>1, AppendProperties, ConcatProperties, OnlyType
    <2>3. s \o Append(t, e) = Append(s \o t, e)
      BY <2>1, ConcatAppend
    <2>4. Only(s, S) \o Append(Only(t, S), e) = Append(Only(s, S) \o Only(t, S), e)
      BY <2>2, ConcatAppend
    <2>5. Only(Append(s \o t, e), S)
             = IF e \in S THEN Append(Only(s \o t, S), e) ELSE Only(s \o t, S)
      <3>1. PICK u \in Seq(D) : u = s \o t
        BY <2>2
      <3>2. Only(Append(u, e), S) = IF e \in S THEN Append(Only(u, S), e) ELSE Only(u, S)
        BY OnlyAppend
      <3> QED
        BY <3>1, <3>2
    <2>6. Only(Append(t, e), S) = IF e \in S THEN Append(Only(t, S), e) ELSE Only(t, S)
      BY <2>1, OnlyAppend
    <2>7. Only(s \o Append(t, e), S) = Only(s, S) \o Only(Append(t, e), S)
      BY <2>1, <2>3, <2>4, <2>5, <2>6
    <2> QED
      BY <2>2, <2>7
  <1>3. G \in SUBSET Seq(D)
    OBVIOUS
  <1> HIDE DEF G
  <1>4. Seq(D) \subseteq G
    BY <1>1, <1>2, <1>3, SeqInduction
  <1> QED
    BY <1>4 DEF G

\* Which elements are kept only depends on those there are.
LEMMA OnlyAgree ==
    ASSUME NEW D, NEW S, NEW T, \A x \in D : x \in S <=> x \in T
    PROVE  \A s \in Seq(D) : Only(s, S) = Only(s, T)
  <1> DEFINE G == {s \in Seq(D) : Only(s, S) = Only(s, T)}
  <1>1. << >> \in G
    BY OnlyEmpty, EmptySeq
  <1>2. ASSUME NEW s \in G, NEW e \in D PROVE Append(s, e) \in G
    <2>1. s \in Seq(D) /\ Only(s, S) = Only(s, T) /\ (e \in S <=> e \in T)
      OBVIOUS
    <2>2. Append(s, e) \in Seq(D)
      BY <2>1, AppendProperties
    <2>3. Only(Append(s, e), S) = IF e \in S THEN Append(Only(s, S), e) ELSE Only(s, S)
      BY <2>1, OnlyAppend
    <2>4. Only(Append(s, e), T) = IF e \in T THEN Append(Only(s, T), e) ELSE Only(s, T)
      BY <2>1, OnlyAppend
    <2>5. Only(Append(s, e), S) = Only(Append(s, e), T)
      BY <2>1, <2>3, <2>4
    <2> QED
      BY <2>2, <2>5
  <1>3. G \in SUBSET Seq(D)
    OBVIOUS
  <1> HIDE DEF G
  <1>4. Seq(D) \subseteq G
    BY <1>1, <1>2, <1>3, SeqInduction
  <1> QED
    BY <1>4 DEF G

\* Nothing is dropped when everything is kept.
LEMMA OnlyAll ==
    ASSUME NEW D
    PROVE  \A s \in Seq(D) : Only(s, D) = s
  <1> DEFINE G == {s \in Seq(D) : Only(s, D) = s}
  <1>1. << >> \in G
    BY OnlyEmpty, EmptySeq
  <1>2. ASSUME NEW s \in G, NEW e \in D PROVE Append(s, e) \in G
    <2>1. s \in Seq(D) /\ Only(s, D) = s
      OBVIOUS
    <2>2. Append(s, e) \in Seq(D)
      BY <2>1, AppendProperties
    <2>3. Only(Append(s, e), D) = Append(s, e)
      BY <2>1, OnlyAppend
    <2> QED
      BY <2>2, <2>3
  <1>3. G \in SUBSET Seq(D)
    OBVIOUS
  <1> HIDE DEF G
  <1>4. Seq(D) \subseteq G
    BY <1>1, <1>2, <1>3, SeqInduction
  <1> QED
    BY <1>4 DEF G

\* Nothing is kept of what is outside.
LEMMA OnlyNone ==
    ASSUME NEW D, NEW S, \A x \in D : x \notin S
    PROVE  \A s \in Seq(D) : Only(s, S) = << >>
  <1> DEFINE G == {s \in Seq(D) : Only(s, S) = << >>}
  <1>1. << >> \in G
    BY OnlyEmpty, EmptySeq
  <1>2. ASSUME NEW s \in G, NEW e \in D PROVE Append(s, e) \in G
    <2>1. s \in Seq(D) /\ Only(s, S) = << >> /\ e \notin S
      OBVIOUS
    <2>2. Append(s, e) \in Seq(D)
      BY <2>1, AppendProperties
    <2>3. Only(Append(s, e), S) = << >>
      BY <2>1, OnlyAppend
    <2> QED
      BY <2>2, <2>3
  <1>3. G \in SUBSET Seq(D)
    OBVIOUS
  <1> HIDE DEF G
  <1>4. Seq(D) \subseteq G
    BY <1>1, <1>2, <1>3, SeqInduction
  <1> QED
    BY <1>4 DEF G

\* Keeping twice keeps what both keep.
LEMMA OnlyOnly ==
    ASSUME NEW D, NEW S, NEW T
    PROVE  \A s \in Seq(D) : Only(Only(s, S), T) = Only(s, S \cap T)
  <1> DEFINE G == {s \in Seq(D) : Only(Only(s, S), T) = Only(s, S \cap T)}
  <1>1. << >> \in G
    BY OnlyEmpty, EmptySeq
  <1>2. ASSUME NEW s \in G, NEW e \in D PROVE Append(s, e) \in G
    <2>1. s \in Seq(D) /\ Only(Only(s, S), T) = Only(s, S \cap T)
      OBVIOUS
    <2>2. Append(s, e) \in Seq(D) /\ Only(s, S) \in Seq(D)
      BY <2>1, AppendProperties, OnlyType
    <2>3. Only(Append(s, e), S) = IF e \in S THEN Append(Only(s, S), e) ELSE Only(s, S)
      BY <2>1, OnlyAppend
    <2>4. Only(Append(s, e), S \cap T)
             = IF e \in S \cap T THEN Append(Only(s, S \cap T), e) ELSE Only(s, S \cap T)
      BY <2>1, OnlyAppend
    <2>5. Only(Append(Only(s, S), e), T)
             = IF e \in T THEN Append(Only(Only(s, S), T), e) ELSE Only(Only(s, S), T)
      BY <2>2, OnlyAppend
    <2>6. Only(Only(Append(s, e), S), T) = Only(Append(s, e), S \cap T)
      <3>1. CASE e \in S
        <4>1. Only(Append(s, e), S) = Append(Only(s, S), e)
          BY <2>3, <3>1
        <4>2. e \in T <=> e \in S \cap T
          BY <3>1
        <4> QED
          BY <2>1, <2>4, <2>5, <4>1, <4>2
      <3>2. CASE e \notin S
        <4>1. Only(Append(s, e), S) = Only(s, S) /\ e \notin S \cap T
          BY <2>3, <3>2
        <4> QED
          BY <2>1, <2>4, <4>1
      <3> QED
        BY <3>1, <3>2
    <2> QED
      BY <2>2, <2>6
  <1>3. G \in SUBSET Seq(D)
    OBVIOUS
  <1> HIDE DEF G
  <1>4. Seq(D) \subseteq G
    BY <1>1, <1>2, <1>3, SeqInduction
  <1> QED
    BY <1>4 DEF G

-----------------------------------------------------------------------------
(* FlattenSeq of the community modules.                                    *)

\* One round of the recursion FlattenSeq is defined by.
FlattenRound(seqs, flatten, i) ==
    IF i = 1 THEN seqs[i] ELSE flatten[i - 1] \o seqs[i]

\* The recursion has a solution, of any length.
LEMMA FlattenDefined ==
    ASSUME NEW seqs, NEW m \in Nat
    PROVE  \E flatten : flatten = [i \in 1..m |-> FlattenRound(seqs, flatten, i)]
  <1> DEFINE Solves(f, k) == f = [i \in 1..k |-> FlattenRound(seqs, f, i)]
             N == {k \in Nat : \E f : Solves(f, k)}
  <1>1. 0 \in N
    <2> DEFINE f == [i \in 1..0 |-> << >>]
    <2>1. Solves(f, 0)
      BY DEF FlattenRound
    <2> QED
      BY <2>1
  <1>2. \A k \in N : k + 1 \in N
    <2> SUFFICES ASSUME NEW k \in N PROVE \E g : Solves(g, k + 1)
      OBVIOUS
    <2>1. PICK f : Solves(f, k)
      OBVIOUS
    <2>2. PICK g : g = [i \in 1..(k + 1) |-> FlattenRound(seqs, f, i)]
      OBVIOUS
    <2>3. \A i \in 1..k : g[i] = f[i]
      BY <2>1, <2>2
    <2>4. \A i \in 1..(k + 1) : FlattenRound(seqs, f, i) = FlattenRound(seqs, g, i)
      BY <2>3 DEF FlattenRound
    <2> QED
      BY <2>2, <2>4
  <1> HIDE DEF N
  <1>3. Nat \subseteq N
    <2>1. N \in SUBSET Nat
      BY DEF N
    <2> QED
      BY <1>1, <1>2, <2>1, NatSetInduction
  <1> QED
    BY <1>3 DEF N

\* FlattenSeq is the last round of a solution.
LEMMA FlattenIsLastRound ==
    ASSUME NEW D, NEW seqs \in Seq(D), seqs # << >>
    PROVE  \E flatten :
              /\ \A i \in 1..Len(seqs) : flatten[i] = FlattenRound(seqs, flatten, i)
              /\ FlattenSeq(seqs) = flatten[Len(seqs)]
  <1>1. Len(seqs) \in Nat /\ Len(seqs) # 0
    BY LenProperties, EmptySeq
  <1> DEFINE flatten ==
                CHOOSE f : f = [i \in 1..Len(seqs) |-> FlattenRound(seqs, f, i)]
  <1>2. flatten = [i \in 1..Len(seqs) |-> FlattenRound(seqs, flatten, i)]
    BY <1>1, FlattenDefined
  <1>3. FlattenSeq(seqs) = flatten[Len(seqs)]
    BY <1>1 DEF FlattenSeq, FlattenRound
  <1> HIDE DEF flatten
  <1> QED
    BY <1>2, <1>3

\* No sequences make the empty one.
LEMMA FlattenEmpty == FlattenSeq(<< >>) = << >>
  <1>1. Len(<< >>) = 0
    BY EmptySeq
  <1> QED
    BY <1>1 DEF FlattenSeq

\* The last sequence comes last.
LEMMA FlattenAppend ==
    ASSUME NEW D, NEW seqs \in Seq(Seq(D)), NEW last \in Seq(D)
    PROVE  FlattenSeq(Append(seqs, last)) = FlattenSeq(seqs) \o last
  <1> DEFINE more == Append(seqs, last)
  <1>1. /\ more \in Seq(Seq(D)) /\ more # << >>
        /\ Len(more) = Len(seqs) + 1 /\ Len(seqs) \in Nat
        /\ \A i \in 1..Len(seqs) : more[i] = seqs[i]
        /\ more[Len(seqs) + 1] = last
    BY AppendProperties, LenProperties
  <1> HIDE DEF more
  <1>2. PICK g : /\ \A i \in 1..Len(more) : g[i] = FlattenRound(more, g, i)
                 /\ FlattenSeq(more) = g[Len(more)]
    BY <1>1, FlattenIsLastRound
  <1>3. CASE seqs = << >>
    <2>1. Len(seqs) = 0
      BY <1>3, EmptySeq
    <2>2. FlattenSeq(more) = last
      BY <1>1, <1>2, <2>1 DEF FlattenRound
    <2>3. FlattenSeq(seqs) = << >> /\ << >> \o last = last
      BY <1>3, FlattenEmpty, ConcatEmptySeq
    <2> QED
      BY <2>2, <2>3 DEF more
  <1>4. CASE seqs # << >>
    <2>1. PICK f : /\ \A i \in 1..Len(seqs) : f[i] = FlattenRound(seqs, f, i)
                   /\ FlattenSeq(seqs) = f[Len(seqs)]
      BY <1>4, FlattenIsLastRound
    <2>2. Len(seqs) # 0
      BY <1>4, EmptySeq
    <2> DEFINE N == {n \in Nat : n + 1 <= Len(seqs) => g[n + 1] = f[n + 1]}
    <2>3. 0 \in N
      <3>1. 1 \in 1..Len(seqs) /\ 1 \in 1..Len(more)
        BY <1>1, <2>2
      <3>2. g[1] = more[1] /\ f[1] = seqs[1]
        BY <1>2, <2>1, <3>1 DEF FlattenRound
      <3> QED
        BY <1>1, <3>1, <3>2
    <2>4. ASSUME NEW n \in N PROVE n + 1 \in N
      <3>0. n \in Nat /\ n + 1 \in Nat
        OBVIOUS
      <3> SUFFICES ASSUME (n + 1) + 1 <= Len(seqs)
                   PROVE  g[(n + 1) + 1] = f[(n + 1) + 1]
        BY <3>0
      <3>1. PICK k : k = (n + 1) + 1
        OBVIOUS
      <3>2. /\ k # 1 /\ k - 1 = n + 1 /\ k \in 1..Len(seqs) /\ k \in 1..Len(more)
        BY <1>1, <3>0, <3>1
      <3>3. g[n + 1] = f[n + 1] /\ more[k] = seqs[k]
        BY <1>1, <3>0, <3>2
      <3>4. f[k] = FlattenRound(seqs, f, k) /\ g[k] = FlattenRound(more, g, k)
        BY <1>2, <2>1, <3>2
      <3> QED
        BY <3>1, <3>2, <3>3, <3>4 DEF FlattenRound
    <2> HIDE DEF N
    <2>5. Nat \subseteq N
      <3>1. N \in SUBSET Nat
        BY DEF N
      <3> QED
        BY <2>3, <2>4, <3>1, NatSetInduction
    <2>6. PICK n \in Nat : Len(seqs) = n + 1
      <3>1. Len(seqs) - 1 \in Nat /\ Len(seqs) = (Len(seqs) - 1) + 1
        BY <1>1, <2>2
      <3> QED
        BY <3>1
    <2>7. g[Len(seqs)] = f[Len(seqs)]
      BY <2>5, <2>6 DEF N
    <2>8. /\ Len(more) # 1 /\ Len(more) - 1 = Len(seqs)
          /\ Len(more) \in 1..Len(more)
      BY <1>1, <2>6
    <2>9. g[Len(more)] = g[Len(more) - 1] \o more[Len(more)]
      BY <1>2, <2>8 DEF FlattenRound
    <2>10. FlattenSeq(more) = FlattenSeq(seqs) \o last
      BY <1>1, <1>2, <2>1, <2>7, <2>8, <2>9
    <2> QED
      BY <2>10 DEF more
  <1> QED
    BY <1>3, <1>4

\* A flat sequence has the elements of its parts.
LEMMA FlattenType ==
    ASSUME NEW D
    PROVE  \A seqs \in Seq(Seq(D)) : FlattenSeq(seqs) \in Seq(D)
  <1> DEFINE G == {s \in Seq(Seq(D)) : FlattenSeq(s) \in Seq(D)}
  <1>1. << >> \in G
    BY FlattenEmpty, EmptySeq
  <1>2. ASSUME NEW s \in G, NEW e \in Seq(D) PROVE Append(s, e) \in G
    <2>1. s \in Seq(Seq(D)) /\ FlattenSeq(s) \in Seq(D)
      OBVIOUS
    <2>2. Append(s, e) \in Seq(Seq(D))
      BY <2>1, AppendProperties
    <2>3. FlattenSeq(Append(s, e)) = FlattenSeq(s) \o e
      BY <2>1, FlattenAppend
    <2>4. FlattenSeq(s) \o e \in Seq(D)
      BY <2>1, ConcatProperties
    <2> QED
      BY <2>2, <2>3, <2>4
  <1>3. G \in SUBSET Seq(Seq(D))
    OBVIOUS
  <1> HIDE DEF G
  <1>4. Seq(Seq(D)) \subseteq G
    BY <1>1, <1>2, <1>3, SeqInduction
  <1> QED
    BY <1>4 DEF G

\* The lower of two blocks.
Least(a, b) == IF a <= b THEN a ELSE b

\* The deposits, or the withdrawals, of the first n blocks.
Stock(n, kind) == Occurrences(FlattenSeq(SubSeq(chain, 1, n)), Own(kind, Me))

\* The rows up to a block, and those of one kind among them.
RowsTo(b) == {row \in Row : row.block <= b}
RowsOfKind(b, kind) == {row \in Row : row.block <= b /\ row.event.kind = kind}

\* The kinds of events that change a stake.
StakeKind == {"Deposited", "Withdrawn"}

-----------------------------------------------------------------------------
(* Events and rows.                                                        *)

\* An own event is one of its kind that names the account.
LEMMA OwnEvents ==
    ASSUME NEW e \in Event
    PROVE  /\ e.kind \in OwnKind => /\ e.who \in Account
                                    /\ e = Own(e.kind, e.who)
           /\ e.kind = "ProposalFinalized" => e = [kind |-> "ProposalFinalized"]
  BY DEF Event, OwnKind, Own

\* What the scan lists of the second run's account is what is of the profile.
LEMMA ListedIsOfProfile ==
    ASSUME NEW e \in Event
    PROVE  e \in {x \in Event : Listed(x, Me)} <=> e \in OfProfile
  <1>1. Me \in Account
    BY ProfileAssumption
  <1>2. CASE e \in [kind : OwnKind, who : Account]
    <2>1. /\ e.kind \in OwnKind /\ e.kind # "ProposalFinalized"
          /\ e.who \in Account /\ e = Own(e.kind, e.who)
      BY <1>2 DEF OwnKind, Own
    <2>2. Listed(e, Me) <=> e.who = Me
      BY <1>1, <2>1 DEF Listed, SameAccount
    <2>3. e \in OfProfile <=> e.who = Me
      <3>1. \A kind, who : Own(kind, who).who = who /\ Own(kind, who).kind = kind
        BY DEF Own
      <3>2. e # [kind |-> "ProposalFinalized"]
        BY <2>1
      <3> QED
        BY <2>1, <3>1, <3>2 DEF OfProfile
    <2> QED
      BY <2>2, <2>3
  <1>3. CASE e \in [kind : {"ProposalFinalized", "SwapExecuted", "VaultSeeded"}]
    <2>1. e.kind \notin OwnKind
      BY <1>3 DEF OwnKind
    <2>2. Listed(e, Me) <=> e.kind = "ProposalFinalized"
      BY <2>1 DEF Listed
    <2>3. e \in OfProfile <=> e.kind = "ProposalFinalized"
      <3>1. \A kind : Own(kind, Me).kind = kind
        BY DEF Own
      <3>2. \A kind \in OwnKind : e # Own(kind, Me)
        BY <2>1, <3>1
      <3> QED
        BY <1>3, <3>2 DEF OfProfile
    <2> QED
      BY <2>2, <2>3
  <1> QED
    BY <1>2, <1>3 DEF Event

\* Rows of a block are rows, one for each of the events.
LEMMA InBlockType ==
    ASSUME NEW b \in 1..MaxBlock, NEW t \in Seq(Event)
    PROVE  /\ InBlock(b, t) \in Seq({row \in Row : row.block = b})
           /\ Len(InBlock(b, t)) = Len(t)
  <1>1. Len(t) \in Nat /\ DOMAIN t = 1..Len(t) /\ \A i \in 1..Len(t) : t[i] \in Event
    BY LenProperties
  <1> DEFINE R == {row \in Row : row.block = b}
  <1>2. \A i \in 1..Len(t) : [block |-> b, event |-> t[i]] \in R
    BY <1>1 DEF Row
  <1>3. InBlock(b, t) = [i \in 1..Len(t) |-> [block |-> b, event |-> t[i]]]
    BY <1>1 DEF InBlock
  <1> HIDE DEF R
  <1>4. InBlock(b, t) \in [1..Len(t) -> R]
    BY <1>2, <1>3
  <1>5. InBlock(b, t) \in Seq(R)
    BY <1>1, <1>4, SeqDef
  <1>6. Len(InBlock(b, t)) = Len(t)
    <2>1. PICK list, n : list = InBlock(b, t) /\ n = Len(t)
      OBVIOUS
    <2>2. list \in [1..n -> R] /\ n \in Nat
      BY <1>1, <1>4, <2>1
    <2>3. Len(list) = n
      BY <2>2
    <2> QED
      BY <2>1, <2>3
  <1> QED
    BY <1>5, <1>6 DEF R

\* A block's last event makes its last row.
LEMMA InBlockAppend ==
    ASSUME NEW b \in 1..MaxBlock, NEW t \in Seq(Event), NEW e \in Event
    PROVE  InBlock(b, Append(t, e)) = Append(InBlock(b, t), [block |-> b, event |-> e])
  <1> DEFINE u == Append(t, e)
             row == [block |-> b, event |-> e]
             R == {r \in Row : r.block = b}
  <1>1. /\ u \in Seq(Event) /\ Len(u) = Len(t) + 1 /\ Len(t) \in Nat
        /\ \A i \in 1..Len(t) : u[i] = t[i]
        /\ u[Len(t) + 1] = e
        /\ DOMAIN u = 1..Len(u) /\ DOMAIN t = 1..Len(t)
    BY AppendProperties, LenProperties
  <1>2. /\ InBlock(b, t) \in Seq(R) /\ Len(InBlock(b, t)) = Len(t)
        /\ InBlock(b, u) \in Seq(R) /\ Len(InBlock(b, u)) = Len(u)
    BY <1>1, InBlockType
  <1>3. row \in R
    BY DEF Row
  <1> HIDE DEF u, R, row
  <1>4. /\ Append(InBlock(b, t), row) \in Seq(R)
        /\ Len(Append(InBlock(b, t), row)) = Len(t) + 1
        /\ \A i \in 1..Len(t) : Append(InBlock(b, t), row)[i] = InBlock(b, t)[i]
        /\ Append(InBlock(b, t), row)[Len(t) + 1] = row
    <2>1. PICK list \in Seq(R) : list = InBlock(b, t)
      BY <1>2
    <2>2. /\ Append(list, row) \in Seq(R)
          /\ Len(Append(list, row)) = Len(list) + 1
          /\ \A i \in 1..Len(list) : Append(list, row)[i] = list[i]
          /\ Append(list, row)[Len(list) + 1] = row
      BY <1>3, AppendProperties
    <2> QED
      BY <1>2, <2>1, <2>2
  <1>5. \A i \in 1..Len(u) : InBlock(b, u)[i] = Append(InBlock(b, t), row)[i]
    <2>1. ASSUME NEW i \in 1..Len(t) PROVE InBlock(b, u)[i] = InBlock(b, t)[i]
      BY <1>1 DEF InBlock
    <2>2. InBlock(b, u)[Len(t) + 1] = row
      BY <1>1 DEF InBlock, row
    <2>3. \A i \in 1..Len(u) : i \in 1..Len(t) \/ i = Len(t) + 1
      BY <1>1
    <2> QED
      BY <1>4, <2>1, <2>2, <2>3
  <1>6. InBlock(b, u) = Append(InBlock(b, t), row)
    BY <1>1, <1>2, <1>4, <1>5, SeqEqual
  <1> QED
    BY <1>6 DEF u, row

\* Keeping rows of a block by their events is keeping the events.
LEMMA OnlyInBlock ==
    ASSUME NEW b \in 1..MaxBlock, NEW R, NEW E,
           \A e \in Event : [block |-> b, event |-> e] \in R <=> e \in E
    PROVE  \A t \in Seq(Event) : Only(InBlock(b, t), R) = InBlock(b, Only(t, E))
  <1> DEFINE G == {t \in Seq(Event) : Only(InBlock(b, t), R) = InBlock(b, Only(t, E))}
  <1>1. << >> \in G
    <2>1. InBlock(b, << >>) = << >>
      BY DEF InBlock
    <2> QED
      BY <2>1, OnlyEmpty, EmptySeq
  <1>2. ASSUME NEW t \in G, NEW e \in Event PROVE Append(t, e) \in G
    <2>1. t \in Seq(Event) /\ Only(InBlock(b, t), R) = InBlock(b, Only(t, E))
      OBVIOUS
    <2> DEFINE row == [block |-> b, event |-> e]
               rows0 == InBlock(b, t)
    <2>2. Append(t, e) \in Seq(Event) /\ Only(t, E) \in Seq(Event)
      BY <2>1, AppendProperties, OnlyType
    <2>3. InBlock(b, Append(t, e)) = Append(rows0, row)
      BY <2>1, InBlockAppend
    <2>4. rows0 \in Seq(Row) /\ row \in Row
      <3>1. rows0 \in Seq({r \in Row : r.block = b})
        BY <2>1, InBlockType
      <3>2. {r \in Row : r.block = b} \subseteq Row
        OBVIOUS
      <3>3. rows0 \in Seq(Row)
        BY <3>1, <3>2, SeqMonotonic
      <3> QED
        BY <3>3 DEF Row
    <2>5. row \in R <=> e \in E
      OBVIOUS
    <2> HIDE DEF row, rows0
    <2>6. Only(Append(rows0, row), R)
             = IF row \in R THEN Append(Only(rows0, R), row) ELSE Only(rows0, R)
      BY <2>4, OnlyAppend
    <2>7. Only(Append(t, e), E) = IF e \in E THEN Append(Only(t, E), e) ELSE Only(t, E)
      BY <2>1, OnlyAppend
    <2>8. InBlock(b, Append(Only(t, E), e)) = Append(InBlock(b, Only(t, E)), row)
      BY <2>2, InBlockAppend DEF row
    <2>9. Only(rows0, R) = InBlock(b, Only(t, E))
      BY <2>1 DEF rows0
    <2>10. Only(InBlock(b, Append(t, e)), R) = InBlock(b, Only(Append(t, e), E))
      BY <2>3, <2>5, <2>6, <2>7, <2>8, <2>9
    <2> QED
      BY <2>2, <2>10
  <1>3. G \in SUBSET Seq(Event)
    OBVIOUS
  <1> HIDE DEF G
  <1>4. Seq(Event) \subseteq G
    BY <1>1, <1>2, <1>3, SeqInduction
  <1> QED
    BY <1>4 DEF G

\* The events of a block, seen as those of the best chain.
LEMMA BlockEvents ==
    ASSUME chain \in Seq(Seq(Emitted)), Len(chain) <= MaxBlock,
           NEW b \in 1..Len(chain)
    PROVE  chain[b] \in Seq(Event) /\ b \in 1..MaxBlock /\ b \in Nat
  <1>1. chain[b] \in Seq(Emitted) /\ Len(chain) \in Nat
    BY ElementOfSeq, LenProperties
  <1>2. chain[b] \in Seq(Event)
    BY <1>1, ProfileAssumption, SeqMonotonic
  <1> QED
    BY <1>1, <1>2, ProfileAssumption

-----------------------------------------------------------------------------
(* The history.                                                            *)

\* The history of one block.
BlockHistory(b) == InBlock(b, Only(chain[b], OfProfile))

\* The history of a block is made of that block's rows.
LEMMA BlockHistoryType ==
    ASSUME chain \in Seq(Seq(Emitted)), Len(chain) <= MaxBlock,
           NEW b \in 1..Len(chain)
    PROVE  BlockHistory(b) \in Seq({row \in Row : row.block = b})
  BY BlockEvents, OnlyType, InBlockType DEF BlockHistory

\* No blocks, no history.
LEMMA HistoryEmpty ==
    ASSUME NEW low \in Int, NEW high \in Int, low > high
    PROVE  History(low, high) = << >>
  <1>1. 1..(high + 1 - low) = {}
    OBVIOUS
  <1>2. [i \in 1..(high + 1 - low) |->
            InBlock(high + 1 - i, Only(chain[high + 1 - i], OfProfile))] = << >>
    BY <1>1
  <1> QED
    BY <1>2, FlattenEmpty DEF History

\* A block more at the lower end comes last.
LEMMA HistoryBelow ==
    ASSUME chain \in Seq(Seq(Emitted)), Len(chain) <= MaxBlock,
           NEW high \in 1..Len(chain), NEW low \in 1..high
    PROVE  /\ History(low, high) = History(low + 1, high) \o BlockHistory(low)
           /\ History(low, high) \in Seq(Row)
           /\ History(low + 1, high) \in Seq(Row)
  <1> DEFINE n == high - low
             f == [i \in 1..n |-> BlockHistory(high + 1 - i)]
             g == [i \in 1..(n + 1) |-> BlockHistory(high + 1 - i)]
  <1>1. /\ Len(chain) \in Nat /\ high \in Nat /\ low \in Nat /\ n \in Nat
        /\ high + 1 - low = n + 1 /\ high + 1 - (low + 1) = n
        /\ high + 1 - (n + 1) = low
    BY LenProperties
  <1>2. ASSUME NEW b \in 1..Len(chain)
        PROVE  BlockHistory(b) \in Seq(Row)
    <2>1. BlockHistory(b) \in Seq({row \in Row : row.block = b})
      BY BlockHistoryType
    <2>2. {row \in Row : row.block = b} \subseteq Row
      OBVIOUS
    <2> QED
      BY <2>1, <2>2, SeqMonotonic
  <1>3. History(low + 1, high) = FlattenSeq(f)
    BY <1>1 DEF History, BlockHistory
  <1>4. History(low, high) = FlattenSeq(g)
    BY <1>1 DEF History, BlockHistory
  <1>5. /\ \A i \in 1..(n + 1) : high + 1 - i \in 1..Len(chain)
        /\ \A i \in 1..n : i \in 1..(n + 1)
    BY <1>1
  <1>6. /\ f \in [1..n -> Seq(Row)] /\ g \in [1..(n + 1) -> Seq(Row)]
    BY <1>2, <1>5
  <1>7. /\ g[n + 1] = BlockHistory(low)
        /\ \A i \in 1..n : g[i] = f[i]
    BY <1>1, <1>5
  <1> HIDE DEF f, g, n
  <1>8. /\ f \in Seq(Seq(Row)) /\ g \in Seq(Seq(Row))
        /\ Len(f) = n /\ Len(g) = n + 1
    BY <1>1, <1>6, SeqDef, LenProperties
  <1>9. BlockHistory(low) \in Seq(Row)
    BY <1>1, <1>2
  <1>10. /\ Append(f, BlockHistory(low)) \in Seq(Seq(Row))
         /\ Len(Append(f, BlockHistory(low))) = n + 1
         /\ \A i \in 1..n : Append(f, BlockHistory(low))[i] = f[i]
         /\ Append(f, BlockHistory(low))[n + 1] = BlockHistory(low)
    BY <1>8, <1>9, AppendProperties
  <1>11. g = Append(f, BlockHistory(low))
    <2>1. \A i \in 1..(n + 1) : i \in 1..n \/ i = n + 1
      BY <1>1
    <2>2. \A i \in 1..(n + 1) : g[i] = Append(f, BlockHistory(low))[i]
      BY <1>7, <1>10, <2>1
    <2> QED
      BY <1>8, <1>10, <2>2, SeqEqual
  <1>12. FlattenSeq(g) = FlattenSeq(f) \o BlockHistory(low)
    BY <1>8, <1>9, <1>11, FlattenAppend
  <1>13. FlattenSeq(f) \in Seq(Row) /\ FlattenSeq(g) \in Seq(Row)
    BY <1>8, FlattenType
  <1> QED
    BY <1>3, <1>4, <1>12, <1>13

\* The history of blocks that stay is the same.
LEMMA HistoryStays ==
    ASSUME NEW low \in Int, NEW high \in Int,
           \A b \in low..high : chain'[b] = chain[b]
    PROVE  History(low, high)' = History(low, high)
  <1>1. \A i \in 1..(high + 1 - low) : high + 1 - i \in low..high
    OBVIOUS
  <1>2. \A i \in 1..(high + 1 - low) : chain'[high + 1 - i] = chain[high + 1 - i]
    BY <1>1
  <1>3. [i \in 1..(high + 1 - low) |->
            InBlock(high + 1 - i, Only(chain'[high + 1 - i], OfProfile))]
          = [i \in 1..(high + 1 - low) |->
               InBlock(high + 1 - i, Only(chain[high + 1 - i], OfProfile))]
    BY <1>2
  <1> QED
    BY <1>3 DEF History, OfProfile

\* What a scan finds in a block is the block's history.
LEMMA RowsAreHistory ==
    ASSUME chain \in Seq(Seq(Emitted)), Len(chain) <= MaxBlock,
           NEW b \in 1..Len(chain)
    PROVE  RowsOf(b, Me) = BlockHistory(b)
  <1>1. chain[b] \in Seq(Event)
    BY BlockEvents
  <1>2. Only(chain[b], {e \in Event : Listed(e, Me)}) = Only(chain[b], OfProfile)
    <2> DEFINE L == {e \in Event : Listed(e, Me)}
    <2>1. \A e \in Event : e \in L <=> e \in OfProfile
      BY ListedIsOfProfile
    <2> HIDE DEF L
    <2>2. Only(chain[b], L) = Only(chain[b], OfProfile)
      BY <1>1, <2>1, OnlyAgree
    <2> QED
      BY <2>2 DEF L
  <1> QED
    BY <1>2 DEF RowsOf, BlockHistory

-----------------------------------------------------------------------------
(* The table.                                                              *)

\* Rows that are found from the newest block down, are sorted.
Descending(out) ==
    \A i, j \in DOMAIN out : i < j => out[i].block >= out[j].block

\* Sorting changes nothing of such rows.
LEMMA SortedIsSame ==
    ASSUME NEW out \in Seq(Row), Descending(out)
    PROVE  SortedRows(out) = out
  <1> DEFINE Before(i) == {j \in DOMAIN out :
                              \/ out[j].block > out[i].block
                              \/ out[j].block = out[i].block /\ j < i}
             At(n) == CHOOSE i \in DOMAIN out : Cardinality(Before(i)) = n - 1
  <1>1. /\ Len(out) \in Nat /\ DOMAIN out = 1..Len(out)
        /\ \A i \in 1..Len(out) : out[i].block \in Nat
    <2>1. Len(out) \in Nat /\ DOMAIN out = 1..Len(out)
      BY LenProperties
    <2>2. ASSUME NEW i \in 1..Len(out) PROVE out[i].block \in Nat
      <3>1. out[i] \in Row
        BY ElementOfSeq
      <3>2. out[i].block \in 1..MaxBlock
        BY <3>1 DEF Row
      <3> QED
        BY <3>2, ProfileAssumption
    <2> QED
      BY <2>1, <2>2
  <1>2. ASSUME NEW i \in 1..Len(out) PROVE Cardinality(Before(i)) = i - 1
    <2>1. \A j \in 1..Len(out) : j \in Before(i) <=> j < i
      BY <1>1, <1>2 DEF Descending
    <2>2. Before(i) = 1..(i - 1)
      BY <1>1, <2>1
    <2>3. Cardinality(1..(i - 1)) = i - 1
      BY <1>1, FS_Interval
    <2> QED
      BY <2>2, <2>3
  <1> HIDE DEF Before
  <1>3. ASSUME NEW n \in 1..Len(out) PROVE At(n) = n
    <2>1. n \in Int /\ 1..Len(out) \subseteq Int
      BY <1>1
    <2>2. ASSUME NEW i \in 1..Len(out) PROVE Cardinality(Before(i)) = n - 1 <=> i = n
      <3>1. Cardinality(Before(i)) = i - 1 /\ i \in Int
        BY <1>2, <2>1
      <3> QED
        BY <2>1, <3>1
    <2>3. At(n) \in 1..Len(out) /\ Cardinality(Before(At(n))) = n - 1
      <3>1. \E i \in DOMAIN out : Cardinality(Before(i)) = n - 1
        BY <1>1, <2>2
      <3>2. At(n) \in DOMAIN out /\ Cardinality(Before(At(n))) = n - 1
        BY <3>1
      <3> QED
        BY <1>1, <3>2
    <2> QED
      BY <2>2, <2>3
  <1>4. SortedRows(out) = [n \in DOMAIN out |-> out[At(n)]]
    BY DEF SortedRows, Before
  <1> HIDE DEF At
  <1>5. [n \in DOMAIN out |-> out[At(n)]] = [n \in DOMAIN out |-> out[n]]
    BY <1>1, <1>3
  <1>6. [n \in DOMAIN out |-> out[n]] = out
    BY LenProperties
  <1> QED
    BY <1>4, <1>5, <1>6

\* The chain, as the lemmas below need it.
ChainOK == chain \in Seq(Seq(Emitted)) /\ Len(chain) <= MaxBlock

\* The chain is a sequence of blocks of events.
LEMMA ChainOfEvents ==
    ASSUME ChainOK
    PROVE  /\ chain \in Seq(Seq(Event))
           /\ Len(chain) \in Nat
           /\ FlattenSeq(chain) \in Seq(Event)
  <1>1. Seq(Emitted) \subseteq Seq(Event)
    BY ProfileAssumption, SeqMonotonic
  <1>2. chain \in Seq(Seq(Event))
    BY <1>1, SeqMonotonic DEF ChainOK
  <1> QED
    BY <1>2, LenProperties, FlattenType

\* A number of occurrences is a natural number, and adds up.
LEMMA OccurrencesOfConcat ==
    ASSUME NEW s \in Seq(Event), NEW t \in Seq(Event), NEW e
    PROVE  /\ Occurrences(s, e) \in Nat
           /\ Occurrences(s \o t, e) = Occurrences(s, e) + Occurrences(t, e)
  <1>1. Only(s, {e}) \in Seq(Event) /\ Only(t, {e}) \in Seq(Event)
    BY OnlyType
  <1>2. Only(s \o t, {e}) = Only(s, {e}) \o Only(t, {e})
    BY OnlyConcat
  <1>3. Len(Only(s, {e}) \o Only(t, {e})) = Len(Only(s, {e})) + Len(Only(t, {e}))
    BY <1>1, ConcatProperties
  <1> QED
    BY <1>1, <1>2, <1>3, LenProperties DEF Occurrences

\* The first n blocks.
LEMMA FirstBlocks ==
    ASSUME ChainOK, NEW n \in 0..Len(chain)
    PROVE  /\ SubSeq(chain, 1, n) \in Seq(Seq(Event))
           /\ Len(SubSeq(chain, 1, n)) = n
           /\ \A i \in 1..n : SubSeq(chain, 1, n)[i] = chain[i]
           /\ FlattenSeq(SubSeq(chain, 1, n)) \in Seq(Event)
  <1>1. Len(chain) \in Nat /\ \A i \in 1..Len(chain) : chain[i] \in Seq(Event)
    BY ChainOfEvents, ElementOfSeq
  <1>2. n \in Int /\ 1 \in Int /\ \A i \in 1..n : chain[i] \in Seq(Event)
    BY <1>1
  <1>3. /\ SubSeq(chain, 1, n) \in Seq(Seq(Event))
        /\ Len(SubSeq(chain, 1, n)) = IF 1 <= n THEN n - 1 + 1 ELSE 0
        /\ \A i \in 1..(n - 1 + 1) : SubSeq(chain, 1, n)[i] = chain[1 + i - 1]
    BY <1>2, SubSeqProperties
  <1>4. n - 1 + 1 = n /\ n \in Nat /\ \A i \in 1..n : 1 + i - 1 = i
    BY <1>1
  <1>5. /\ Len(SubSeq(chain, 1, n)) = n
        /\ \A i \in 1..n : SubSeq(chain, 1, n)[i] = chain[i]
    <2>1. \A i \in 1..n : SubSeq(chain, 1, n)[i] = chain[1 + i - 1]
      BY <1>3, <1>4
    <2>2. \A i \in 1..n : SubSeq(chain, 1, n)[i] = chain[i]
      BY <1>4, <2>1
    <2>3. Len(SubSeq(chain, 1, n)) = n
      BY <1>3, <1>4
    <2> QED
      BY <2>2, <2>3
  <1> QED
    BY <1>3, <1>5, FlattenType

\* Nothing is deposited in no blocks.
LEMMA StockOfNone ==
    ASSUME NEW kind
    PROVE  Stock(0, kind) = 0
  <1>1. SubSeq(chain, 1, 0) = << >>
    BY SubSeqEmpty
  <1>2. Only(<< >>, {Own(kind, Me)}) = << >>
    BY OnlyEmpty
  <1>3. Len(<< >>) = 0
    OBVIOUS
  <1> QED
    BY <1>1, <1>2, <1>3, FlattenEmpty DEF Stock, Occurrences

\* A block more adds its deposits.
LEMMA StockOfNext ==
    ASSUME ChainOK, NEW n \in 1..Len(chain), NEW kind
    PROVE  /\ Stock(n, kind) = Stock(n - 1, kind) + Occurrences(chain[n], Own(kind, Me))
           /\ Stock(n, kind) \in Nat /\ Stock(n - 1, kind) \in Nat
  <1> DEFINE s == SubSeq(chain, 1, n - 1)
             t == SubSeq(chain, 1, n)
  <1>1. Len(chain) \in Nat /\ n \in Nat /\ n - 1 \in 0..Len(chain) /\ n \in 0..Len(chain)
    BY ChainOfEvents
  <1>2. chain[n] \in Seq(Event)
    BY ChainOfEvents, ElementOfSeq
  <1>3. /\ s \in Seq(Seq(Event)) /\ Len(s) = n - 1
        /\ \A i \in 1..(n - 1) : s[i] = chain[i]
        /\ t \in Seq(Seq(Event)) /\ Len(t) = n
        /\ \A i \in 1..n : t[i] = chain[i]
        /\ FlattenSeq(s) \in Seq(Event) /\ FlattenSeq(t) \in Seq(Event)
    BY <1>1, FirstBlocks
  <1>4. Stock(n, kind) = Occurrences(FlattenSeq(t), Own(kind, Me))
    BY DEF Stock
  <1>5. Stock(n - 1, kind) = Occurrences(FlattenSeq(s), Own(kind, Me))
    BY DEF Stock
  <1> HIDE DEF s, t
  <1>6. /\ Append(s, chain[n]) \in Seq(Seq(Event))
        /\ Len(Append(s, chain[n])) = n
        /\ \A i \in 1..(n - 1) : Append(s, chain[n])[i] = s[i]
        /\ Append(s, chain[n])[n] = chain[n]
    <2>1. /\ Append(s, chain[n]) \in Seq(Seq(Event))
          /\ Len(Append(s, chain[n])) = Len(s) + 1
          /\ \A i \in 1..Len(s) : Append(s, chain[n])[i] = s[i]
          /\ Append(s, chain[n])[Len(s) + 1] = chain[n]
      BY <1>2, <1>3, AppendProperties
    <2>2. Len(s) + 1 = n
      BY <1>1, <1>3
    <2> QED
      BY <1>3, <2>1, <2>2
  <1>7. \A i \in 1..n : t[i] = Append(s, chain[n])[i]
    <2>1. \A i \in 1..n : i \in 1..(n - 1) \/ i = n
      BY <1>1
    <2> QED
      BY <1>3, <1>6, <2>1
  <1>8. t = Append(s, chain[n])
    BY <1>3, <1>6, <1>7, SeqEqual
  <1>9. FlattenSeq(t) = FlattenSeq(s) \o chain[n]
    BY <1>2, <1>3, <1>8, FlattenAppend
  <1>10. /\ Stock(n, kind)
               = Stock(n - 1, kind) + Occurrences(chain[n], Own(kind, Me))
         /\ Stock(n, kind) \in Nat /\ Stock(n - 1, kind) \in Nat
    <2>1. /\ Occurrences(FlattenSeq(s) \o chain[n], Own(kind, Me))
                = Occurrences(FlattenSeq(s), Own(kind, Me))
                     + Occurrences(chain[n], Own(kind, Me))
          /\ Occurrences(FlattenSeq(s), Own(kind, Me)) \in Nat
          /\ Occurrences(FlattenSeq(t), Own(kind, Me)) \in Nat
      BY <1>2, <1>3, OccurrencesOfConcat
    <2> QED
      BY <1>4, <1>5, <1>9, <2>1
  <1> QED
    BY <1>10

\* The stock is a number.
LEMMA StockType ==
    ASSUME ChainOK, NEW n \in 0..Len(chain), NEW kind
    PROVE  Stock(n, kind) \in Nat
  <1>1. FlattenSeq(SubSeq(chain, 1, n)) \in Seq(Event)
    BY FirstBlocks
  <1> QED
    BY <1>1, OccurrencesOfConcat DEF Stock

\* All the blocks hold all the deposits.
LEMMA StockOfAll ==
    ASSUME ChainOK, NEW kind
    PROVE  Stock(Len(chain), kind) = Occurrences(FlattenSeq(chain), Own(kind, Me))
  <1>1. SubSeq(chain, 1, Len(chain)) = chain
    BY ChainOfEvents, SubSeqFull
  <1> QED
    BY <1>1 DEF Stock

\* The stock at a block is the same as long as the blocks are.
LEMMA StockStays ==
    ASSUME ChainOK, ChainOK', NEW n \in Int, n >= 0, n <= Len(chain), n <= Len(chain'),
           \A i \in 1..n : chain'[i] = chain[i], NEW kind
    PROVE  Stock(n, kind)' = Stock(n, kind)
  <1>1. Len(chain) \in Nat /\ Len(chain') \in Nat
    BY ChainOfEvents, LenProperties DEF ChainOK
  <1>2. n \in 0..Len(chain)
    BY <1>1
  <1>3. /\ SubSeq(chain, 1, n) \in Seq(Seq(Event)) /\ Len(SubSeq(chain, 1, n)) = n
        /\ \A i \in 1..n : SubSeq(chain, 1, n)[i] = chain[i]
    BY <1>2, FirstBlocks
  <1>4. /\ SubSeq(chain', 1, n) \in Seq(Seq(Event)) /\ Len(SubSeq(chain', 1, n)) = n
        /\ \A i \in 1..n : SubSeq(chain', 1, n)[i] = chain'[i]
    <2>1. chain' \in Seq(Seq(Emitted))
      BY DEF ChainOK
    <2>2. Seq(Emitted) \subseteq Seq(Event)
      BY ProfileAssumption, SeqMonotonic
    <2>3. chain' \in Seq(Seq(Event))
      BY <2>1, <2>2, SeqMonotonic
    <2>4. \A i \in 1..n : chain'[i] \in Seq(Event)
      BY <1>1, <2>3, ElementOfSeq
    <2>5. n \in Int /\ 1 \in Int
      OBVIOUS
    <2>6. /\ SubSeq(chain', 1, n) \in Seq(Seq(Event))
          /\ Len(SubSeq(chain', 1, n)) = IF 1 <= n THEN n - 1 + 1 ELSE 0
          /\ \A i \in 1..(n - 1 + 1) : SubSeq(chain', 1, n)[i] = chain'[1 + i - 1]
      BY <2>4, <2>5, SubSeqProperties
    <2>7. n - 1 + 1 = n /\ \A i \in 1..n : 1 + i - 1 = i
      OBVIOUS
    <2>8. \A i \in 1..n : SubSeq(chain', 1, n)[i] = chain'[1 + i - 1]
      BY <2>6, <2>7
    <2>9. \A i \in 1..n : SubSeq(chain', 1, n)[i] = chain'[i]
      BY <2>7, <2>8
    <2>10. Len(SubSeq(chain', 1, n)) = n
      BY <2>6, <2>7
    <2> QED
      BY <2>6, <2>9, <2>10
  <1>5. SubSeq(chain', 1, n) = SubSeq(chain, 1, n)
    BY <1>3, <1>4, SeqEqual
  <1> QED
    BY <1>5 DEF Stock, Own, Occurrences

\* The deposits among a block's rows are those of the block, up to a block m.
LEMMA KindRows ==
    ASSUME ChainOK, NEW b \in 1..Len(chain), NEW m \in Int, NEW kind \in StakeKind
    PROVE  Len(Only(RowsOf(b, Me), RowsOfKind(m, kind)))
              = IF b <= m THEN Occurrences(chain[b], Own(kind, Me)) ELSE 0
  <1> DEFINE R == {row \in Row : row.block = b}
             K == RowsOfKind(m, kind)
             E == {e \in Event : e.kind = kind}
             L == {e \in Event : Listed(e, Me)}
             t == chain[b]
  <1>1. t \in Seq(Event) /\ b \in 1..MaxBlock /\ b \in Nat
    BY BlockEvents DEF ChainOK
  <1>2. Only(t, L) \in Seq(Event)
    BY <1>1, OnlyType
  <1>3. RowsOf(b, Me) = InBlock(b, Only(t, L))
    BY DEF RowsOf
  <1>4. RowsOf(b, Me) \in Seq(R)
    BY <1>1, <1>2, <1>3, InBlockType
  <1>5. CASE b <= m
    <2>1. \A e \in Event : [block |-> b, event |-> e] \in K <=> e \in E
      BY <1>1, <1>5 DEF RowsOfKind, Row
    <2> HIDE DEF K, E, L, t
    <2>2. Only(RowsOf(b, Me), K) = InBlock(b, Only(Only(t, L), E))
      BY <1>1, <1>2, <1>3, <2>1, OnlyInBlock
    <2>3. Only(Only(t, L), E) = Only(t, L \cap E)
      BY <1>1, OnlyOnly
    <2>4. \A e \in Event : e \in L \cap E <=> e \in {Own(kind, Me)}
      <3>1. Me \in Account /\ kind \in OwnKind /\ kind # "ProposalFinalized"
        BY ProfileAssumption DEF StakeKind, OwnKind
      <3>2. Own(kind, Me).kind = kind /\ Own(kind, Me).who = Me
        BY DEF Own
      <3>3. ASSUME NEW e \in Event, e.kind = kind, Listed(e, Me)
            PROVE  e = Own(kind, Me)
        <4>1. e.who \in Account /\ e = Own(e.kind, e.who)
          BY <3>1, <3>3, OwnEvents
        <4>2. e.who = Me
          BY <3>1, <3>3 DEF Listed, SameAccount
        <4> QED
          BY <3>3, <4>1, <4>2
      <3>4. Listed(Own(kind, Me), Me)
        BY <3>1, <3>2 DEF Listed, SameAccount
      <3> QED
        BY <3>2, <3>3, <3>4 DEF L, E
    <2>5. Only(t, L \cap E) = Only(t, {Own(kind, Me)})
      BY <1>1, <2>4, OnlyAgree
    <2>6. Only(t, {Own(kind, Me)}) \in Seq(Event)
      BY <1>1, OnlyType
    <2>7. Len(InBlock(b, Only(t, {Own(kind, Me)}))) = Len(Only(t, {Own(kind, Me)}))
      BY <1>1, <2>6, InBlockType
    <2>8. Len(Only(RowsOf(b, Me), K)) = Occurrences(t, Own(kind, Me))
      BY <2>2, <2>3, <2>5, <2>7 DEF Occurrences
    <2> QED
      BY <1>5, <2>8 DEF K, t
  <1>6. CASE ~(b <= m)
    <2>1. \A row \in R : row \notin K
      BY <1>6 DEF RowsOfKind
    <2> HIDE DEF K, R
    <2>2. Only(RowsOf(b, Me), K) = << >>
      BY <1>4, <2>1, OnlyNone
    <2> QED
      BY <1>6, <2>2 DEF K
  <1> QED
    BY <1>5, <1>6

\* What is found of a block is the block's history, or is not looked at.
LEMMA RowsBelow ==
    ASSUME ChainOK, NEW b \in 1..Len(chain), NEW m \in Int
    PROVE  Only(RowsOf(b, Me), RowsTo(m))
              = IF b <= m THEN BlockHistory(b) ELSE << >>
  <1> DEFINE R == {row \in Row : row.block = b}
             K == RowsTo(m)
  <1>1. RowsOf(b, Me) = BlockHistory(b) /\ BlockHistory(b) \in Seq(R)
    BY RowsAreHistory, BlockHistoryType DEF ChainOK
  <1>2. b \in Nat
    BY BlockEvents DEF ChainOK
  <1>3. CASE b <= m
    <2>1. \A row \in R : row \in K <=> row \in R
      BY <1>3 DEF RowsTo
    <2> HIDE DEF K, R
    <2>2. Only(BlockHistory(b), K) = Only(BlockHistory(b), R)
      BY <1>1, <2>1, OnlyAgree
    <2>3. Only(BlockHistory(b), R) = BlockHistory(b)
      BY <1>1, OnlyAll
    <2> QED
      BY <1>1, <1>3, <2>2, <2>3 DEF K
  <1>4. CASE ~(b <= m)
    <2>1. \A row \in R : row \notin K
      BY <1>4 DEF RowsTo
    <2> HIDE DEF K, R
    <2>2. Only(BlockHistory(b), K) = << >>
      BY <1>1, <2>1, OnlyNone
    <2> QED
      BY <1>1, <1>4, <2>2 DEF K
  <1> QED
    BY <1>3, <1>4

-----------------------------------------------------------------------------
(* The parts of the invariant.                                             *)

\* A chain is possible.  What a scan has found, below the last block that was
\* final when it began, is the history of the blocks it has read, the newest
\* first; and it is in its window.
ScanInv ==
    /\ chain # << >> => Possible(chain)
    /\ scan[2].sure <= final
    /\ phase[2] \in {"idle", "enabling", "connecting", "stake", "head"}
          => scan[2].out = << >>
    /\ phase[2] = "scanning" =>
          /\ scan[2].next >= From(scan[2].head)
          /\ scan[2].head <= Len(chain)
          /\ \A i \in DOMAIN scan[2].out : scan[2].out[i].block > scan[2].next
          /\ \A i, j \in DOMAIN scan[2].out :
                i < j => scan[2].out[i].block >= scan[2].out[j].block
          /\ Only(scan[2].out, RowsTo(scan[2].sure))
                = History(scan[2].next + 1, scan[2].sure)
    /\ ListIsHistory

\* Unless the chain has forked, the stake is what is left of the deposits up to
\* the block it was read at, and the rows hold those of them that lie above
\* what is still to be read.
StakeInv == ~forked =>
    /\ scan[2].since <= Len(chain)
    /\ phase[2] \in {"head", "scanning", "shown", "cut"} =>
          stake = Stock(scan[2].since, "Deposited") - Stock(scan[2].since, "Withdrawn")
    /\ phase[2] = "scanning" =>
          /\ scan[2].since <= scan[2].head
          /\ \A kind \in StakeKind :
                Stock(scan[2].since, kind)
                   = Stock(Least(scan[2].next, scan[2].since), kind)
                       + Len(Only(scan[2].out, RowsOfKind(scan[2].since, kind)))
    /\ phase[2] = "shown" /\ From(scan[2].head) = 1 =>
          \A kind \in StakeKind :
             Stock(scan[2].since, kind) = Len(Only(rows, RowsOfKind(scan[2].since, kind)))

\* The table is on its first page until it is shown, and then on one it has.
PageInv ==
    /\ loading => tablePage = 0
    /\ TableShown => tablePage * rowsPerPage < Len(rows)

\* The window begins at a block, and not above the head.
LEMMA FromType ==
    ASSUME NEW head \in Nat
    PROVE  /\ From(head) \in Nat /\ From(head) >= 1
           /\ head >= 1 <=> head >= From(head)
           /\ head = 0 => From(head) = 1
  BY ProfileAssumption DEF From

\* What the type invariant says of the second run.
LEMMA SecondRun ==
    ASSUME ProfileTypeOK
    PROVE  /\ ChainOK
           /\ Len(chain) \in Nat /\ final \in Nat /\ final <= Len(chain) /\ MaxBlock \in Nat
           /\ scan[2].head \in 0..MaxBlock /\ scan[2].head \in Nat
           /\ scan[2].next \in 0..MaxBlock /\ scan[2].next \in Nat
           /\ scan[2].out \in Seq(Row)
           /\ scan[2].since \in 0..MaxBlock /\ scan[2].since \in Nat
           /\ scan[2].sure \in 0..MaxBlock /\ scan[2].sure \in Nat
           /\ From(scan[2].head) \in Nat /\ From(scan[2].head) >= 1
           /\ phase[2] = "scanning" => scan[2].next \in 1..scan[2].head
  <1>1. ChainOK
    BY DEF ProfileTypeOK, ChainOK
  <1>2. Len(chain) \in Nat /\ final \in Nat /\ final <= Len(chain) /\ MaxBlock \in Nat
    BY <1>1, ChainOfEvents, ProfileAssumption DEF ProfileTypeOK
  <1>3. scan[2] \in [head : 0..MaxBlock, next : 0..MaxBlock, out : Seq(Row),
                     since : 0..MaxBlock, sure : 0..MaxBlock]
    BY DEF ProfileTypeOK, Run
  <1>4. /\ scan[2].head \in 0..MaxBlock /\ scan[2].next \in 0..MaxBlock
        /\ scan[2].out \in Seq(Row)
        /\ scan[2].since \in 0..MaxBlock /\ scan[2].sure \in 0..MaxBlock
    BY <1>3
  <1>5. /\ scan[2].head \in Nat /\ scan[2].next \in Nat
        /\ scan[2].since \in Nat /\ scan[2].sure \in Nat
    BY <1>2, <1>4
  <1>6. From(scan[2].head) \in Nat /\ From(scan[2].head) >= 1
    BY <1>5, FromType
  <1>7. phase[2] = "scanning" => scan[2].next \in 1..scan[2].head
    BY DEF ProfileTypeOK, Run
  <1> QED
    BY <1>1, <1>2, <1>4, <1>5, <1>6, <1>7

\* Of the account's events on a chain, at least as many are deposits.
LEMMA StakeIsCovered ==
    ASSUME ProfileTypeOK, chain # << >> => Possible(chain)
    PROVE  /\ StakeAfter(FlattenSeq(chain), Me)
                 = Stock(Len(chain), "Deposited") - Stock(Len(chain), "Withdrawn")
           /\ StakeAfter(FlattenSeq(chain), Me) \in Nat
  <1> DEFINE h == FlattenSeq(chain)
  <1>1. h \in Seq(Event) /\ ChainOK /\ Len(h) \in Nat
    BY SecondRun, ChainOfEvents, LenProperties
  <1>2. Me \in Account
    BY ProfileAssumption
  <1>3. StakeAfter(h, Me) = Occurrences(h, Own("Deposited", Me))
                               - Occurrences(h, Own("Withdrawn", Me))
    BY DEF StakeAfter
  <1>4. StakeAfter(h, Me) \in Int
    BY <1>1, <1>3, OccurrencesOfConcat
  <1>5. StakeAfter(h, Me) >= 0
    <2>1. CASE h = << >>
      <3>1. \A e : Occurrences(h, e) = 0
        <4>1. \A e : Only(<< >>, {e}) = << >>
          BY OnlyEmpty
        <4> HIDE DEF h
        <4> QED
          BY <2>1, <4>1 DEF Occurrences
      <3> QED
        BY <1>3, <3>1
    <2>2. CASE h # << >>
      <3>1. Len(h) \in 1..Len(h)
        BY <1>1, <2>2, EmptySeq
      <3>2. SubSeq(h, 1, Len(h)) = h
        BY <1>1, SubSeqFull
      <3>3. chain # << >>
        BY <2>2, FlattenEmpty
      <3>4. StakeAfter(SubSeq(h, 1, Len(h)), Me) >= 0
        BY <1>2, <3>1, <3>3 DEF Possible
      <3> QED
        BY <3>2, <3>4
    <2> QED
      BY <2>1, <2>2
  <1>6. StakeAfter(h, Me) = Stock(Len(chain), "Deposited") - Stock(Len(chain), "Withdrawn")
    BY <1>1, <1>3, StockOfAll
  <1> QED
    BY <1>4, <1>5, <1>6

\* What the scan of a block makes of the rows.
LEMMA ScanOut ==
    ASSUME ProfileTypeOK, ScanInv, phase[2] = "scanning",
           NEW b, b = scan[2].next,
           NEW out, out = scan[2].out \o RowsOf(b, Seen(2))
    PROVE  /\ b \in 1..Len(chain) /\ b \in Nat
           /\ out \in Seq(Row)
           /\ Descending(out)
           /\ \A i \in DOMAIN out : out[i].block >= b
           /\ Only(out, RowsTo(scan[2].sure)) = History(b, scan[2].sure)
  <1> DEFINE old == scan[2].out
             new == RowsOf(b, Me)
             sure == scan[2].sure
  <1>1. out = old \o new
    BY DEF Seen
  <1>2. ChainOK /\ b \in 1..Len(chain) /\ b \in Nat /\ b >= 1 /\ Len(chain) \in Nat
    BY SecondRun DEF ScanInv
  <1>3. new = BlockHistory(b) /\ new \in Seq({row \in Row : row.block = b})
    BY <1>2, RowsAreHistory, BlockHistoryType DEF ChainOK
  <1>4. new \in Seq(Row)
    <2>1. {row \in Row : row.block = b} \subseteq Row
      OBVIOUS
    <2> HIDE DEF new
    <2> QED
      BY <1>3, <2>1, SeqMonotonic
  <1>5. old \in Seq(Row) /\ sure \in Nat /\ sure <= Len(chain)
    BY SecondRun DEF ScanInv
  <1>6. /\ \A i \in DOMAIN old : old[i].block > b
        /\ \A i, j \in DOMAIN old : i < j => old[i].block >= old[j].block
        /\ Only(old, RowsTo(sure)) = History(b + 1, sure)
    BY DEF ScanInv
  <1>7. \A i \in DOMAIN new : new[i].block = b
    <2>1. \A i \in 1..Len(new) : new[i] \in {row \in Row : row.block = b}
      BY <1>3, ElementOfSeq
    <2>2. DOMAIN new = 1..Len(new)
      BY <1>4, LenProperties
    <2> QED
      BY <2>1, <2>2
  <1> HIDE DEF old, new, sure
  <1>8. out \in Seq(Row) /\ Len(out) = Len(old) + Len(new)
        /\ \A i \in 1..(Len(old) + Len(new)) :
              out[i] = IF i <= Len(old) THEN old[i] ELSE new[i - Len(old)]
    <2>1. /\ old \o new \in Seq(Row)
          /\ Len(old \o new) = Len(old) + Len(new)
          /\ \A i \in 1..(Len(old) + Len(new)) :
                (old \o new)[i] = IF i <= Len(old) THEN old[i] ELSE new[i - Len(old)]
      BY <1>4, <1>5, ConcatProperties
    <2> QED
      BY <1>1, <2>1, Zenon
  <1>9. /\ Len(old) \in Nat /\ DOMAIN old = 1..Len(old)
        /\ Len(new) \in Nat /\ DOMAIN new = 1..Len(new)
        /\ DOMAIN out = 1..(Len(old) + Len(new))
    BY <1>4, <1>5, <1>8, LenProperties
  <1>10. \A i \in DOMAIN old : old[i].block \in Nat
    <2>1. ASSUME NEW i \in 1..Len(old) PROVE old[i].block \in Nat
      <3>1. old[i] \in Row
        BY <1>5, ElementOfSeq
      <3>2. old[i].block \in 1..MaxBlock
        BY <3>1 DEF Row
      <3> QED
        BY <3>2, ProfileAssumption
    <2> QED
      BY <1>9, <2>1
  <1>11. \A i \in DOMAIN out :
            \/ i \in DOMAIN old /\ out[i] = old[i]
            \/ ~(i <= Len(old)) /\ out[i].block = b
    <2>1. ASSUME NEW i \in DOMAIN out
          PROVE  \/ i \in DOMAIN old /\ out[i] = old[i]
                 \/ ~(i <= Len(old)) /\ out[i].block = b
      <3>0. /\ i \in 1..(Len(old) + Len(new)) /\ i \in Int
            /\ out[i] = IF i <= Len(old) THEN old[i] ELSE new[i - Len(old)]
        <4>1. i \in 1..(Len(old) + Len(new))
          BY <1>9
        <4>2. i \in Int
          BY <1>9, <4>1
        <4>3. out[i] = IF i <= Len(old) THEN old[i] ELSE new[i - Len(old)]
          BY <1>8, <4>1, Zenon
        <4> QED
          BY <4>1, <4>2, <4>3
      <3>1. CASE i <= Len(old)
        <4>1. i \in DOMAIN old
          BY <1>9, <3>0, <3>1
        <4> QED
          BY <3>0, <3>1, <4>1
      <3>2. CASE ~(i <= Len(old))
        <4>1. i - Len(old) \in DOMAIN new /\ out[i] = new[i - Len(old)]
          BY <1>9, <3>0, <3>2
        <4> QED
          BY <1>7, <3>2, <4>1
      <3> QED
        BY <3>1, <3>2
    <2> QED
      BY <2>1
  <1>12. \A i \in DOMAIN out : out[i].block >= b
    <2>1. ASSUME NEW i \in DOMAIN out PROVE out[i].block >= b
      <3>1. CASE i \in DOMAIN old /\ out[i] = old[i]
        <4>1. out[i].block > b /\ out[i].block \in Nat
          BY <1>6, <1>10, <3>1
        <4> QED
          BY <1>2, <4>1
      <3>2. CASE out[i].block = b
        BY <1>2, <3>2
      <3> QED
        BY <1>11, <3>1, <3>2
    <2> QED
      BY <2>1
  <1>13. Descending(out)
    <2>1. ASSUME NEW i \in DOMAIN out, NEW j \in DOMAIN out, i < j
          PROVE  out[i].block >= out[j].block
      <3>1. CASE j \in DOMAIN old /\ out[j] = old[j]
        <4>1. i <= Len(old)
          BY <1>9, <2>1, <3>1
        <4>2. i \in DOMAIN old /\ out[i] = old[i]
          BY <1>11, <4>1
        <4> QED
          BY <1>6, <2>1, <3>1, <4>2
      <3>2. CASE ~(j <= Len(old)) /\ out[j].block = b
        BY <1>12, <3>2
      <3> QED
        BY <1>11, <3>1, <3>2
    <2> QED
      BY <2>1 DEF Descending
  <1>14. Only(out, RowsTo(sure)) = History(b, sure)
    <2>1. Only(out, RowsTo(sure)) = Only(old, RowsTo(sure)) \o Only(new, RowsTo(sure))
      BY <1>1, <1>4, <1>5, OnlyConcat
    <2>2. Only(new, RowsTo(sure)) = IF b <= sure THEN BlockHistory(b) ELSE << >>
      BY <1>2, <1>5, RowsBelow DEF new
    <2>3. CASE b <= sure
      <3>1. History(b, sure) = History(b + 1, sure) \o BlockHistory(b)
        <4>1. sure \in 1..Len(chain) /\ b \in 1..sure
          BY <1>2, <1>5, <2>3
        <4> QED
          BY <1>2, <4>1, HistoryBelow DEF ChainOK
      <3> QED
        BY <1>6, <2>1, <2>2, <2>3, <3>1
    <2>4. CASE ~(b <= sure)
      <3>1. b \in Int /\ b + 1 \in Int /\ sure \in Int /\ b > sure /\ b + 1 > sure
        BY <1>2, <1>5, <2>4
      <3>2. History(b, sure) = << >> /\ History(b + 1, sure) = << >>
        BY <3>1, HistoryEmpty
      <3>3. << >> \o << >> = << >>
        OBVIOUS
      <3> QED
        BY <1>6, <2>1, <2>2, <2>4, <3>2, <3>3
    <2> QED
      BY <2>3, <2>4
  <1> QED
    BY <1>2, <1>8, <1>12, <1>13, <1>14 DEF old, sure

\* And what it makes of the deposits, or the withdrawals, among them.
LEMMA ScanOutOfKind ==
    ASSUME ProfileTypeOK, ScanInv, phase[2] = "scanning",
           NEW b, b = scan[2].next,
           NEW out, out = scan[2].out \o RowsOf(b, Seen(2)),
           NEW kind \in StakeKind, NEW m \in Int
    PROVE  Len(Only(out, RowsOfKind(m, kind)))
              = Len(Only(scan[2].out, RowsOfKind(m, kind)))
                   + (IF b <= m THEN Occurrences(chain[b], Own(kind, Me)) ELSE 0)
  <1> DEFINE old == scan[2].out
             new == RowsOf(b, Me)
             K == RowsOfKind(m, kind)
  <1>1. out = old \o new
    BY DEF Seen
  <1>2. ChainOK /\ b \in 1..Len(chain) /\ old \in Seq(Row)
    BY SecondRun DEF ScanInv
  <1>3. new \in Seq(Row)
    <2>1. new \in Seq({row \in Row : row.block = b})
      BY <1>2, RowsAreHistory, BlockHistoryType DEF ChainOK
    <2>2. {row \in Row : row.block = b} \subseteq Row
      OBVIOUS
    <2> HIDE DEF new
    <2> QED
      BY <2>1, <2>2, SeqMonotonic
  <1>4. Len(Only(new, K)) = IF b <= m THEN Occurrences(chain[b], Own(kind, Me)) ELSE 0
    BY <1>2, KindRows
  <1> HIDE DEF old, new, K
  <1>5. Only(out, K) = Only(old, K) \o Only(new, K)
    BY <1>1, <1>2, <1>3, OnlyConcat
  <1>6. Only(old, K) \in Seq(Row) /\ Only(new, K) \in Seq(Row)
    BY <1>2, <1>3, OnlyType
  <1>7. Len(Only(old, K) \o Only(new, K)) = Len(Only(old, K)) + Len(Only(new, K))
    BY <1>6, ConcatProperties
  <1>8. Len(Only(out, K)) = Len(Only(old, K)) + Len(Only(new, K))
    BY <1>5, <1>7
  <1> QED
    BY <1>4, <1>8 DEF old, K

\* A run that waits for nothing.
Settled == {"idle", "shown", "cut", "over"}

\* The first run never gets past its connection, and by then it is no longer
\* mounted; and the page only stops loading when no run can show anything.
RunInv ==
    /\ loading \in BOOLEAN
    /\ phase \in [Run -> Phase]
    /\ mounted \in [Run -> BOOLEAN]
    /\ phase[1] \in {"enabling", "connecting", "over"}
    /\ phase[1] = "enabling" => phase[2] = "idle"
    /\ phase[1] = "connecting" => mounted[1] = FALSE
    /\ ~loading => phase[1] # "enabling" /\ phase[2] \in Settled

\* Initially only the first run is on its way (profile.tsx:67-73).
LEMMA RunInvInit == Init => RunInv
  BY DEF Init, RunInv, Run, Phase, Settled

\* What a run's next phase leaves of the other's.
LEMMA GotoPhases ==
    ASSUME phase \in [Run -> Phase], NEW r \in Run, NEW p \in Phase, Goto(r, p)
    PROVE  /\ phase' \in [Run -> Phase]
           /\ phase'[r] = p
           /\ \A q \in Run : q # r => phase'[q] = phase[q]
  BY DEF Goto

\* Only the second run gets past its connection.
LEMMA PastConnection ==
    ASSUME RunInv, NEW r \in Run,
           phase[r] \in {"stake", "head", "scanning"}
    PROVE  r = 2 /\ phase[1] # "enabling"
  BY DEF RunInv, Run

\* Whatever shows a table, ends the run that does (profile.tsx:171-173).
LEMMA ShowSettles ==
    ASSUME RunInv, NEW r \in Run, NEW p \in {"shown", "cut"},
           phase[r] \in {"head", "scanning"},
           Goto(r, p), loading' = FALSE, mounted' = mounted
    PROVE  RunInv'
  <1>1. r = 2 /\ phase[1] # "enabling"
    BY PastConnection
  <1>2. phase' \in [Run -> Phase] /\ phase'[2] = p /\ phase'[1] = phase[1]
    BY <1>1, GotoPhases DEF RunInv, Run, Phase
  <1> QED
    BY <1>1, <1>2 DEF RunInv, Settled

\* A run that stays on its way leaves the invariant as it is.
LEMMA GoingOn ==
    ASSUME RunInv, NEW p \in {"stake", "head", "scanning"},
           phase[2] \in {"connecting", "stake", "head"},
           Goto(2, p), loading' = loading, mounted' = mounted
    PROVE  RunInv'
  <1>1. phase' \in [Run -> Phase] /\ phase'[2] = p /\ phase'[1] = phase[1]
    BY GotoPhases DEF RunInv, Run, Phase
  <1>2. phase[1] # "enabling" /\ loading
    BY DEF RunInv, Settled
  <1> QED
    BY <1>1, <1>2 DEF RunInv, Settled

\* Every step of the effect, the chain and the table keeps the invariant.
LEMMA RunInvNext == RunInv /\ [Next]_vars => RunInv'
  <1> SUFFICES ASSUME RunInv, [Next]_vars PROVE RunInv'
    OBVIOUS
  <1> USE DEF chainVars, shownVars, tableVars, runVars
  <1>1. UNCHANGED runVars /\ UNCHANGED loading => RunInv'
    BY DEF RunInv
  <1>2. CASE UNCHANGED vars
    BY <1>1, <1>2 DEF vars
  <1>3. CASE NewBlock \/ Fork \/ Finalize \/ Prune
    BY <1>1, <1>3 DEF NewBlock, Fork, Finalize, Prune
  <1>4. CASE \E p \in 0..Len(rows) : ChangePage(p)
    BY <1>1, <1>4 DEF ChangePage
  <1>5. CASE \E n \in RowsPerPageOptions : ChangeRowsPerPage(n)
    BY <1>1, <1>5 DEF ChangeRowsPerPage
  <1>6. CASE NoAccounts
    <2>1. Goto(1, "over") /\ loading' = FALSE /\ mounted' = mounted
      BY <1>6 DEF NoAccounts
    <2>2. phase' \in [Run -> Phase] /\ phase'[1] = "over" /\ phase'[2] = "idle"
      BY <1>6, <2>1, GotoPhases DEF NoAccounts, RunInv, Run, Phase
    <2> QED
      BY <2>1, <2>2 DEF RunInv, Settled
  <1>7. CASE SetAccount
    BY <1>7 DEF SetAccount, RunInv, Run, Phase, Settled
  <1>8. CASE Enabled
    BY <1>8 DEF Enabled, RunInv, Goto, Run, Phase, Settled
  <1>9. ASSUME NEW r \in Run,
               \/ Connect(r) \/ ReadStake(r) \/ ReadHead(r)
               \/ ScanBlock(r) \/ Break(r) \/ Fail(r)
        PROVE  RunInv'
    <2>1. CASE Connect(r)
      <3>1. CASE r = 1
        <4>1. phase[1] = "connecting" /\ ~mounted[1]
          BY <2>1, <3>1 DEF Connect, RunInv
        <4>2. Goto(1, "over") /\ UNCHANGED <<loading, mounted>>
          BY <2>1, <3>1, <4>1 DEF Connect
        <4>3. /\ phase' \in [Run -> Phase]
              /\ phase'[1] = "over" /\ phase'[2] = phase[2]
          BY <4>2, GotoPhases DEF RunInv, Run, Phase
        <4> QED
          BY <4>1, <4>2, <4>3 DEF RunInv
      <3>2. CASE r = 2 /\ ~mounted[2]
        <4>1. phase[2] = "connecting" /\ Goto(2, "over")
          BY <2>1, <3>2 DEF Connect
        <4>2. UNCHANGED <<loading, mounted>>
          BY <2>1 DEF Connect
        <4>3. /\ phase' \in [Run -> Phase]
              /\ phase'[2] = "over" /\ phase'[1] = phase[1]
          BY <4>1, GotoPhases DEF RunInv, Run, Phase
        <4> QED
          BY <4>1, <4>2, <4>3 DEF RunInv, Settled
      <3>3. CASE r = 2 /\ mounted[2]
        <4>1. Goto(2, "stake") /\ phase[2] = "connecting"
          BY <2>1, <3>3, ProfileAssumption DEF Connect, Seen
        <4>2. loading' = loading /\ mounted' = mounted
          BY <2>1 DEF Connect
        <4> QED
          BY <4>1, <4>2, GoingOn
      <3> QED
        BY <3>1, <3>2, <3>3 DEF Run
    <2>2. CASE ReadStake(r)
      <3>1. r = 2 /\ phase[2] = "stake"
        BY <2>2, PastConnection DEF ReadStake
      <3> QED
        BY <2>2, <3>1, GoingOn DEF ReadStake
    <2>3. CASE ReadHead(r)
      <3>1. r = 2 /\ phase[2] = "head" /\ mounted' = mounted
        BY <2>3, PastConnection DEF ReadHead
      <3>2. CASE Goto(r, "scanning") /\ UNCHANGED <<loading, rows>>
        BY <3>1, <3>2, GoingOn
      <3>3. CASE Show(r, << >>, "shown")
        BY <3>1, <3>3, ShowSettles DEF Show
      <3> QED
        BY <2>3, <3>2, <3>3 DEF ReadHead
    <2>4. CASE ScanBlock(r)
      <3>1. phase[r] = "scanning" /\ mounted' = mounted
        BY <2>4 DEF ScanBlock, Proceed
      <3>2. \/ UNCHANGED <<phase, loading, rows>>
            \/ Goto(r, "shown") /\ loading' = FALSE
        BY <2>4 DEF ScanBlock, Proceed, Show
      <3>3. CASE UNCHANGED <<phase, loading, rows>>
        BY <3>1, <3>3 DEF RunInv
      <3> QED
        BY <3>1, <3>2, <3>3, ShowSettles
    <2>5. CASE Break(r)
      BY <2>5, ShowSettles DEF Break, Show
    <2>6. CASE Fail(r)
      <3>1. Goto(r, "over") /\ loading' = FALSE /\ mounted' = mounted
        BY <2>6 DEF Fail
      <3>2. /\ phase' \in [Run -> Phase] /\ phase'[r] = "over"
            /\ \A q \in Run : q # r => phase'[q] = phase[q]
        BY <3>1, GotoPhases DEF RunInv, Phase
      <3>3. CASE r = 1
        <4>1. phase[1] = "enabling" /\ phase'[2] = "idle"
          BY <2>6, <3>2, <3>3 DEF Fail, RunInv, Run
        <4> QED
          BY <3>1, <3>2, <3>3, <4>1 DEF RunInv, Settled
      <3>4. CASE r = 2
        <4>1. phase[1] # "enabling" /\ phase'[1] = phase[1]
          BY <2>6, <3>2, <3>4 DEF Fail, RunInv, Run
        <4> QED
          BY <3>1, <3>2, <3>4, <4>1 DEF RunInv, Settled
      <3> QED
        BY <3>3, <3>4 DEF Run
    <2> QED
      BY <1>9, <2>1, <2>2, <2>3, <2>4, <2>5, <2>6
  <1> QED
    BY <1>2, <1>3, <1>4, <1>5, <1>6, <1>7, <1>8, <1>9 DEF Next, Effect


-----------------------------------------------------------------------------
(* What a step leaves as it is.                                            *)

\* The history below the finalized block stays.
LEMMA HistoryOfFinal ==
    ASSUME ProfileTypeOK, \A b \in 1..final : chain'[b] = chain[b],
           NEW low \in Nat, low >= 1, NEW high \in Nat, high <= final
    PROVE  History(low, high)' = History(low, high)
  <1>1. final \in Nat
    BY SecondRun
  <1>2. \A b \in low..high : chain'[b] = chain[b]
    BY <1>1
  <1> QED
    BY <1>2, HistoryStays

\* A table that is not replaced is as true as it was.
LEMMA ListStays ==
    ASSUME ProfileTypeOK, ScanInv, \A b \in 1..final : chain'[b] = chain[b],
           rows' = rows, scan' = scan, phase'[2] \in {"shown", "cut"} => phase'[2] = phase[2]
    PROVE  ListIsHistory'
  <1> DEFINE s == scan[2]
             end == IF From(s.head) <= s.sure THEN From(s.head) ELSE s.sure + 1
  <1> SUFFICES ASSUME phase'[2] \in {"shown", "cut"}
               PROVE  \E low \in end..(s.sure + 1) :
                         /\ Only(rows, RowsTo(s.sure)) = History(low, s.sure)'
                         /\ phase[2] = "shown" => low = end
    BY DEF ListIsHistory, RowsTo
  <1>1. PICK low \in end..(s.sure + 1) :
            /\ Only(rows, RowsTo(s.sure)) = History(low, s.sure)
            /\ phase[2] = "shown" => low = end
    BY DEF ScanInv, ListIsHistory, RowsTo
  <1>2. s.sure \in Nat /\ s.sure <= final /\ end \in Nat /\ end >= 1
    BY SecondRun DEF ScanInv
  <1>3. low \in Nat /\ low >= 1
    BY <1>2
  <1>4. History(low, s.sure)' = History(low, s.sure)
    <2>1. PICK sure \in Nat : sure = s.sure
      BY <1>2
    <2>2. History(low, sure)' = History(low, sure)
      BY <1>2, <1>3, <2>1, HistoryOfFinal
    <2>3. s' = s
      OBVIOUS
    <2> QED
      BY <2>1, <2>2, <2>3
  <1> QED
    BY <1>1, <1>4

\* A table that is shown is the history of what was scanned, if the scan was.
LEMMA ListShown ==
    ASSUME ProfileTypeOK, chain' = chain,
           NEW head \in Nat, NEW sure \in Nat, sure <= final, NEW low \in Nat,
           scan'[2].head = head, scan'[2].sure = sure, low >= From(head),
           Only(rows', RowsTo(sure)) = History(low, sure),
           phase'[2] = "shown" => low = From(head)
    PROVE  ListIsHistory'
  <1> DEFINE end == IF From(head) <= sure THEN From(head) ELSE sure + 1
             m == IF low <= sure THEN low ELSE sure + 1
  <1>1. From(head) \in Nat /\ From(head) >= 1
    BY FromType
  <1>2. m \in end..(sure + 1) /\ m \in Nat /\ m >= 1
    BY <1>1
  <1>3. phase'[2] = "shown" => m = end
    OBVIOUS
  <1>4. History(m, sure) = History(low, sure)
    <2>1. CASE low <= sure
      BY <2>1
    <2>2. CASE ~(low <= sure)
      BY <2>2, HistoryEmpty
    <2> QED
      BY <2>1, <2>2
  <1> HIDE DEF m
  <1>5. History(m, sure)' = History(m, sure)
    BY <1>2, HistoryOfFinal
  <1>6. PICK k \in end..(sure + 1) :
            /\ Only(rows', RowsTo(sure)) = History(k, sure)'
            /\ phase'[2] = "shown" => k = end
    BY <1>2, <1>3, <1>4, <1>5
  <1>7. From(scan'[2].head) = From(head)
    OBVIOUS
  <1> QED
    BY <1>6, <1>7 DEF ListIsHistory, RowsTo

\* The rows are the account's history, the stake is what is left of its
\* deposits, and both are shown as they are: the inductive invariant.
ProfileInv == ProfileTypeOK /\ RunInv /\ ScanInv /\ StakeInv /\ PageInv

\* On the same chain the stock at a block is the same.
LEMMA StockNow ==
    ASSUME chain' = chain, NEW n, scan'[2].since = n, NEW kind
    PROVE  Stock(scan[2].since, kind)' = Stock(n, kind)
  BY DEF Stock, Own, Occurrences

-----------------------------------------------------------------------------
(* The chain's steps.                                                      *)

\* A chain that grows keeps its finalized part, and a history that is possible.
LEMMA ChainGrows ==
    ASSUME ProfileInv, NewBlock \/ Fork
    PROVE  /\ chain' \in Seq(Seq(Emitted))
           /\ Len(chain') = Len(chain) + 1
           /\ Len(chain') <= MaxBlock
           /\ \A b \in 1..final : chain'[b] = chain[b]
           /\ NewBlock => \A b \in 1..Len(chain) : chain'[b] = chain[b]
           /\ Possible(chain')
           /\ UNCHANGED <<final, pruned, account, loading, stake, rows,
                          tablePage, rowsPerPage, phase, mounted, scan>>
  <1> USE DEF shownVars, tableVars, runVars
  <1>1. /\ chain \in Seq(Seq(Emitted)) /\ Len(chain) <= MaxBlock
        /\ Len(chain) \in Nat /\ final \in Nat /\ final <= Len(chain) /\ MaxBlock \in Nat
    BY SecondRun DEF ProfileInv, ChainOK
  <1>2. Block \subseteq Seq(Emitted)
    <2> SUFFICES ASSUME NEW block \in Block PROVE block \in Seq(Emitted)
      OBVIOUS
    <2>1. PICK m \in 0..MaxEvents : block \in [1..m -> Emitted]
      BY DEF Block, BoundedSeq, SeqOf
    <2>2. m \in Nat
      BY ProfileAssumption
    <2> QED
      BY <2>1, <2>2, SeqDef
  <1>3. CASE NewBlock
    <2>1. PICK block \in Block : chain' = Append(chain, block) /\ Possible(chain')
      BY <1>3 DEF NewBlock
    <2>2. block \in Seq(Emitted)
      BY <1>2
    <2>3. /\ chain' \in Seq(Seq(Emitted)) /\ Len(chain') = Len(chain) + 1
          /\ \A b \in 1..Len(chain) : chain'[b] = chain[b]
      BY <1>1, <2>1, <2>2, AppendProperties
    <2>4. Len(chain) < MaxBlock
      BY <1>3 DEF NewBlock
    <2>5. \A b \in 1..final : b \in 1..Len(chain)
      BY <1>1
    <2>6. Len(chain') <= MaxBlock
      BY <1>1, <2>3, <2>4
    <2>7. UNCHANGED <<final, pruned, account, loading, stake, rows,
                      tablePage, rowsPerPage, phase, mounted, scan>>
      BY <1>3 DEF NewBlock
    <2> QED
      BY <2>1, <2>3, <2>5, <2>6, <2>7
  <1>4. CASE Fork
    <2>1. PICK kept \in final..(Len(chain) - 1) :
             \E fork \in [1..(Len(chain) + 1 - kept) -> Block] :
                /\ chain' = SubSeq(chain, 1, kept) \o fork
                /\ Possible(chain')
      BY <1>4 DEF Fork
    <2>2. PICK fork \in [1..(Len(chain) + 1 - kept) -> Block] :
             chain' = SubSeq(chain, 1, kept) \o fork /\ Possible(chain')
      BY <2>1
    <2> DEFINE old == SubSeq(chain, 1, kept)
               n == Len(chain) + 1 - kept
    <2>3. kept \in Nat /\ kept <= Len(chain) /\ final <= kept /\ n \in Nat
          /\ kept + n = Len(chain) + 1
      BY <1>1
    <2>4. fork \in Seq(Seq(Emitted)) /\ Len(fork) = n
      <3>1. fork \in [1..n -> Seq(Emitted)]
        BY <1>2
      <3> HIDE DEF n
      <3>2. fork \in Seq(Seq(Emitted))
        BY <2>3, <3>1, SeqDef
      <3> QED
        BY <2>3, <3>1, <3>2, LenProperties
    <2>5. /\ old \in Seq(Seq(Emitted)) /\ Len(old) = kept
          /\ \A b \in 1..kept : old[b] = chain[b]
      <3>1. \A b \in 1..kept : chain[b] \in Seq(Emitted)
        BY <1>1, <2>3, ElementOfSeq
      <3>2. kept \in Int /\ 1 \in Int
        BY <2>3
      <3>3. /\ old \in Seq(Seq(Emitted))
            /\ Len(old) = IF 1 <= kept THEN kept - 1 + 1 ELSE 0
            /\ \A b \in 1..(kept - 1 + 1) : old[b] = chain[1 + b - 1]
        BY <3>1, <3>2, SubSeqProperties
      <3>4. kept - 1 + 1 = kept /\ \A b \in 1..kept : 1 + b - 1 = b
        BY <2>3
      <3> HIDE DEF old
      <3>5. \A b \in 1..kept : old[b] = chain[1 + b - 1]
        BY <3>3, <3>4
      <3>6. \A b \in 1..kept : old[b] = chain[b]
        BY <3>4, <3>5
      <3>7. Len(old) = kept
        BY <2>3, <3>3, <3>4
      <3> QED
        BY <3>3, <3>6, <3>7
    <2> HIDE DEF old, n
    <2>6. /\ old \o fork \in Seq(Seq(Emitted))
          /\ Len(old \o fork) = Len(old) + Len(fork)
          /\ \A b \in 1..(Len(old) + Len(fork)) :
                (old \o fork)[b] = IF b <= Len(old) THEN old[b] ELSE fork[b - Len(old)]
      BY <2>4, <2>5, ConcatProperties
    <2>7. chain' = old \o fork
      BY <2>2 DEF old
    <2>8. chain' \in Seq(Seq(Emitted)) /\ Len(chain') = Len(chain) + 1
      BY <2>3, <2>4, <2>5, <2>6, <2>7
    <2>9. \A b \in 1..final : chain'[b] = chain[b]
      <3>1. ASSUME NEW b \in 1..final PROVE chain'[b] = chain[b]
        <4>1. b \in 1..kept /\ b <= kept /\ b \in 1..(kept + n)
          BY <1>1, <2>3
        <4>2. (old \o fork)[b] = old[b]
          BY <2>4, <2>5, <2>6, <4>1
        <4> QED
          BY <2>5, <2>7, <4>1, <4>2
      <3> QED
        BY <3>1
    <2>10. Len(chain) < MaxBlock
      BY <1>4 DEF Fork
    <2>11. Len(chain') <= MaxBlock
      BY <1>1, <2>8, <2>10
    <2>12. UNCHANGED <<final, pruned, account, loading, stake, rows,
                       tablePage, rowsPerPage, phase, mounted, scan>>
      BY <1>4 DEF Fork
    <2>13. ~NewBlock \/ \A b \in 1..Len(chain) : chain'[b] = chain[b]
      <3>1. ASSUME NewBlock PROVE \A b \in 1..Len(chain) : chain'[b] = chain[b]
        <4>1. PICK block \in Block : chain' = Append(chain, block)
          BY <3>1 DEF NewBlock
        <4>2. block \in Seq(Emitted)
          BY <1>2
        <4> QED
          BY <1>1, <4>1, <4>2, AppendProperties
      <3> QED
        BY <3>1
    <2> QED
      BY <2>2, <2>8, <2>9, <2>11, <2>12, <2>13
  <1> QED
    BY <1>3, <1>4

\* However the chain goes on, what has been read of its final part is true,
\* and unless it forks, so is the stake.
LEMMA WorldStep ==
    ASSUME ProfileInv, NewBlock \/ Fork \/ Finalize \/ Prune
    PROVE  ProfileTypeOK' /\ ScanInv' /\ StakeInv' /\ PageInv'
  <1> USE DEF shownVars, tableVars, runVars
  <1>1. /\ chain' \in Seq(Seq(Emitted)) /\ Len(chain') <= MaxBlock
        /\ Len(chain) <= Len(chain')
        /\ \A b \in 1..final : chain'[b] = chain[b]
        /\ ~forked' => /\ ~forked
                       /\ \A b \in 1..Len(chain) : chain'[b] = chain[b]
        /\ chain' # << >> => Possible(chain')
        /\ final <= final' /\ final' \in 0..Len(chain') /\ pruned' \in 0..final'
        /\ forked' \in BOOLEAN
        /\ UNCHANGED <<account, loading, stake, rows,
                       tablePage, rowsPerPage, phase, mounted, scan>>
    <2>1. /\ chain \in Seq(Seq(Emitted)) /\ Len(chain) <= MaxBlock
          /\ Len(chain) \in Nat /\ final \in Nat /\ final <= Len(chain)
          /\ pruned \in 0..final /\ forked \in BOOLEAN
      BY SecondRun DEF ProfileInv, ChainOK, ProfileTypeOK
    <2>2. CASE NewBlock
      <3>1. forked' = forked
        BY <2>2 DEF NewBlock
      <3>2. Len(chain) <= Len(chain') /\ final' \in 0..Len(chain')
        BY <2>1, <2>2, ChainGrows
      <3> QED
        BY <2>1, <2>2, <3>1, <3>2, ChainGrows
    <2>3. CASE Fork
      <3>1. forked' = TRUE
        BY <2>3 DEF Fork
      <3>2. Len(chain) <= Len(chain') /\ final' \in 0..Len(chain')
        BY <2>1, <2>3, ChainGrows
      <3> QED
        BY <2>1, <2>3, <3>1, <3>2, ChainGrows
    <2>4. CASE Finalize
      <3>1. /\ final' \in (final + 1)..Len(chain)
            /\ UNCHANGED <<chain, pruned, forked, account, loading, stake, rows,
                           tablePage, rowsPerPage, phase, mounted, scan>>
        BY <2>4 DEF Finalize
      <3>2. chain # << >> => Possible(chain)
        BY DEF ProfileInv, ScanInv
      <3> QED
        BY <2>1, <3>1, <3>2
    <2>5. CASE Prune
      <3>1. /\ pruned' \in (pruned + 1)..final
            /\ UNCHANGED <<chain, final, forked, account, loading, stake, rows,
                           tablePage, rowsPerPage, phase, mounted, scan>>
        BY <2>5 DEF Prune
      <3>2. chain # << >> => Possible(chain)
        BY DEF ProfileInv, ScanInv
      <3> QED
        BY <2>1, <3>1, <3>2
    <2> QED
      BY <2>2, <2>3, <2>4, <2>5
  <1>2. ProfileTypeOK'
    BY <1>1 DEF ProfileInv, ProfileTypeOK
  <1>3. /\ ChainOK /\ Len(chain) \in Nat /\ Len(chain') \in Nat
        /\ scan[2].sure \in Nat /\ scan[2].next \in Nat
        /\ scan[2].head \in Nat /\ scan[2].since \in Nat
        /\ final \in Nat /\ final' \in Nat
    BY <1>1, SecondRun, LenProperties DEF ProfileInv
  <1>4. ScanInv'
    <2>1. ListIsHistory'
      BY <1>1, ListStays DEF ProfileInv
    <2>2. scan[2].sure <= final'
      BY <1>1, <1>3 DEF ProfileInv, ScanInv
    <2>3. phase[2] = "scanning" =>
             /\ scan[2].head <= Len(chain')
             /\ History(scan[2].next + 1, scan[2].sure)'
                   = History(scan[2].next + 1, scan[2].sure)
      <3>1. PICK low, sure : low = scan[2].next + 1 /\ sure = scan[2].sure
        OBVIOUS
      <3>2. low \in Nat /\ low >= 1 /\ sure \in Nat /\ sure <= final
        BY <1>3, <3>1 DEF ProfileInv, ScanInv
      <3>3. History(low, sure)' = History(low, sure)
        BY <1>1, <3>2, HistoryOfFinal DEF ProfileInv
      <3>4. scan'[2].next + 1 = low /\ scan'[2].sure = sure
        BY <1>1, <3>1
      <3>5. phase[2] = "scanning" => scan[2].head <= Len(chain')
        BY <1>1, <1>3 DEF ProfileInv, ScanInv
      <3> QED
        BY <3>1, <3>3, <3>4, <3>5
    <2>4. From(scan[2].head)' = From(scan[2].head) /\ RowsTo(scan[2].sure)' = RowsTo(scan[2].sure)
      BY <1>1 DEF From, RowsTo
    <2>5. chain' # << >> => Possible(chain)'
      BY <1>1 DEF Possible
    <2> QED
      BY <1>1, <2>1, <2>2, <2>3, <2>4, <2>5 DEF ProfileInv, ScanInv
  <1>5. StakeInv'
    <2> SUFFICES ASSUME ~forked' PROVE StakeInv'
      BY DEF StakeInv
    <2>1. /\ ~forked /\ \A b \in 1..Len(chain) : chain'[b] = chain[b]
          /\ scan[2].since <= Len(chain) /\ scan' = scan
      BY <1>1 DEF ProfileInv, StakeInv
    <2>2. ASSUME NEW n \in Nat, n <= Len(chain), NEW kind
          PROVE  Stock(n, kind)' = Stock(n, kind)
      <3>1. ChainOK'
        BY <1>1 DEF ChainOK
      <3>2. \A i \in 1..n : chain'[i] = chain[i]
        BY <1>3, <2>1, <2>2
      <3>3. n \in Int /\ n >= 0 /\ n <= Len(chain')
        BY <1>1, <1>3, <2>2
      <3> QED
        BY <1>3, <2>2, <3>1, <3>2, <3>3, StockStays
    <2>3. PICK since, least : since = scan[2].since /\ least = Least(scan[2].next, scan[2].since)
      OBVIOUS
    <2>4. since \in Nat /\ since <= Len(chain) /\ least \in Nat /\ least <= Len(chain)
      BY <1>3, <2>1, <2>3 DEF Least
    <2>5. \A kind : Stock(since, kind)' = Stock(since, kind)
      BY <2>2, <2>4
    <2>6. \A kind : Stock(least, kind)' = Stock(least, kind)
      BY <2>2, <2>4
    <2>7. since = scan'[2].since /\ least = Least(scan'[2].next, scan'[2].since)
      BY <2>1, <2>3
    <2>8. \A kind : /\ Stock(scan[2].since, kind)' = Stock(scan[2].since, kind)
                    /\ Stock(Least(scan[2].next, scan[2].since), kind)'
                          = Stock(Least(scan[2].next, scan[2].since), kind)
      BY <2>3, <2>5, <2>6, <2>7
    <2>9. scan[2].since <= Len(chain')
      BY <1>1, <1>3, <2>1
    <2>10. From(scan[2].head)' = From(scan[2].head)
           /\ \A kind : RowsOfKind(scan[2].since, kind)' = RowsOfKind(scan[2].since, kind)
      BY <1>1 DEF From, RowsOfKind
    <2> QED
      BY <1>1, <2>1, <2>8, <2>9, <2>10 DEF ProfileInv, StakeInv
  <1>6. PageInv'
    BY <1>1 DEF ProfileInv, PageInv, TableShown
  <1> QED
    BY <1>2, <1>4, <1>5, <1>6

\* What a run keeps of its scan.
ScanRecord ==
    [head : 0..MaxBlock, next : 0..MaxBlock, out : Seq(Row),
     since : 0..MaxBlock, sure : 0..MaxBlock]

-----------------------------------------------------------------------------
(* The effect's steps.                                                     *)

\* On the same chain the lower stock is the same, too.
LEMMA LeastStockNow ==
    ASSUME chain' = chain, NEW n, Least(scan'[2].next, scan'[2].since) = n, NEW kind
    PROVE  Stock(Least(scan[2].next, scan[2].since), kind)' = Stock(n, kind)
  BY DEF Stock, Own, Occurrences, Least

\* One block less has the stock that its own deposits leave.
LEMMA LeastStock ==
    ASSUME ChainOK, NEW b \in 1..Len(chain), NEW since \in Nat, since <= Len(chain),
           NEW kind
    PROVE  /\ Stock(Least(b, since), kind)
                 = Stock(Least(b - 1, since), kind)
                      + (IF b <= since THEN Occurrences(chain[b], Own(kind, Me)) ELSE 0)
           /\ Stock(Least(b - 1, since), kind) \in Nat
  <1>1. b \in Nat /\ b >= 1 /\ Len(chain) \in Nat
    BY ChainOfEvents
  <1>2. CASE b <= since
    <2>1. Least(b, since) = b /\ Least(b - 1, since) = b - 1
      BY <1>1, <1>2 DEF Least
    <2> QED
      BY <1>2, <2>1, StockOfNext
  <1>3. CASE ~(b <= since)
    <2>1. Least(b, since) = since /\ Least(b - 1, since) = since
      BY <1>1, <1>3 DEF Least
    <2>2. since \in 0..Len(chain)
      BY <1>1
    <2>3. Stock(since, kind) \in Nat
      BY <2>2, StockType
    <2> QED
      BY <1>3, <2>1, <2>3
  <1> QED
    BY <1>2, <1>3

\* The state of a run's scan, when it is replaced.
LEMMA Rescanned ==
    ASSUME ProfileTypeOK, NEW s \in ScanRecord, scan' = [scan EXCEPT ![2] = s]
    PROVE  scan' \in [Run -> ScanRecord] /\ scan'[2] = s
  BY DEF ProfileTypeOK, ScanRecord, Run

\* The types that are left, when the second run has gone on.
LEMMA TypesGoOn ==
    ASSUME ProfileInv, RunInv',
           UNCHANGED <<chain, final, pruned, forked, account, tablePage, rowsPerPage>>,
           stake' \in Nat, rows' \in Seq(Row), scan' \in [Run -> ScanRecord],
           phase'[2] = "scanning" => scan'[2].next \in 1..scan'[2].head
    PROVE  ProfileTypeOK'
  <1>1. phase' \in [Run -> Phase] /\ mounted' \in [Run -> BOOLEAN] /\ loading' \in BOOLEAN
        /\ phase'[1] # "scanning"
    BY DEF RunInv
  <1>2. \A r \in Run : phase'[r] = "scanning" => scan'[r].next \in 1..scan'[r].head
    BY <1>1 DEF Run
  <1> QED
    BY <1>1, <1>2 DEF ProfileInv, ProfileTypeOK, ScanRecord

\* The table is on its first page as long as the page loads.
LEMMA PageGoesOn ==
    ASSUME ProfileInv, UNCHANGED <<tablePage, rowsPerPage>>,
           rows' \in Seq(Row), loading' => loading, loading \/ rows' = rows
    PROVE  PageInv'
  <1>1. rows' # << >> => 0 < Len(rows')
    BY EmptySeq, LenProperties
  <1>2. CASE loading
    <2>1. tablePage' = 0 /\ rowsPerPage' \in Nat
      BY <1>2, ProfileAssumption DEF ProfileInv, PageInv, ProfileTypeOK
    <2>2. tablePage' * rowsPerPage' = 0
      BY <2>1
    <2> QED
      BY <1>1, <2>1, <2>2 DEF PageInv, TableShown
  <1>3. CASE ~loading
    <2>1. ~loading' /\ rows' = rows
      BY <1>3
    <2> QED
      BY <1>3, <2>1 DEF ProfileInv, PageInv, TableShown
  <1> QED
    BY <1>2, <1>3

\* A step that neither reads nor shows anything.
LEMMA QuietStep ==
    ASSUME ProfileInv, RunInv', loading' => loading,
           UNCHANGED <<chain, final, pruned, forked, stake, rows,
                       tablePage, rowsPerPage, scan>>,
           account' \in Account \cup {NoAccount},
           \/ phase'[2] \in {phase[2], "over"}
           \/ /\ phase[2] \in {"idle", "enabling", "connecting"}
              /\ phase'[2] \in {"enabling", "connecting", "stake"}
    PROVE  ProfileTypeOK' /\ ScanInv' /\ StakeInv' /\ PageInv'
  <1>1. /\ rows \in Seq(Row) /\ stake \in Nat /\ final \in Nat
        /\ scan \in [Run -> ScanRecord]
        /\ phase' \in [Run -> Phase] /\ mounted' \in [Run -> BOOLEAN] /\ loading' \in BOOLEAN
        /\ phase'[1] # "scanning"
    BY SecondRun DEF ProfileInv, ProfileTypeOK, ScanRecord, RunInv
  <1>2. ProfileTypeOK'
    <2>1. \A r \in Run : phase'[r] = "scanning" => phase[r] = "scanning"
      BY <1>1 DEF Run
    <2> QED
      BY <1>1, <2>1 DEF ProfileInv, ProfileTypeOK
  <1>3. ScanInv'
    <2>1. ListIsHistory'
      BY ListStays DEF ProfileInv
    <2>2. /\ History(scan[2].next + 1, scan[2].sure)' = History(scan[2].next + 1, scan[2].sure)
          /\ From(scan[2].head)' = From(scan[2].head)
          /\ RowsTo(scan[2].sure)' = RowsTo(scan[2].sure)
      BY DEF History, From, RowsTo, OfProfile
    <2> QED
      BY <2>1, <2>2 DEF ProfileInv, ScanInv, Possible
  <1>4. StakeInv'
    <2>1. \A kind : /\ Stock(scan[2].since, kind)' = Stock(scan[2].since, kind)
                    /\ Stock(Least(scan[2].next, scan[2].since), kind)'
                          = Stock(Least(scan[2].next, scan[2].since), kind)
                    /\ RowsOfKind(scan[2].since, kind)' = RowsOfKind(scan[2].since, kind)
      BY DEF Stock, Least, Own, Occurrences, RowsOfKind
    <2>2. From(scan[2].head)' = From(scan[2].head)
      BY DEF From
    <2> QED
      BY <2>1, <2>2 DEF ProfileInv, StakeInv
  <1>5. PageInv'
    BY <1>1, PageGoesOn
  <1> QED
    BY <1>2, <1>3, <1>4, <1>5

\* The stake is read of the chain as it is (profile.tsx:89-95).
LEMMA ReadStakeStep ==
    ASSUME ProfileInv, RunInv', ReadStake(2)
    PROVE  ProfileTypeOK' /\ ScanInv' /\ StakeInv' /\ PageInv'
  <1> DEFINE n == Len(chain)
             s == [scan[2] EXCEPT !.since = n]
  <1> USE DEF chainVars, tableVars
  <1>1. /\ ChainOK /\ n \in Nat /\ n \in 0..MaxBlock /\ scan[2].out = << >>
        /\ scan[2].sure <= final
        /\ scan[2] \in ScanRecord /\ rows \in Seq(Row)
        /\ stake' = StakeAfter(FlattenSeq(chain), Me) /\ scan' = [scan EXCEPT ![2] = s]
    <2>1. ChainOK /\ n \in Nat /\ MaxBlock \in Nat
      BY SecondRun DEF ProfileInv
    <2>2. n \in 0..MaxBlock
      BY <2>1 DEF ChainOK
    <2>3. scan[2].out = << >> /\ scan[2].sure <= final
      BY DEF ReadStake, ProfileInv, ScanInv
    <2>4. scan[2] \in ScanRecord /\ rows \in Seq(Row)
      BY DEF ProfileInv, ProfileTypeOK, ScanRecord, Run
    <2> QED
      BY <2>1, <2>2, <2>3, <2>4 DEF ReadStake, Seen
  <1>2. phase'[2] = "head" /\ phase[2] = "stake"
    BY DEF ReadStake, Goto, ProfileInv, ProfileTypeOK, Run
  <1>3. s \in ScanRecord /\ s.since = n /\ s.out = << >> /\ s.sure = scan[2].sure
    BY <1>1 DEF ScanRecord
  <1>4. UNCHANGED <<chain, final, pruned, forked, account, loading, rows, tablePage, rowsPerPage>>
    BY DEF ReadStake
  <1> HIDE DEF s, n
  <1>5. scan' \in [Run -> ScanRecord] /\ scan'[2] = s
    BY <1>1, <1>3, Rescanned DEF ProfileInv
  <1>6. /\ stake' = Stock(n, "Deposited") - Stock(n, "Withdrawn")
        /\ stake' \in Nat
    BY <1>1, StakeIsCovered DEF ProfileInv, ScanInv, n
  <1>7. ProfileTypeOK'
    BY <1>1, <1>2, <1>4, <1>5, <1>6, TypesGoOn
  <1>8. ScanInv'
    <2>1. ListIsHistory'
      BY <1>2 DEF ListIsHistory
    <2>2. chain # << >> => Possible(chain)
      BY DEF ProfileInv, ScanInv
    <2> QED
      BY <1>1, <1>2, <1>3, <1>4, <1>5, <2>1, <2>2 DEF ScanInv, Possible
  <1>9. StakeInv'
    <2>1. \A kind : Stock(scan[2].since, kind)' = Stock(n, kind)
      BY <1>3, <1>4, <1>5, StockNow
    <2>2. scan'[2].since <= Len(chain')
      BY <1>1, <1>3, <1>4, <1>5 DEF n
    <2> QED
      BY <1>2, <1>6, <2>1, <2>2 DEF StakeInv
  <1>10. PageInv'
    BY <1>1, <1>4, PageGoesOn
  <1> QED
    BY <1>7, <1>8, <1>9, <1>10

\* The scan starts at the head, or there is nothing to scan (profile.tsx:
\* 104-117).
LEMMA ReadHeadStep ==
    ASSUME ProfileInv, RunInv', ReadHead(2)
    PROVE  ProfileTypeOK' /\ ScanInv' /\ StakeInv' /\ PageInv'
  <1> DEFINE n == Len(chain)
             s == [scan[2] EXCEPT !.head = n, !.next = n, !.sure = final]
  <1> USE DEF chainVars, tableVars
  <1>1. /\ ChainOK /\ n \in Nat /\ n \in 0..MaxBlock
        /\ final \in Nat /\ final <= n /\ final \in 0..MaxBlock
        /\ scan[2].out = << >> /\ scan[2].since \in Nat
        /\ scan[2] \in ScanRecord /\ rows \in Seq(Row) /\ stake \in Nat
        /\ scan' = [scan EXCEPT ![2] = s]
    <2>1. ChainOK /\ n \in Nat /\ MaxBlock \in Nat /\ final \in Nat /\ final <= n
          /\ scan[2].since \in Nat
      BY SecondRun DEF ProfileInv
    <2>2. n \in 0..MaxBlock /\ final \in 0..MaxBlock
      BY <2>1 DEF ChainOK
    <2>3. scan[2].out = << >>
      BY DEF ReadHead, ProfileInv, ScanInv
    <2>4. scan[2] \in ScanRecord /\ rows \in Seq(Row) /\ stake \in Nat
      BY DEF ProfileInv, ProfileTypeOK, ScanRecord, Run
    <2> QED
      BY <2>1, <2>2, <2>3, <2>4 DEF ReadHead
  <1>2. /\ s \in ScanRecord /\ s.head = n /\ s.next = n /\ s.sure = final
        /\ s.out = << >> /\ s.since = scan[2].since
    BY <1>1 DEF ScanRecord
  <1>3. UNCHANGED <<chain, final, pruned, forked, account, stake, tablePage, rowsPerPage>>
    BY DEF ReadHead
  <1>4. phase[2] = "head" /\ loading
    BY DEF ReadHead, ProfileInv, RunInv, Settled
  <1>5. /\ From(n) \in Nat /\ From(n) >= 1
        /\ n >= 1 <=> n >= From(n)
        /\ n = 0 => From(n) = 1
    BY <1>1, FromType
  <1>6. \/ n >= From(n) /\ Goto(2, "scanning") /\ UNCHANGED <<loading, rows>>
        \/ ~(n >= From(n)) /\ Show(2, << >>, "shown")
    BY DEF ReadHead
  <1>7. /\ chain # << >> => Possible(chain)
        /\ ~forked => /\ scan[2].since <= n
                      /\ stake = Stock(scan[2].since, "Deposited")
                                    - Stock(scan[2].since, "Withdrawn")
    BY <1>4 DEF ProfileInv, ScanInv, StakeInv
  <1> HIDE DEF s
  <1>8. scan' \in [Run -> ScanRecord] /\ scan'[2] = s
    BY <1>1, <1>2, Rescanned DEF ProfileInv
  <1>9. PICK since \in Nat : since = scan[2].since
    BY <1>1
  <1>10. \A kind : Stock(scan[2].since, kind)' = Stock(since, kind)
    BY <1>2, <1>3, <1>8, <1>9, StockNow
  <1>11. \A S : Only(<< >>, S) = << >>
    BY OnlyEmpty
  <1>12. Len(<< >>) = 0 /\ << >> \in Seq(Row) /\ DOMAIN << >> = {}
    OBVIOUS
  <1>13. CASE n >= From(n) /\ Goto(2, "scanning") /\ UNCHANGED <<loading, rows>>
    <2>1. phase'[2] = "scanning"
      BY <1>13 DEF Goto, ProfileInv, ProfileTypeOK, Run
    <2>2. ProfileTypeOK'
      <3>1. s.next \in 1..s.head
        BY <1>1, <1>2, <1>5, <1>13
      <3> QED
        BY <1>1, <1>3, <1>8, <1>13, <3>1, TypesGoOn
    <2>3. ScanInv'
      <3>1. ListIsHistory'
        BY <2>1 DEF ListIsHistory
      <3>2. PICK low, sure : low = n + 1 /\ sure = final
        OBVIOUS
      <3>3. low \in Int /\ sure \in Int /\ low > sure
        BY <1>1, <3>2
      <3>4. History(low, sure)' = << >>
        <4>1. 1..(sure + 1 - low) = {}
          BY <3>3
        <4>2. History(low, sure) = << >> /\ 1..(sure + 1 - low) = {}
          BY <3>3, <4>1, HistoryEmpty
        <4>3. History(low, sure)' = History(low, sure)
          BY <1>3 DEF History, OfProfile
        <4> QED
          BY <4>2, <4>3
      <3>5. low = scan'[2].next + 1 /\ sure = scan'[2].sure
        BY <1>2, <1>8, <3>2
      <3>6. History(scan[2].next + 1, scan[2].sure)' = << >>
        BY <3>4, <3>5
      <3>7. Only(scan[2].out, RowsTo(scan[2].sure))' = << >>
        <4>1. scan'[2].out = << >>
          BY <1>2, <1>8
        <4> QED
          BY <1>11, <4>1
      <3>8. /\ scan'[2].next >= From(scan'[2].head)
            /\ scan'[2].head <= Len(chain')
            /\ DOMAIN scan'[2].out = {}
            /\ scan'[2].sure <= final'
        BY <1>1, <1>2, <1>3, <1>8, <1>12, <1>13
      <3>9. From(scan[2].head)' = From(scan'[2].head)
        BY DEF From
      <3>10. chain' # << >> => Possible(chain)'
        BY <1>3, <1>7 DEF Possible
      <3> QED
        BY <2>1, <3>1, <3>6, <3>7, <3>8, <3>9, <3>10 DEF ScanInv
    <2>4. StakeInv'
      <3> SUFFICES ASSUME ~forked PROVE StakeInv'
        BY <1>3 DEF StakeInv
      <3>1. since <= n /\ since \in 0..n
        BY <1>7, <1>9
      <3>2. Least(scan'[2].next, scan'[2].since) = since
        BY <1>1, <1>2, <1>8, <1>9, <3>1 DEF Least
      <3>3. \A kind : Stock(Least(scan[2].next, scan[2].since), kind)' = Stock(since, kind)
        BY <1>3, <3>2, LeastStockNow
      <3>4. \A kind : Len(Only(scan[2].out, RowsOfKind(scan[2].since, kind)))' = 0
        <4>1. scan'[2].out = << >>
          BY <1>2, <1>8
        <4> QED
          BY <1>11, <1>12, <4>1
      <3>5. \A kind : Stock(since, kind) \in Nat
        BY <1>1, <3>1, StockType
      <3>6. /\ scan'[2].since <= Len(chain') /\ scan'[2].since <= scan'[2].head
        BY <1>2, <1>3, <1>8, <1>9, <3>1
      <3>7. stake' = Stock(since, "Deposited") - Stock(since, "Withdrawn")
        BY <1>3, <1>7, <1>9
      <3> QED
        BY <1>10, <2>1, <3>3, <3>4, <3>5, <3>6, <3>7 DEF StakeInv
    <2>5. PageInv'
      BY <1>1, <1>3, <1>13, PageGoesOn
    <2> QED
      BY <2>2, <2>3, <2>4, <2>5
  <1>14. CASE ~(n >= From(n)) /\ Show(2, << >>, "shown")
    <2>1. phase'[2] = "shown" /\ loading' = FALSE /\ rows' = << >>
      <3>1. Descending(<< >>)
        BY DEF Descending
      <3>2. SortedRows(<< >>) = << >>
        BY <1>12, <3>1, SortedIsSame
      <3> QED
        BY <1>14, <3>2 DEF Show, Goto, ProfileInv, ProfileTypeOK, Run
    <2>2. n = 0 /\ final = 0 /\ From(n) = 1
      BY <1>1, <1>5, <1>14
    <2>3. ProfileTypeOK'
      BY <1>1, <1>3, <1>8, <1>12, <2>1, TypesGoOn
    <2>4. ScanInv'
      <3>1. History(1, 0) = << >>
        BY HistoryEmpty
      <3>2. Only(rows', RowsTo(0)) = << >>
        BY <1>11, <2>1
      <3>3. scan'[2].head = 0 /\ scan'[2].sure = 0 /\ From(0) = 1
        BY <1>2, <1>8, <2>2
      <3>4. ListIsHistory'
        BY <1>3, <2>2, <3>1, <3>2, <3>3, ListShown DEF ProfileInv
      <3>5. scan'[2].sure <= final'
        BY <1>1, <1>3, <2>2, <3>3
      <3>6. chain' # << >> => Possible(chain)'
        BY <1>3, <1>7 DEF Possible
      <3> QED
        BY <2>1, <3>4, <3>5, <3>6 DEF ScanInv
    <2>5. StakeInv'
      <3> SUFFICES ASSUME ~forked PROVE StakeInv'
        BY <1>3 DEF StakeInv
      <3>1. since = 0 /\ \A kind : Stock(since, kind) = 0
        <4>1. since = 0
          BY <1>7, <1>9, <2>2
        <4> QED
          BY <4>1, StockOfNone
      <3>2. \A kind : Len(Only(rows, RowsOfKind(scan[2].since, kind)))' = 0
        BY <1>11, <1>12, <2>1
      <3>3. scan'[2].since <= Len(chain')
        BY <1>2, <1>3, <1>8, <1>9, <2>2, <3>1
      <3>4. stake' = Stock(since, "Deposited") - Stock(since, "Withdrawn")
        BY <1>3, <1>7, <1>9
      <3> QED
        BY <1>10, <2>1, <3>1, <3>2, <3>3, <3>4 DEF StakeInv
    <2>6. PageInv'
      BY <1>3, <1>4, <1>12, <2>1, PageGoesOn
    <2> QED
      BY <2>3, <2>4, <2>5, <2>6
  <1> QED
    BY <1>6, <1>13, <1>14

\* A block is read, and the scan goes on or shows what it has (profile.tsx:
\* 118-173).
LEMMA ScanBlockStep ==
    ASSUME ProfileInv, RunInv', ScanBlock(2)
    PROVE  ProfileTypeOK' /\ ScanInv' /\ StakeInv' /\ PageInv'
  <1> USE DEF chainVars, tableVars
  <1>1. PICK b, out, head, sure, since :
            /\ b = scan[2].next /\ out = scan[2].out \o RowsOf(b, Seen(2))
            /\ head = scan[2].head /\ sure = scan[2].sure /\ since = scan[2].since
    OBVIOUS
  <1> DEFINE s == [scan[2] EXCEPT !.next = b - 1, !.out = out]
  <1>2. /\ phase[2] = "scanning" /\ scan' = [scan EXCEPT ![2] = s]
        /\ IF b > From(head) THEN UNCHANGED <<phase, loading, rows>>
                             ELSE Show(2, out, "shown")
        /\ UNCHANGED <<chain, final, pruned, forked, account, stake, tablePage, rowsPerPage>>
    BY <1>1 DEF ScanBlock, Proceed
  <1>3. /\ b \in 1..Len(chain) /\ b \in Nat
        /\ out \in Seq(Row)
        /\ Descending(out)
        /\ \A i \in DOMAIN out : out[i].block >= b
        /\ Only(out, RowsTo(sure)) = History(b, sure)
    <2>1. ProfileTypeOK /\ ScanInv
      BY DEF ProfileInv
    <2>2. /\ b \in 1..Len(chain) /\ b \in Nat
          /\ out \in Seq(Row)
          /\ Descending(out)
          /\ \A i \in DOMAIN out : out[i].block >= b
          /\ Only(out, RowsTo(scan[2].sure)) = History(b, scan[2].sure)
      BY <1>1, <1>2, <2>1, ScanOut
    <2>3. Only(out, RowsTo(sure)) = History(b, sure)
      BY <1>1, <2>2, Zenon
    <2> QED
      BY <2>2, <2>3
  <1>4. /\ ChainOK /\ Len(chain) \in Nat /\ final \in Nat
        /\ head \in Nat /\ sure \in Nat /\ since \in Nat
        /\ From(head) \in Nat /\ From(head) >= 1 /\ b \in 1..head /\ MaxBlock \in Nat
        /\ scan[2] \in ScanRecord /\ rows \in Seq(Row) /\ stake \in Nat
    <2>1. scan[2] \in ScanRecord /\ rows \in Seq(Row) /\ stake \in Nat
      BY DEF ProfileInv, ProfileTypeOK, ScanRecord, Run
    <2> QED
      BY <1>1, <1>2, <2>1, SecondRun DEF ProfileInv
  <1>5. /\ s \in ScanRecord /\ s.head = head /\ s.next = b - 1 /\ s.sure = sure
        /\ s.out = out /\ s.since = since
    <2>1. b - 1 \in 0..MaxBlock
      <3>1. scan[2].next \in 0..MaxBlock
        BY <1>4 DEF ScanRecord
      <3>2. b \in 0..MaxBlock /\ b >= 1
        BY <1>1, <1>3, <3>1
      <3> HIDE <1>3
      <3> QED
        BY <1>4, <3>2
    <2> QED
      BY <1>1, <1>3, <1>4, <2>1 DEF ScanRecord
  <1>6. loading
    BY <1>2 DEF ProfileInv, RunInv, Settled
  <1>7. /\ chain # << >> => Possible(chain)
        /\ sure <= final /\ b >= From(head) /\ head <= Len(chain)
        /\ ~forked =>
             /\ since <= Len(chain) /\ since <= head
             /\ stake = Stock(since, "Deposited") - Stock(since, "Withdrawn")
             /\ \A kind \in StakeKind :
                   Stock(since, kind)
                      = Stock(Least(b, since), kind)
                          + Len(Only(scan[2].out, RowsOfKind(since, kind)))
    BY <1>1, <1>2 DEF ProfileInv, ScanInv, StakeInv
  <1> HIDE DEF s
  <1>8. scan' \in [Run -> ScanRecord] /\ scan'[2] = s
    BY <1>2, <1>5, Rescanned DEF ProfileInv
  <1>9. \A kind : Stock(scan[2].since, kind)' = Stock(since, kind)
    BY <1>2, <1>5, <1>8, StockNow
  <1>10. ASSUME ~forked, NEW kind \in StakeKind
         PROVE  /\ Stock(since, kind)
                      = Stock(Least(b - 1, since), kind)
                           + Len(Only(out, RowsOfKind(since, kind)))
                /\ Stock(Least(b - 1, since), kind) \in Nat
                /\ Len(Only(out, RowsOfKind(since, kind))) \in Nat
    <2> DEFINE more == IF b <= since THEN Occurrences(chain[b], Own(kind, Me)) ELSE 0
    <2>1. since \in Int
      BY <1>4
    <2>2. Len(Only(out, RowsOfKind(since, kind)))
             = Len(Only(scan[2].out, RowsOfKind(since, kind))) + more
      BY <1>1, <1>2, <2>1, ScanOutOfKind DEF ProfileInv
    <2>3. /\ Stock(Least(b, since), kind) = Stock(Least(b - 1, since), kind) + more
          /\ Stock(Least(b - 1, since), kind) \in Nat
      BY <1>3, <1>4, <1>7, <1>10, LeastStock
    <2>4. more \in Nat
      <3>1. chain[b] \in Seq(Event)
        BY <1>3, <1>4, BlockEvents DEF ChainOK
      <3> QED
        BY <3>1, OccurrencesOfConcat
    <2>5. Len(Only(scan[2].out, RowsOfKind(since, kind))) \in Nat
      <3>1. scan[2].out \in Seq(Row)
        BY <1>4 DEF ScanRecord
      <3>2. Only(scan[2].out, RowsOfKind(since, kind)) \in Seq(Row)
        BY <3>1, OnlyType
      <3> QED
        BY <3>2, LenProperties
    <2> HIDE DEF more
    <2> QED
      BY <1>7, <1>10, <2>2, <2>3, <2>4, <2>5
  <1>11. CASE b > From(head)
    <2>1. phase'[2] = "scanning" /\ UNCHANGED <<loading, rows>>
      BY <1>2, <1>11
    <2>2. ProfileTypeOK'
      <3>1. s.next \in 1..s.head
        BY <1>3, <1>4, <1>5, <1>7, <1>11
      <3> QED
        BY <1>2, <1>4, <1>8, <2>1, <3>1, TypesGoOn
    <2>3. ScanInv'
      <3>1. ListIsHistory'
        BY <2>1 DEF ListIsHistory
      <3>2. History(b, sure)' = History(b, sure)
        BY <1>2 DEF History, OfProfile
      <3>3. b = scan'[2].next + 1 /\ sure = scan'[2].sure /\ out = scan'[2].out
            /\ head = scan'[2].head
        BY <1>3, <1>5, <1>8
      <3>4. History(scan[2].next + 1, scan[2].sure)' = History(b, sure)
        BY <3>2, <3>3
      <3>5. Only(scan[2].out, RowsTo(scan[2].sure))' = Only(out, RowsTo(sure))
        BY <3>3 DEF RowsTo
      <3>6. scan'[2].next >= From(scan'[2].head) /\ scan'[2].next = b - 1
        BY <1>3, <1>4, <1>5, <1>8, <1>11
      <3>7. \A i \in DOMAIN out : out[i].block > b - 1
        <4>1. ASSUME NEW i \in DOMAIN out PROVE out[i].block > b - 1
          <5>1. out[i] \in Row
            BY <1>3, LenProperties, ElementOfSeq
          <5>2. out[i].block \in 1..MaxBlock
            BY <5>1 DEF Row
          <5>3. out[i].block \in Nat /\ out[i].block >= b
            BY <1>3, <1>4, <5>2
          <5> QED
            BY <1>3, <5>3
        <4> QED
          BY <4>1
      <3>8. From(scan[2].head)' = From(scan'[2].head)
        BY DEF From
      <3>9. chain' # << >> => Possible(chain)'
        BY <1>2, <1>7 DEF Possible
      <3>10. scan'[2].sure <= final' /\ scan'[2].head <= Len(chain')
        BY <1>2, <1>7, <3>3
      <3> QED
        BY <1>3, <2>1, <3>1, <3>3, <3>4, <3>5, <3>6, <3>7, <3>8, <3>9, <3>10
           DEF ScanInv, Descending
    <2>4. StakeInv'
      <3> SUFFICES ASSUME ~forked PROVE StakeInv'
        BY <1>2 DEF StakeInv
      <3>1. Least(scan'[2].next, scan'[2].since) = Least(b - 1, since)
        BY <1>5, <1>8
      <3>2. \A kind : Stock(Least(scan[2].next, scan[2].since), kind)'
                         = Stock(Least(b - 1, since), kind)
        BY <1>2, <3>1, LeastStockNow
      <3>3. \A kind : Len(Only(scan[2].out, RowsOfKind(scan[2].since, kind)))'
                         = Len(Only(out, RowsOfKind(since, kind)))
        BY <1>5, <1>8 DEF RowsOfKind
      <3>4. scan'[2].since <= Len(chain') /\ scan'[2].since <= scan'[2].head
        BY <1>2, <1>5, <1>7, <1>8
      <3>5. stake' = Stock(since, "Deposited") - Stock(since, "Withdrawn")
        BY <1>2, <1>7
      <3> QED
        BY <1>9, <1>10, <2>1, <3>2, <3>3, <3>4, <3>5 DEF StakeInv
    <2>5. PageInv'
      BY <1>2, <1>4, <2>1, PageGoesOn
    <2> QED
      BY <2>2, <2>3, <2>4, <2>5
  <1>12. CASE ~(b > From(head))
    <2>0. b = From(head)
      BY <1>3, <1>4, <1>7, <1>12
    <2>1. phase'[2] = "shown" /\ loading' = FALSE /\ rows' = out
      <3>1. SortedRows(out) = out
        BY <1>3, SortedIsSame
      <3> QED
        BY <1>2, <1>12, <3>1 DEF Show, Goto, ProfileInv, ProfileTypeOK, Run
    <2>2. ProfileTypeOK'
      BY <1>2, <1>3, <1>4, <1>8, <2>1, TypesGoOn
    <2>3. ScanInv'
      <3>1. scan'[2].head = head /\ scan'[2].sure = sure
        BY <1>5, <1>8
      <3>2. b >= From(head) /\ Only(rows', RowsTo(sure)) = History(b, sure)
        BY <1>3, <1>7, <2>1
      <3>3. ListIsHistory'
        BY <1>2, <1>3, <1>4, <1>7, <2>0, <3>1, <3>2, ListShown DEF ProfileInv
      <3>4. scan'[2].sure <= final'
        BY <1>2, <1>7, <3>1
      <3>5. chain' # << >> => Possible(chain)'
        BY <1>2, <1>7 DEF Possible
      <3> QED
        BY <2>1, <3>3, <3>4, <3>5 DEF ScanInv
    <2>4. StakeInv'
      <3> SUFFICES ASSUME ~forked PROVE StakeInv'
        BY <1>2 DEF StakeInv
      <3>1. scan'[2].since <= Len(chain')
        BY <1>2, <1>5, <1>7, <1>8
      <3>2. stake' = Stock(since, "Deposited") - Stock(since, "Withdrawn")
        BY <1>2, <1>7
      <3>3. \A kind : Len(Only(rows, RowsOfKind(scan[2].since, kind)))'
                         = Len(Only(out, RowsOfKind(since, kind)))
        BY <1>5, <1>8, <2>1 DEF RowsOfKind
      <3>4. From(scan[2].head)' = From(head)
        BY <1>5, <1>8 DEF From
      <3>5. From(head) = 1 => \A kind \in StakeKind :
               Stock(since, kind) = Len(Only(out, RowsOfKind(since, kind)))
        <4> SUFFICES ASSUME From(head) = 1, NEW kind \in StakeKind
                     PROVE  Stock(since, kind) = Len(Only(out, RowsOfKind(since, kind)))
          OBVIOUS
        <4>1. Least(b - 1, since) = 0
          BY <1>4, <2>0 DEF Least
        <4>2. Stock(Least(b - 1, since), kind) = 0
          BY <4>1, StockOfNone
        <4> QED
          BY <1>10, <4>2
      <3> QED
        BY <1>9, <2>1, <3>1, <3>2, <3>3, <3>4, <3>5 DEF StakeInv
    <2>5. PageInv'
      BY <1>2, <1>3, <1>6, <2>1, PageGoesOn
    <2> QED
      BY <2>2, <2>3, <2>4, <2>5
  <1> QED
    BY <1>11, <1>12

\* A scan that breaks off shows what it has (profile.tsx:120-128, 171-173).
LEMMA BreakStep ==
    ASSUME ProfileInv, RunInv', Break(2)
    PROVE  ProfileTypeOK' /\ ScanInv' /\ StakeInv' /\ PageInv'
  <1> USE DEF chainVars, tableVars
  <1>1. PICK b, out, head, sure, since :
            /\ b = scan[2].next /\ out = scan[2].out
            /\ head = scan[2].head /\ sure = scan[2].sure /\ since = scan[2].since
    OBVIOUS
  <1>2. /\ phase[2] = "scanning" /\ Show(2, out, "cut")
        /\ UNCHANGED <<chain, final, pruned, forked, account, stake, tablePage, rowsPerPage, scan>>
    BY <1>1 DEF Break
  <1>3. /\ ChainOK /\ out \in Seq(Row) /\ final \in Nat
        /\ head \in Nat /\ sure \in Nat /\ since \in Nat /\ b \in Nat
        /\ From(head) \in Nat
        /\ scan \in [Run -> ScanRecord] /\ rows \in Seq(Row) /\ stake \in Nat
    <2>1. scan \in [Run -> ScanRecord] /\ rows \in Seq(Row) /\ stake \in Nat
      BY DEF ProfileInv, ProfileTypeOK, ScanRecord
    <2> QED
      BY <1>1, <2>1, SecondRun DEF ProfileInv
  <1>4. /\ chain # << >> => Possible(chain)
        /\ sure <= final /\ b >= From(head)
        /\ Descending(out)
        /\ Only(out, RowsTo(sure)) = History(b + 1, sure)
    BY <1>1, <1>2 DEF ProfileInv, ScanInv, Descending
  <1>5. loading
    BY <1>2 DEF ProfileInv, RunInv, Settled
  <1>6. phase'[2] = "cut" /\ loading' = FALSE /\ rows' = out
    <2>1. SortedRows(out) = out
      BY <1>3, <1>4, SortedIsSame
    <2> QED
      BY <1>2, <2>1 DEF Show, Goto, ProfileInv, ProfileTypeOK, Run
  <1>7. ProfileTypeOK'
    BY <1>2, <1>3, <1>6, TypesGoOn
  <1>8. ScanInv'
    <2>1. b + 1 \in Nat /\ b + 1 >= From(head)
      BY <1>3, <1>4
    <2>2. Only(rows', RowsTo(sure)) = History(b + 1, sure)
      BY <1>4, <1>6
    <2>3. scan'[2].head = head /\ scan'[2].sure = sure /\ phase'[2] # "shown"
      BY <1>1, <1>2, <1>6
    <2>4. ListIsHistory'
      BY <1>2, <1>3, <1>4, <2>1, <2>2, <2>3, ListShown DEF ProfileInv
    <2>5. chain' # << >> => Possible(chain)'
      BY <1>2, <1>4 DEF Possible
    <2>6. scan'[2].sure <= final'
      BY <1>2, <1>4, <2>3
    <2> QED
      BY <1>6, <2>4, <2>5, <2>6 DEF ScanInv
  <1>9. StakeInv'
    <2> SUFFICES ASSUME ~forked PROVE StakeInv'
      BY <1>2 DEF StakeInv
    <2>1. since <= Len(chain) /\ stake = Stock(since, "Deposited") - Stock(since, "Withdrawn")
      BY <1>1, <1>2 DEF ProfileInv, StakeInv
    <2>2. scan'[2].since = since
      BY <1>1, <1>2
    <2>3. \A kind : Stock(scan[2].since, kind)' = Stock(since, kind)
      BY <1>2, <2>2, StockNow
    <2>4. scan'[2].since <= Len(chain') /\ stake' = Stock(since, "Deposited") - Stock(since, "Withdrawn")
      BY <1>2, <2>1, <2>2
    <2> QED
      BY <1>6, <2>3, <2>4 DEF StakeInv
  <1>10. PageInv'
    BY <1>2, <1>3, <1>5, <1>6, PageGoesOn
  <1> QED
    BY <1>7, <1>8, <1>9, <1>10

\* A page that is turned is one that the table has.
LEMMA TableStep ==
    ASSUME ProfileInv, RunInv',
           \/ \E p \in 0..Len(rows) : ChangePage(p)
           \/ \E n \in RowsPerPageOptions : ChangeRowsPerPage(n)
    PROVE  ProfileTypeOK' /\ ScanInv' /\ StakeInv' /\ PageInv'
  <1> USE DEF chainVars, shownVars, runVars
  <1>1. /\ UNCHANGED <<chain, final, pruned, forked, account, loading, stake, rows,
                       phase, mounted, scan>>
        /\ TableShown
        /\ tablePage' \in Nat /\ rowsPerPage' \in RowsPerPageOptions
        /\ tablePage' * rowsPerPage' < Len(rows)
    <2>1. rows \in Seq(Row) /\ rowsPerPage \in RowsPerPageOptions
      BY DEF ProfileInv, ProfileTypeOK
    <2>2. CASE \E p \in 0..Len(rows) : ChangePage(p)
      BY <2>1, <2>2 DEF ChangePage
    <2>3. CASE \E n \in RowsPerPageOptions : ChangeRowsPerPage(n)
      <3>1. PICK n \in RowsPerPageOptions : ChangeRowsPerPage(n)
        BY <2>3
      <3>2. n \in Nat /\ 0 * n = 0
        BY ProfileAssumption
      <3>3. TableShown /\ 0 < Len(rows)
        BY <2>1, <3>1, EmptySeq, LenProperties DEF ChangeRowsPerPage, TableShown
      <3> QED
        BY <3>1, <3>2, <3>3 DEF ChangeRowsPerPage
    <2> QED
      BY <2>2, <2>3
  <1>2. ProfileTypeOK'
    BY <1>1 DEF ProfileInv, ProfileTypeOK
  <1>3. PageInv'
    BY <1>1 DEF PageInv, TableShown
  <1>4. ScanInv'
    <2>1. ListIsHistory'
      BY <1>1, ListStays DEF ProfileInv
    <2>2. /\ History(scan[2].next + 1, scan[2].sure)' = History(scan[2].next + 1, scan[2].sure)
          /\ From(scan[2].head)' = From(scan[2].head)
          /\ RowsTo(scan[2].sure)' = RowsTo(scan[2].sure)
      BY <1>1 DEF History, From, RowsTo, OfProfile
    <2> QED
      BY <1>1, <2>1, <2>2 DEF ProfileInv, ScanInv, Possible
  <1>5. StakeInv'
    <2>1. \A kind : /\ Stock(scan[2].since, kind)' = Stock(scan[2].since, kind)
                    /\ Stock(Least(scan[2].next, scan[2].since), kind)'
                          = Stock(Least(scan[2].next, scan[2].since), kind)
                    /\ RowsOfKind(scan[2].since, kind)' = RowsOfKind(scan[2].since, kind)
      BY <1>1 DEF Stock, Least, Own, Occurrences, RowsOfKind
    <2>2. From(scan[2].head)' = From(scan[2].head)
      BY <1>1 DEF From
    <2> QED
      BY <1>1, <2>1, <2>2 DEF ProfileInv, StakeInv
  <1> QED
    BY <1>2, <1>3, <1>4, <1>5

-----------------------------------------------------------------------------
(* The theorems.                                                           *)

\* Initially nothing is on the chain, nor on the page.
LEMMA ProfileInvInit == Init => ProfileInv
  <1> SUFFICES ASSUME Init PROVE ProfileInv
    OBVIOUS
  <1>0. << >> \in Seq(Seq(Emitted)) /\ << >> \in Seq(Row) /\ Len(<< >>) = 0 /\ MaxBlock \in Nat
    BY EmptySeq, ProfileAssumption
  <1>1. ProfileTypeOK
    <2>1. chain \in Seq(Seq(Emitted)) /\ Len(chain) <= MaxBlock
          /\ final \in 0..Len(chain) /\ pruned \in 0..final /\ forked \in BOOLEAN
      <3>1. chain \in Seq(Seq(Emitted)) /\ Len(chain) = 0
        BY <1>0, Zenon DEF Init
      <3>2. final = 0 /\ pruned = 0 /\ forked = FALSE
        BY DEF Init
      <3>3. Len(chain) <= MaxBlock /\ 0 \in 0..Len(chain) /\ 0 \in 0..0
        BY <1>0, <3>1
      <3> QED
        BY <3>1, <3>2, <3>3, Zenon
    <2>2. /\ account \in Account \cup {NoAccount} /\ loading \in BOOLEAN /\ stake \in Nat
          /\ rows \in Seq(Row) /\ tablePage \in Nat /\ rowsPerPage \in RowsPerPageOptions
          /\ phase \in [Run -> Phase] /\ mounted \in [Run -> BOOLEAN]
      BY <1>0, ProfileAssumption DEF Init, Run, Phase
    <2>3. scan \in [Run -> [head : 0..MaxBlock, next : 0..MaxBlock, out : Seq(Row),
                            since : 0..MaxBlock, sure : 0..MaxBlock]]
      BY <1>0 DEF Init
    <2>4. \A r \in Run : phase[r] # "scanning"
      BY DEF Init
    <2> QED
      BY <2>1, <2>2, <2>3, <2>4 DEF ProfileTypeOK
  <1>2. RunInv
    BY RunInvInit
  <1>3. phase[2] = "idle" /\ scan[2].out = << >> /\ scan[2].sure = 0 /\ final = 0
        /\ chain = << >> /\ scan[2].since = 0
    BY DEF Init, Run
  <1>4. ScanInv
    BY <1>3 DEF ScanInv, ListIsHistory
  <1>5. StakeInv
    BY <1>0, <1>3 DEF StakeInv
  <1>6. PageInv
    BY DEF Init, PageInv, TableShown
  <1> QED
    BY <1>1, <1>2, <1>4, <1>5, <1>6 DEF ProfileInv

\* Every step keeps the invariant: one lemma for each step that reads or shows
\* something, and one for all the others.
LEMMA ProfileInvNext == ProfileInv /\ [Next]_vars => ProfileInv'
  <1> SUFFICES ASSUME ProfileInv, [Next]_vars
               PROVE  ProfileTypeOK' /\ ScanInv' /\ StakeInv' /\ PageInv'
    BY RunInvNext DEF ProfileInv
  <1> USE DEF chainVars, shownVars, tableVars, runVars
  <1>0. RunInv /\ RunInv'
    BY RunInvNext DEF ProfileInv
  <1>a. /\ account \in Account \cup {NoAccount} /\ Me \in Account
        /\ phase \in [Run -> Phase]
    BY ProfileAssumption DEF ProfileInv, ProfileTypeOK
  <1>1. CASE UNCHANGED vars
    BY <1>0, <1>a, <1>1, QuietStep DEF vars
  <1>2. CASE NewBlock \/ Fork \/ Finalize \/ Prune
    BY <1>2, WorldStep
  <1>3. CASE \/ \E p \in 0..Len(rows) : ChangePage(p)
             \/ \E n \in RowsPerPageOptions : ChangeRowsPerPage(n)
    BY <1>0, <1>3, TableStep
  <1>4. CASE NoAccounts
    <2>1. phase'[2] = phase[2]
      BY <1>4, <1>a DEF NoAccounts, Goto, Run
    <2> QED
      BY <1>0, <1>a, <1>4, <2>1, QuietStep DEF NoAccounts
  <1>5. CASE SetAccount
    <2>1. phase'[2] = "enabling" /\ phase[2] = "idle"
      BY <1>0, <1>5, <1>a DEF SetAccount, RunInv, Run
    <2> QED
      BY <1>0, <1>a, <1>5, <2>1, QuietStep DEF SetAccount
  <1>6. CASE Enabled
    <2>1. phase'[2] = "connecting" /\ phase[2] = "enabling"
      BY <1>6, <1>a DEF Enabled, Goto, Run
    <2> QED
      BY <1>0, <1>a, <1>6, <2>1, QuietStep DEF Enabled
  <1>7. ASSUME NEW r \in Run, Connect(r)
        PROVE  ProfileTypeOK' /\ ScanInv' /\ StakeInv' /\ PageInv'
    <2>1. CASE r = 1
      <3>1. phase'[2] = phase[2]
        BY <1>7, <1>a, <2>1 DEF Connect, Goto, Run
      <3> QED
        BY <1>0, <1>a, <1>7, <3>1, QuietStep DEF Connect
    <2>2. CASE r = 2
      <3>1. Seen(2) # NoAccount
        BY ProfileAssumption DEF Seen
      <3>2. phase[2] = "connecting" /\ phase'[2] \in {"over", "stake"}
        BY <1>7, <1>a, <2>2, <3>1 DEF Connect, Goto, Run
      <3> QED
        BY <1>0, <1>a, <1>7, <3>2, QuietStep DEF Connect
    <2> QED
      BY <2>1, <2>2 DEF Run
  <1>8. ASSUME NEW r \in Run, ReadStake(r) \/ ReadHead(r) \/ ScanBlock(r) \/ Break(r)
        PROVE  ProfileTypeOK' /\ ScanInv' /\ StakeInv' /\ PageInv'
    <2>1. r = 2
      BY <1>0, <1>8, PastConnection DEF ReadStake, ReadHead, ScanBlock, Break
    <2> QED
      BY <1>0, <1>8, <2>1, ReadStakeStep, ReadHeadStep, ScanBlockStep, BreakStep
  <1>9. ASSUME NEW r \in Run, Fail(r)
        PROVE  ProfileTypeOK' /\ ScanInv' /\ StakeInv' /\ PageInv'
    <2>1. phase'[2] \in {phase[2], "over"}
      BY <1>9, <1>a DEF Fail, Goto, Run
    <2> QED
      BY <1>0, <1>a, <1>9, <2>1, QuietStep DEF Fail
  <1> QED
    BY <1>1, <1>2, <1>3, <1>4, <1>5, <1>6, <1>7, <1>8, <1>9 DEF Next, Effect

\* The inductive invariant holds throughout.
LEMMA ProfileInvHolds == Spec => []ProfileInv
  BY ProfileInvInit, ProfileInvNext, PTL DEF Spec

\* The page, the chain and the runs stay within their types: in particular the
\* stake is never negative, and a scan never leaves its window.
THEOREM ProfileTypeCorrect == Spec => []ProfileTypeOK
  <1>1. ProfileInv => ProfileTypeOK
    BY DEF ProfileInv
  <1> QED
    BY <1>1, ProfileInvHolds, PTL

\* Up to the last final block the table is the account's history, whatever the
\* chain does while it is scanned: for any accounts, events, window and length
\* (profile.tsx:108-173).
THEOREM ListIsTheHistory == Spec => []ListIsHistory
  <1>1. ProfileInv => ListIsHistory
    BY DEF ProfileInv, ScanInv
  <1> QED
    BY <1>1, ProfileInvHolds, PTL

\* A whole table explains the stake beside it (profile.tsx:89-106).
THEOREM StakeIsExplained == Spec => []StakeExplained
  <1>1. ProfileInv => StakeExplained
    <2> SUFFICES ASSUME ProfileInv, ~forked, phase[2] = "shown", From(scan[2].head) = 1
                 PROVE  stake = Len(Only(rows, RowsOfKind(scan[2].since, "Deposited")))
                                  - Len(Only(rows, RowsOfKind(scan[2].since, "Withdrawn")))
      BY DEF StakeExplained, RowsOfKind
    <2> QED
      BY DEF ProfileInv, StakeInv, StakeKind
  <1> QED
    BY <1>1, ProfileInvHolds, PTL

\* The table's page on the screen has rows (profile.tsx:283-286).
THEOREM PagesAreNotEmpty == Spec => []PageNotEmpty
  <1>1. ProfileInv => PageNotEmpty
    <2> SUFFICES ASSUME ProfileInv, TableShown PROVE Paginated # << >>
      BY DEF PageNotEmpty
    <2> DEFINE start == tablePage * rowsPerPage
               end == IF start + rowsPerPage < Len(rows) THEN start + rowsPerPage
                                                         ELSE Len(rows)
    <2>1. /\ tablePage \in Nat /\ rowsPerPage \in Nat /\ rowsPerPage >= 1
          /\ rows \in Seq(Row)
      BY ProfileAssumption DEF ProfileInv, ProfileTypeOK
    <2>2. start \in Nat /\ Len(rows) \in Nat /\ start < Len(rows)
      BY <2>1, LenProperties DEF ProfileInv, PageInv
    <2> HIDE DEF start
    <2>3. end \in Nat /\ start + 1 <= end /\ end <= Len(rows)
      BY <2>1, <2>2
    <2>4. Paginated = SubSeq(rows, start + 1, end)
      BY DEF Paginated, start
    <2> HIDE DEF end
    <2>5. \A i \in (start + 1)..end : rows[i] \in Row
      <3>1. \A i \in (start + 1)..end : i \in 1..Len(rows)
        BY <2>2, <2>3
      <3> QED
        BY <2>1, <3>1, ElementOfSeq
    <2>6. Len(SubSeq(rows, start + 1, end)) = end - (start + 1) + 1
      <3>1. start + 1 \in Int /\ end \in Int
        BY <2>2, <2>3
      <3> QED
        BY <2>3, <2>5, <3>1, SubSeqProperties
    <2>7. Len(SubSeq(rows, start + 1, end)) > 0
      BY <2>2, <2>3, <2>6
    <2>8. Len(<< >>) = 0 /\ ~(0 > 0)
      OBVIOUS
    <2> QED
      BY <2>4, <2>7, <2>8, Zenon
  <1> QED
    BY <1>1, ProfileInvHolds, PTL

\* After "Loading..." no step changes what is shown.
LEMMA ShownStaysStep ==
    RunInv /\ [Next]_vars => (~loading => UNCHANGED shownVars)
  <1> SUFFICES ASSUME RunInv, [Next]_vars, ~loading PROVE UNCHANGED shownVars
    OBVIOUS
  <1> USE DEF shownVars, tableVars, runVars
  <1>1. /\ phase[1] \in {"connecting", "over"}
        /\ phase[2] \in Settled
        /\ \A r \in Run : phase[r] \notin {"enabling", "stake", "head", "scanning"}
    BY DEF RunInv, Run, Settled
  <1>2. CASE UNCHANGED vars
    BY <1>2 DEF vars
  <1>3. CASE NewBlock \/ Fork \/ Finalize \/ Prune
    BY <1>3 DEF NewBlock, Fork, Finalize, Prune
  <1>4. CASE \/ \E p \in 0..Len(rows) : ChangePage(p)
             \/ \E n \in RowsPerPageOptions : ChangeRowsPerPage(n)
    BY <1>4 DEF ChangePage, ChangeRowsPerPage
  <1>5. CASE Effect
    BY <1>1, <1>5 DEF Effect, NoAccounts, SetAccount, Enabled, Connect, ReadStake,
                      ReadHead, ScanBlock, Break, Fail, Run, Settled
  <1> QED
    BY <1>2, <1>3, <1>4, <1>5 DEF Next

\* The profile, once it has stopped loading, is never overwritten: by the run
\* that was given up when the account was found, or by anything else, for any
\* accounts, events, window and chain (profile.tsx:81-85).
THEOREM ShownProfileStays == Spec => ShownStays
  <1>1. Spec => []RunInv
    BY RunInvInit, RunInvNext, PTL DEF Spec
  <1>2. RunInv /\ [Next]_vars => [~loading => UNCHANGED shownVars]_vars
    BY ShownStaysStep
  <1> QED
    BY <1>1, <1>2, PTL DEF Spec, ShownStays

=============================================================================
