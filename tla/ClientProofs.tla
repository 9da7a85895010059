----------------------------- MODULE ClientProofs -----------------------------
(***************************************************************************)
(* What may be concluded from what a tab shows, however many transactions  *)
(* it sends, whatever the user repeats, the chain does around it, and      *)
(* however many blocks do not stay.                                        *)
(***************************************************************************)
EXTENDS Client, TreasuryProofs, SequenceTheorems

-----------------------------------------------------------------------------
(* The chain under the tab.                                                *)

\* The tab's transactions are a function on their numbers.
LEMMA TxsAre ==
    ASSUME ClientTypeOK
    PROVE  /\ Len(txs) \in Nat /\ DOMAIN txs = 1..Len(txs)
           /\ txs \in [1..Len(txs) -> Transaction]
           /\ \A n \in DOMAIN txs : txs[n] \in Transaction
  <1>1. txs \in Seq(Transaction)
    BY DEF ClientTypeOK
  <1> QED
    BY <1>1, LenProperties

\* Nothing that happens in or around a tab is more than a step of the treasury.
LEMMA ClientStepIsStep ==
    ASSUME ClientTypeOK, [ClientNext]_clientVars
    PROVE  [Next]_vars
  <1>1. CASE User
    BY <1>1 DEF User, Open, Reload, Jump, HandleVote, HandleFinalize, HandleSubmit,
               OpenDialog, CloseDialog, OnConfirm, Mount
  <1>2. CASE Load
    BY <1>2 DEF Load
  <1>3. ASSUME NEW n \in DOMAIN txs, Include(n)
        PROVE  [Next]_vars
    <2> DEFINE call == txs[n].call
    <2>1. call \in Call
      BY TxsAre DEF Transaction
    <2>2. CASE UNCHANGED vars
      BY <2>2
    <2>3. CASE Execute(call)
      <3>1. CASE call.kind = "vote"
        BY <2>1, <2>3, <3>1, ClientAssumption DEF Execute, Call, Next, ProposalCall
      <3>2. CASE call.kind = "finalize"
        BY <2>1, <2>3, <3>2 DEF Execute, Call, Next, ProposalCall
      <3>3. CASE call.kind = "create"
        BY <2>1, <2>3, <3>3, ClientAssumption
           DEF Execute, Call, Next, ProposalCall
      <3>4. CASE call.kind = "deposit"
        BY <2>1, <2>3, <3>4, ClientAssumption DEF Execute, Call, Next, StakeCall
      <3> QED
        BY <2>3, <3>1, <3>2, <3>3, <3>4 DEF Execute
    <2> QED
      BY <1>3, <2>2, <2>3 DEF Include
  <1>4. ASSUME NEW n \in DOMAIN txs,
               \/ Refuse(n) \/ Submit(n) \/ Disconnect(n) \/ Report(n)
               \/ Retract(n) \/ Drop(n)
        PROVE  UNCHANGED vars
    BY <1>4 DEF Refuse, Submit, Disconnect, Retract, Drop, Report, ReportAndReload,
               ReportCreation, ReportDeposit
  <1>5. CASE Chain \/ UNCHANGED clientVars
    BY <1>5 DEF Chain, clientVars
  <1> QED
    BY <1>1, <1>2, <1>3, <1>4, <1>5 DEF ClientNext, Transacting

-----------------------------------------------------------------------------
(* The transactions.                                                       *)

\* Reports that all say the same.
Says(reports, outcome) == \A k \in DOMAIN reports : reports[k] = outcome

\* What has been told of a transaction, and is on its way, by its stage.
Told(t) ==
    /\ t.stage = "signing" => t.told = {} /\ t.retracted = 0 /\ t.reports = << >>
    /\ t.told = {"error"} => ~t.live
    /\ t.retracted = 0 =>
          /\ t.stage \notin Outcome => t.told \subseteq {"error"} /\ t.reports = << >>
          /\ t.stage = "executed" =>
                Says(t.reports, "executed") /\ t.told # {"success", "error"}
          /\ t.stage = "failed" => Says(t.reports, "failed") /\ t.told # {"success"}

\* What becomes of a transaction in a step that does not execute it.
Moved(t, u) ==
    /\ u \in Transaction
    /\ u.call = t.call
    /\ u.stage = "executed" => t.stage = "executed"
    /\ Told(t) => Told(u)

AllMoved ==
    /\ txs' \in [1..Len(txs) -> Transaction]
    /\ \A n \in DOMAIN txs : Moved(txs[n], txs'[n])

Fresh(t) ==
    /\ t \in Transaction
    /\ t.stage = "signing" /\ t.told = {} /\ t.retracted = 0 /\ t.reports = << >>
    /\ t.mounted /\ t.live

Sent(t) == Fresh(t) /\ Len(txs) < MaxTx /\ txs' = Append(txs, t)

Executed(n) ==
    /\ txs[n].stage = "pool"
    /\ Execute(txs[n].call)
    /\ txs' = [txs EXCEPT ![n] = Placed(txs[n], "executed")]

\* The next report, and those after it.
LEMMA SaysTail ==
    ASSUME NEW reports \in Seq(Outcome), reports # << >>
    PROVE  /\ Head(reports) \in Outcome /\ Tail(reports) \in Seq(Outcome)
           /\ \A outcome : Says(reports, outcome) =>
                 Head(reports) = outcome /\ Says(Tail(reports), outcome)
  <1>1. Head(reports) \in Outcome /\ Tail(reports) \in Seq(Outcome)
    BY HeadTailProperties
  <1>2. /\ Head(reports) = reports[1] /\ 1 \in DOMAIN reports
        /\ \A k \in DOMAIN Tail(reports) :
              k + 1 \in DOMAIN reports /\ Tail(reports)[k] = reports[k + 1]
    BY HeadTailProperties, LenProperties
  <1> QED
    BY <1>1, <1>2 DEF Says

\* A block that stays is reported twice, to whoever listens.
LEMMA PlacedTold ==
    ASSUME NEW t \in Transaction, t.stage = "pool", NEW outcome \in Outcome
    PROVE  LET u == Placed(t, outcome) IN
             /\ u \in Transaction /\ u.call = t.call /\ u.stage = outcome
             /\ u.live = t.live /\ u.mounted = t.mounted /\ u.told = t.told
             /\ Told(t) => Told(u)
  <1> DEFINE both == <<outcome, outcome>>
             reports == IF t.live THEN t.reports \o both ELSE t.reports
             u == [t EXCEPT !.stage = outcome, !.reports = reports]
  <1>1. both \in Seq(Outcome) /\ t.reports \in Seq(Outcome) /\ t.live \in BOOLEAN
    BY DEF Transaction
  <1>2. reports \in Seq(Outcome)
    BY <1>1, ConcatProperties
  <1>3. t.reports = << >> => Says(reports, outcome)
    BY <1>1 DEF Says
  <1>4. Placed(t, outcome) = u
    BY DEF Placed, Transaction
  <1> HIDE DEF reports
  <1>5. /\ u \in Transaction /\ u.call = t.call /\ u.stage = outcome
        /\ u.live = t.live /\ u.mounted = t.mounted /\ u.told = t.told
        /\ u.reports = reports /\ u.retracted = t.retracted
    BY <1>2 DEF Transaction, Stage
  <1>6. Told(t) => Told(u)
    <2> SUFFICES ASSUME Told(t) PROVE Told(u)
      OBVIOUS
    <2>1. t.retracted = 0 => t.told \subseteq {"error"} /\ Says(reports, outcome)
      BY <1>3 DEF Told, Outcome
    <2> HIDE DEF u
    <2> QED
      BY <1>5, <2>1 DEF Told, Outcome
  <1> QED
    BY <1>4, <1>5, <1>6

\* A transaction left alone has not moved, and neither is losing its page, its
\* handler or its connection more than a move.
LEMMA SmallMoves ==
    ASSUME NEW t \in Transaction
    PROVE  Moved(t, t) /\ Moved(t, Unmounted(t)) /\ Moved(t, Reloaded(t))
  <1>1. Moved(t, t)
    BY DEF Moved
  <1>2. Moved(t, Unmounted(t))
    BY DEF Moved, Unmounted, Transaction, Told
  <1>3. Moved(t, Reloaded(t))
    <2> DEFINE s == IF t.stage = "signing" THEN "unsent" ELSE t.stage
               u == [t EXCEPT !.live = FALSE, !.mounted = FALSE, !.reports = << >>,
                              !.stage = s]
    <2>1. Reloaded(t) = u
      BY DEF Reloaded, Transaction
    <2>2. << >> \in Seq(Outcome) /\ s \in Stage
      BY DEF Transaction, Stage
    <2>3. /\ u \in Transaction /\ u.call = t.call /\ ~u.mounted /\ ~u.live
          /\ u.told = t.told /\ u.stage = s /\ u.retracted = t.retracted
          /\ u.reports = << >>
      BY <2>2 DEF Transaction
    <2>4. Says(<< >>, "executed") /\ Says(<< >>, "failed")
      BY DEF Says
    <2> HIDE DEF u
    <2>5. Told(t) => Told(u)
      BY <2>3, <2>4 DEF Told, Outcome
    <2> QED
      BY <2>1, <2>3, <2>5 DEF Moved
  <1> QED
    BY <1>1, <1>2, <1>3

\* What is sent has only just begun.
LEMMA SendFresh ==
    ASSUME NEW call \in Call, Send(call)
    PROVE  \E t \in Transaction : Sent(t) /\ t.call = call
  <1> DEFINE t == [call |-> call, stage |-> "signing", live |-> TRUE,
                   mounted |-> TRUE, retracted |-> 0, reports |-> << >>,
                   told |-> {}]
  <1>1. << >> \in Seq(Outcome)
    OBVIOUS
  <1>2. t \in Transaction /\ Fresh(t) /\ t.call = call
    BY <1>1 DEF Transaction, Stage, Fresh
  <1>3. Len(txs) < MaxTx /\ txs' = Append(txs, t)
    BY DEF Send
  <1> HIDE DEF t
  <1> QED
    BY <1>2, <1>3 DEF Sent

\* A report is taken off, and says no more than the block it is of.
LEMMA HeardMoves ==
    ASSUME ClientTypeOK, NEW n \in DOMAIN txs, Report(n)
    PROVE  \E u : /\ Moved(txs[n], u) /\ Heard(n) = [txs EXCEPT ![n] = u]
                  /\ u.stage = txs[n].stage /\ u.mounted = txs[n].mounted
                  /\ u.live = txs[n].live
                  /\ u.told = txs[n].told \cup Messages(Head(txs[n].reports))
  <1> DEFINE t == txs[n]
             told == t.told \cup Messages(Head(t.reports))
             reports == Tail(t.reports)
             u == [t EXCEPT !.reports = reports, !.told = told]
  <1>1. t \in Transaction /\ t.live /\ t.reports # << >> /\ t.reports \in Seq(Outcome)
    BY TxsAre DEF Report, ReportAndReload, ReportCreation, ReportDeposit, Reportable,
                  Transaction
  <1>2. /\ Head(t.reports) \in Outcome /\ reports \in Seq(Outcome)
        /\ \A outcome : Says(t.reports, outcome) =>
              Head(t.reports) = outcome /\ Says(reports, outcome)
    BY <1>1, SaysTail
  <1>3. told \in SUBSET {"success", "error"}
    BY <1>1 DEF Messages, Transaction
  <1>4. Heard(n) = [txs EXCEPT ![n] = u]
    BY TxsAre DEF Heard
  <1>5. \/ Head(t.reports) = "executed" /\ told = t.told \cup {"success"}
        \/ Head(t.reports) = "failed" /\ told = {"success", "error"}
    BY <1>1, <1>2 DEF Messages, Outcome, Transaction
  <1> HIDE DEF told, reports
  <1>6. /\ u \in Transaction /\ u.call = t.call /\ u.stage = t.stage
        /\ u.live = t.live /\ u.mounted = t.mounted /\ u.told = told
        /\ u.reports = reports /\ u.retracted = t.retracted
    BY <1>1, <1>2, <1>3 DEF Transaction
  <1> HIDE DEF u
  <1>7. Told(t) => Told(u)
    <2> SUFFICES ASSUME Told(t) PROVE Told(u)
      OBVIOUS
    <2>1. t.stage # "signing" /\ (t.retracted = 0 => t.stage \in Outcome)
      BY <1>1 DEF Told
    <2>2. t.told # {"error"} /\ t.told \in SUBSET {"success", "error"}
      BY <1>1 DEF Told, Transaction
    <2>3. told # {"error"}
      BY <1>5
    <2>4. t.retracted = 0 /\ t.stage = "executed" =>
             Says(reports, "executed") /\ told # {"success", "error"}
      <3> SUFFICES ASSUME t.retracted = 0, t.stage = "executed"
                   PROVE  Says(reports, "executed") /\ told # {"success", "error"}
        OBVIOUS
      <3>1. /\ Head(t.reports) = "executed" /\ Says(reports, "executed")
            /\ t.told # {"success", "error"}
        BY <1>2 DEF Told
      <3>2. t.told \subseteq {"success"}
        BY <2>2, <3>1
      <3> QED
        BY <1>5, <3>1, <3>2
    <2>5. t.retracted = 0 /\ t.stage = "failed" =>
             Says(reports, "failed") /\ told # {"success"}
      BY <1>2, <1>5 DEF Told
    <2> QED
      BY <1>6, <2>1, <2>3, <2>4, <2>5 DEF Told, Outcome
  <1> QED
    BY <1>4, <1>6, <1>7 DEF Moved, told

LEMMA MovesCompose ==
    ASSUME NEW t, NEW u, NEW v, Moved(t, u), Moved(u, v)
    PROVE  Moved(t, v)
  BY DEF Moved

\* A step of the tab or the chain sends one transaction, executes one, or moves.
LEMMA TxsStep ==
    ASSUME ClientTypeOK, [ClientNext]_clientVars
    PROVE  \/ \E t \in Transaction : Sent(t)
           \/ \E n \in DOMAIN txs : Executed(n)
           \/ AllMoved
  <1>0. /\ DOMAIN txs = 1..Len(txs) /\ txs \in [1..Len(txs) -> Transaction]
        /\ \A n \in DOMAIN txs : txs[n] \in Transaction
    BY TxsAre
  <1>1. CASE UNCHANGED txs
    BY <1>0, <1>1, SmallMoves DEF AllMoved
  <1>2. ASSUME NEW call \in Call, Send(call)
        PROVE  \E t \in Transaction : Sent(t)
    BY <1>2, SendFresh
  <1>3. CASE txs' = [n \in DOMAIN txs |-> Unmounted(txs[n])]
    <2>1. \A n \in DOMAIN txs : Moved(txs[n], Unmounted(txs[n]))
      BY <1>0, SmallMoves
    <2> QED
      BY <1>0, <1>3, <2>1 DEF AllMoved, Moved
  <1>4. CASE txs' = [n \in DOMAIN txs |-> Reloaded(txs[n])]
    <2>1. \A n \in DOMAIN txs : Moved(txs[n], Reloaded(txs[n]))
      BY <1>0, SmallMoves
    <2> QED
      BY <1>0, <1>4, <2>1 DEF AllMoved, Moved
  <1>5. ASSUME NEW n \in DOMAIN txs, NEW u, Moved(txs[n], u), txs' = [txs EXCEPT ![n] = u]
        PROVE  AllMoved
    <2>1. u \in Transaction
      BY <1>5 DEF Moved
    <2>2. \A m \in DOMAIN txs : Moved(txs[m], txs'[m])
      BY <1>0, <1>5, SmallMoves
    <2> QED
      BY <1>0, <1>5, <2>1, <2>2 DEF AllMoved
  <1>6. ASSUME NEW n \in DOMAIN txs, Refuse(n)
        PROVE  AllMoved
    <2>1. PICK stage \in {"unsent", "pool"} :
             txs' = [txs EXCEPT ![n] = Thrown(txs[n], stage)]
      BY <1>0, <1>6 DEF Refuse
    <2>2. Moved(txs[n], Thrown(txs[n], stage))
      <3> DEFINE t == txs[n]
                 u == [t EXCEPT !.stage = stage, !.live = FALSE,
                                !.told = t.told \cup {"error"}]
      <3>1. t \in Transaction /\ t.stage = "signing"
        BY <1>0, <1>6 DEF Refuse
      <3>2. /\ u \in Transaction /\ u.call = t.call /\ u.stage = stage /\ ~u.live
            /\ u.told = t.told \cup {"error"} /\ u.reports = t.reports
            /\ u.retracted = t.retracted
        BY <3>1 DEF Transaction, Stage
      <3>3. Thrown(t, stage) = u
        BY <3>1 DEF Thrown, Transaction
      <3> HIDE DEF u
      <3>4. Told(t) => Told(u)
        BY <3>1, <3>2 DEF Told, Outcome
      <3> QED
        BY <3>2, <3>3, <3>4 DEF Moved
    <2> QED
      BY <1>5, <2>1, <2>2
  <1>7. ASSUME NEW n \in DOMAIN txs, Submit(n) \/ Drop(n)
        PROVE  AllMoved
    <2>1. PICK s \in {"pool", "lost"} : txs' = [txs EXCEPT ![n].stage = s]
      BY <1>7 DEF Submit, Drop
    <2> DEFINE t == txs[n]
               u == [t EXCEPT !.stage = s]
    <2>2. t \in Transaction /\ t.stage \in {"signing", "pool"}
      BY <1>0, <1>7 DEF Submit, Drop
    <2>3. /\ u \in Transaction /\ u.call = t.call /\ u.stage = s /\ u.live = t.live
          /\ u.told = t.told /\ u.reports = t.reports /\ u.retracted = t.retracted
      BY <2>2 DEF Transaction, Stage
    <2>4. txs' = [txs EXCEPT ![n] = u]
      BY <1>0, <2>1
    <2> HIDE DEF u
    <2>5. Told(t) => Told(u)
      BY <2>2, <2>3 DEF Told, Outcome
    <2>6. Moved(t, u)
      BY <2>3, <2>5 DEF Moved
    <2> QED
      BY <1>5, <2>4, <2>6
  <1>8. ASSUME NEW n \in DOMAIN txs, Retract(n)
        PROVE  AllMoved
    <2>1. PICK outcome \in Outcome : txs' = [txs EXCEPT ![n] = Strayed(txs[n], outcome)]
      BY <1>0, <1>8 DEF Retract, Outcome
    <2> DEFINE t == txs[n]
               reports == Append(t.reports, outcome)
               retracted == t.retracted + 1
               u == [t EXCEPT !.retracted = retracted, !.reports = reports]
    <2>2. t \in Transaction /\ t.stage = "pool"
      BY <1>0, <1>8 DEF Retract
    <2>3. reports \in Seq(Outcome)
      BY <2>2 DEF Transaction
    <2>4. Strayed(t, outcome) = u
      BY <2>2 DEF Strayed, Transaction
    <2> HIDE DEF reports
    <2>5. t.retracted \in Nat /\ retracted \in Nat /\ retracted # 0
      BY <2>2 DEF Transaction
    <2> HIDE DEF retracted
    <2>6. /\ u \in Transaction /\ u.call = t.call /\ u.stage = "pool" /\ u.live = t.live
          /\ u.told = t.told /\ u.retracted = retracted
      BY <2>2, <2>3, <2>5 DEF Transaction
    <2> HIDE DEF u
    <2>7. Told(t) => Told(u)
      BY <2>5, <2>6 DEF Told
    <2>8. Moved(t, u)
      BY <2>6, <2>7 DEF Moved
    <2> QED
      BY <1>5, <2>1, <2>4, <2>8
  <1>9. ASSUME NEW n \in DOMAIN txs, Disconnect(n)
        PROVE  AllMoved
    <2> DEFINE t == txs[n]
               u == [t EXCEPT !.live = FALSE, !.reports = << >>]
    <2>1. t \in Transaction /\ << >> \in Seq(Outcome)
      BY <1>0
    <2>2. /\ u \in Transaction /\ u.call = t.call /\ u.stage = t.stage /\ ~u.live
          /\ u.told = t.told /\ u.reports = << >> /\ u.retracted = t.retracted
      BY <2>1 DEF Transaction
    <2>3. txs' = [txs EXCEPT ![n] = u]
      BY <1>0, <1>9 DEF Disconnect
    <2> HIDE DEF u
    <2>4. Says(<< >>, "executed") /\ Says(<< >>, "failed")
      BY DEF Says
    <2>5. Told(t) => Told(u)
      BY <2>2, <2>4 DEF Told
    <2>6. Moved(t, u)
      BY <2>2, <2>5 DEF Moved
    <2> QED
      BY <1>5, <2>3, <2>6
  <1>10. ASSUME NEW n \in DOMAIN txs, Include(n)
         PROVE  Executed(n) \/ AllMoved
    <2>1. txs[n].stage = "pool" /\ txs[n] \in Transaction
      BY <1>0, <1>10 DEF Include
    <2>2. Executed(n) \/ txs' = [txs EXCEPT ![n] = Placed(txs[n], "failed")]
      BY <1>0, <1>10, <2>1 DEF Include, Executed
    <2>3. Moved(txs[n], Placed(txs[n], "failed"))
      BY <2>1, PlacedTold DEF Moved, Outcome
    <2> QED
      BY <1>5, <2>2, <2>3
  <1>11. ASSUME NEW n \in DOMAIN txs, Report(n)
         PROVE  AllMoved
    <2>1. PICK u : /\ Moved(txs[n], u) /\ Heard(n) = [txs EXCEPT ![n] = u]
      BY <1>11, HeardMoves
    <2>2. CASE txs' = Heard(n)
      BY <1>5, <2>1, <2>2
    <2>3. ASSUME NEW m \in DOMAIN txs
          PROVE  /\ Heard(n)[m] \in Transaction
                 /\ Moved(txs[m], Heard(n)[m])
                 /\ Moved(txs[m], Unmounted(Heard(n)[m]))
                 /\ Moved(txs[m], Reloaded(Heard(n)[m]))
      <3>1. Moved(txs[m], Heard(n)[m])
        BY <1>0, <2>1, SmallMoves
      <3>2. Heard(n)[m] \in Transaction
        BY <3>1 DEF Moved
      <3> QED
        BY <3>1, <3>2, SmallMoves, MovesCompose
    <2>4. CASE \/ txs' = [m \in DOMAIN txs |-> Unmounted(Heard(n)[m])]
               \/ txs' = [m \in DOMAIN txs |-> Reloaded(Heard(n)[m])]
      <3>1. \A m \in DOMAIN txs : Moved(txs[m], txs'[m])
        BY <2>3, <2>4
      <3>2. DOMAIN txs' = DOMAIN txs /\ \A m \in DOMAIN txs : txs'[m] \in Transaction
        BY <2>4, <3>1 DEF Moved
      <3>3. txs' = [m \in DOMAIN txs |-> txs'[m]]
        BY <2>4
      <3> QED
        BY <1>0, <3>1, <3>2, <3>3 DEF AllMoved
    <2> QED
      BY <1>11, <2>2, <2>4
         DEF Report, ReportAndReload, ReportCreation, ReportDeposit
  <1>12. CASE User
    <2>1. ASSUME NEW vote \in VoteKind, HandleVote(vote)
          PROVE  \E t \in Transaction : Sent(t)
      BY <1>2, <2>1 DEF HandleVote, Call, ClientTypeOK
    <2>2. ASSUME HandleFinalize
          PROVE  \E t \in Transaction : Sent(t)
      BY <1>2, <2>2 DEF HandleFinalize, Call, ClientTypeOK
    <2>3. ASSUME NEW duration \in Duration,
                 NEW action \in [from : Coin, to : Coin, amount : CoinAmount],
                 HandleSubmit(duration, action)
          PROVE  \E t \in Transaction : Sent(t)
      BY <1>2, <2>3 DEF HandleSubmit, Call
    <2>4. ASSUME NEW amount \in Amount, OnConfirm(amount)
          PROVE  \E t \in Transaction : Sent(t)
      BY <1>2, <2>4 DEF OnConfirm, Call
    <2> QED
      BY <1>1, <1>3, <1>4, <1>12, <2>1, <2>2, <2>3, <2>4
         DEF User, Open, Jump, Reload, OpenDialog, CloseDialog
  <1>13. CASE Load \/ Chain \/ UNCHANGED clientVars
    BY <1>1, <1>13 DEF Load, Chain, clientVars
  <1>14. CASE Transacting
    BY <1>6, <1>7, <1>8, <1>9, <1>10, <1>11, <1>14 DEF Transacting
  <1> QED
    BY <1>12, <1>13, <1>14 DEF ClientNext

\* The tab's sequence of transactions after such a step.
LEMMA TxsAfter ==
    ASSUME ClientTypeOK
    PROVE  /\ AllMoved => /\ txs' \in Seq(Transaction) /\ Len(txs') = Len(txs)
                          /\ DOMAIN txs' = DOMAIN txs
           /\ \A n \in DOMAIN txs : Executed(n) =>
                 /\ txs' \in Seq(Transaction) /\ Len(txs') = Len(txs)
                 /\ DOMAIN txs' = DOMAIN txs
                 /\ txs'[n] = Placed(txs[n], "executed")
                 /\ \A m \in DOMAIN txs \ {n} : txs'[m] = txs[m]
           /\ \A t \in Transaction : Sent(t) =>
                 /\ txs' \in Seq(Transaction) /\ Len(txs') = Len(txs) + 1
                 /\ DOMAIN txs' = DOMAIN txs \cup {Len(txs) + 1}
                 /\ Len(txs) + 1 \notin DOMAIN txs
                 /\ txs'[Len(txs) + 1] = t
                 /\ \A m \in DOMAIN txs : txs'[m] = txs[m]
  <1>0. /\ Len(txs) \in Nat /\ DOMAIN txs = 1..Len(txs)
        /\ txs \in [1..Len(txs) -> Transaction] /\ txs \in Seq(Transaction)
        /\ \A n \in DOMAIN txs : txs[n] \in Transaction
    BY TxsAre DEF ClientTypeOK
  <1>1. ASSUME NEW f \in [1..Len(txs) -> Transaction]
        PROVE  f \in Seq(Transaction) /\ Len(f) = Len(txs) /\ DOMAIN f = DOMAIN txs
    <2>1. f \in Seq(Transaction)
      BY <1>0
    <2> QED
      BY <1>0, <2>1, LenProperties
  <1>2. ASSUME AllMoved
        PROVE  /\ txs' \in Seq(Transaction) /\ Len(txs') = Len(txs)
               /\ DOMAIN txs' = DOMAIN txs
    BY <1>1, <1>2 DEF AllMoved
  <1>3. ASSUME NEW n \in DOMAIN txs, Executed(n)
        PROVE  /\ txs' \in Seq(Transaction) /\ Len(txs') = Len(txs)
               /\ DOMAIN txs' = DOMAIN txs
               /\ txs'[n] = Placed(txs[n], "executed")
               /\ \A m \in DOMAIN txs \ {n} : txs'[m] = txs[m]
    <2> DEFINE u == Placed(txs[n], "executed")
    <2>1. u \in Transaction
      BY <1>0, <1>3, PlacedTold DEF Executed, Outcome
    <2>2. txs' = [txs EXCEPT ![n] = u]
      BY <1>3 DEF Executed
    <2> HIDE DEF u
    <2>3. txs' \in [1..Len(txs) -> Transaction]
      BY <1>0, <2>1, <2>2
    <2>4. txs'[n] = u /\ \A m \in DOMAIN txs \ {n} : txs'[m] = txs[m]
      BY <1>0, <2>2
    <2> QED
      BY <1>1, <2>3, <2>4 DEF u
  <1>4. ASSUME NEW t \in Transaction, Sent(t)
        PROVE  /\ txs' \in Seq(Transaction) /\ Len(txs') = Len(txs) + 1
               /\ DOMAIN txs' = DOMAIN txs \cup {Len(txs) + 1}
               /\ Len(txs) + 1 \notin DOMAIN txs
               /\ txs'[Len(txs) + 1] = t
               /\ \A m \in DOMAIN txs : txs'[m] = txs[m]
    <2>1. txs' = Append(txs, t)
      BY <1>4 DEF Sent
    <2>2. txs' \in Seq(Transaction) /\ Len(txs') = Len(txs) + 1
      BY <1>0, <2>1
    <2>3. DOMAIN txs' = 1..(Len(txs) + 1)
      BY <2>2, LenProperties
    <2>4. txs'[Len(txs) + 1] = t /\ \A m \in 1..Len(txs) : txs'[m] = txs[m]
      BY <1>0, <2>1
    <2> QED
      BY <1>0, <2>2, <2>3, <2>4
  <1> QED
    BY <1>2, <1>3, <1>4

LEMMA InitClientTypeOK == ClientInit => ClientTypeOK
  <1> SUFFICES ASSUME ClientInit PROVE ClientTypeOK
    OBVIOUS
  <1>1. TypeOK
    BY InitTypeOK DEF ClientInit
  <1>2. txs \in Seq(Transaction) /\ Len(txs) <= MaxTx
    BY EmptySeq, ClientAssumption DEF ClientInit
  <1>3. 0 \in ProposalId
    BY WidthAssumption DEF ProposalId
  <1> QED
    BY <1>1, <1>2, <1>3 DEF ClientInit, ClientTypeOK

\* Every step of the tab, and of the chain around it, keeps the types.
LEMMA NextClientTypeOK ==
    ClientTypeOK /\ [ClientNext]_clientVars => ClientTypeOK'
  <1> SUFFICES ASSUME ClientTypeOK, [ClientNext]_clientVars
               PROVE  ClientTypeOK'
    OBVIOUS
  <1>0. TypeOK' /\ TypeOK
    BY NextTypeOK, ClientStepIsStep DEF ClientTypeOK
  <1>1. txs' \in Seq(Transaction) /\ Len(txs') <= MaxTx
    <2>1. Len(txs) \in Nat /\ Len(txs) <= MaxTx /\ MaxTx \in Nat
      BY TxsAre, ClientAssumption DEF ClientTypeOK
    <2>2. ASSUME NEW t \in Transaction, Sent(t)
          PROVE  Len(txs) < MaxTx
      BY <2>2 DEF Sent
    <2>3. ASSUME NEW t \in Transaction, Sent(t)
          PROVE  txs' \in Seq(Transaction) /\ Len(txs') = Len(txs) + 1
      BY <2>3, TxsAfter
    <2>4. ASSUME NEW n \in DOMAIN txs, Executed(n)
          PROVE  txs' \in Seq(Transaction) /\ Len(txs') = Len(txs)
      BY <2>4, TxsAfter
    <2>5. AllMoved => txs' \in Seq(Transaction) /\ Len(txs') = Len(txs)
      BY TxsAfter
    <2>6. CASE \E t \in Transaction : Sent(t)
      BY <2>1, <2>2, <2>3, <2>6
    <2>7. CASE (\E n \in DOMAIN txs : Executed(n)) \/ AllMoved
      BY <2>1, <2>4, <2>5, <2>7
    <2> QED
      BY <2>6, <2>7, TxsStep
  <1> DEFINE PageOK == /\ page \in {"list", "create", "proposal"}
                       /\ id \in ProposalId
                       /\ data \in Proposal \cup {NoProposal}
                       /\ dataId \in ProposalId
                       /\ fetching \in BOOLEAN /\ loading \in BOOLEAN
                       /\ voting \in BOOLEAN /\ submitting \in BOOLEAN
                       /\ loading => fetching
                       /\ dialog \in {"closed", "open", "waiting"}
  <1>2. PageOK
    BY DEF ClientTypeOK
  <1>3. 0 \in ProposalId /\ Shown \subseteq ProposalId
    BY WidthAssumption, ClientAssumption DEF ProposalId
  <1>4. ASSUME NEW p \in {"list", "create", "proposal"}, NEW i \in ProposalId,
               Mount(p, i), dialog' \in {dialog, "closed"}
        PROVE  PageOK'
    <2>1. /\ fetching' \in BOOLEAN /\ loading' \in BOOLEAN
          /\ voting' \in BOOLEAN /\ submitting' \in BOOLEAN
          /\ (loading' => fetching')
      BY <1>4, Zenon DEF Mount
    <2>2. /\ page' = p /\ id' = i /\ data' = NoProposal /\ dataId' = 0
      BY <1>4 DEF Mount
    <2> QED
      BY <1>2, <1>3, <1>4, <2>1, <2>2
  <1>5. ASSUME UNCHANGED tabVars PROVE PageOK'
    BY <1>2, <1>5 DEF tabVars, proposalPage
  <1>6. ASSUME User PROVE PageOK'
    <2>1. ASSUME NEW i \in Shown, Jump(i)
          PROVE  PageOK'
      BY <1>2, <1>3, <2>1 DEF Jump
    <2>2. ASSUME NEW vote \in VoteKind, HandleVote(vote)
          PROVE  PageOK'
      BY <1>2, <2>2 DEF HandleVote
    <2>3. ASSUME NEW duration \in Duration,
                 NEW action \in [from : Coin, to : Coin, amount : CoinAmount],
                 HandleSubmit(duration, action)
          PROVE  PageOK'
      BY <1>2, <2>3 DEF HandleSubmit, proposalPage
    <2>4. ASSUME \/ OpenDialog \/ CloseDialog
                 \/ \E amount \in Amount : OnConfirm(amount)
          PROVE  PageOK'
      <3>1. /\ UNCHANGED <<page, proposalPage, submitting>>
            /\ dialog' \in {"closed", "open", "waiting"}
        BY <2>4 DEF OpenDialog, CloseDialog, OnConfirm
      <3> QED
        BY <1>2, <3>1, Zenon DEF proposalPage
    <2>5. ASSUME \/ Open("list", 0) \/ Reload \/ Open("create", 0)
                 \/ \E i \in Shown : Open("proposal", i)
          PROVE  PageOK'
      BY <1>2, <1>3, <1>4, <2>5 DEF Open, Reload
    <2> QED
      BY <1>5, <1>6, <2>1, <2>2, <2>3, <2>4, <2>5 DEF User, HandleFinalize
  <1>7. ASSUME Load PROVE PageOK'
    <2>1. Exists(id) => proposals[id] \in Proposal
      BY <1>0, <1>2, RecordType
    <2> QED
      BY <1>2, <1>7, <2>1 DEF Load
  <1>8. ASSUME NEW n \in DOMAIN txs,
               \/ Refuse(n) \/ Submit(n) \/ Disconnect(n) \/ Report(n)
               \/ Include(n) \/ Retract(n) \/ Drop(n)
        PROVE  PageOK'
    <2>1. CASE Refuse(n)
      <3>1. Releases(txs[n], "vote", voting) \in BOOLEAN
        BY DEF Releases
      <3>2. Releases(txs[n], "create", submitting) \in BOOLEAN
        BY DEF Releases
      <3> QED
        BY <1>2, <2>1, <3>1, <3>2 DEF Refuse, Closes
    <2>2. CASE Submit(n)
      BY <1>2, <2>2 DEF Submit, Closes, proposalPage
    <2>3. CASE \/ Disconnect(n) \/ ReportDeposit(n)
               \/ Include(n) \/ Retract(n) \/ Drop(n)
      BY <1>5, <2>3 DEF Disconnect, ReportDeposit, Include, Retract, Drop
    <2>4. CASE ReportAndReload(n)
      BY <1>2, <1>4, <2>4 DEF ReportAndReload
    <2>5. CASE ReportCreation(n)
      <3>1. CASE page = "list"
        BY <1>2, <2>5, <3>1 DEF ReportCreation, proposalPage
      <3>2. CASE page # "list"
        BY <1>3, <1>4, <2>5, <3>2 DEF ReportCreation
      <3> QED
        BY <3>1, <3>2
    <2> QED
      BY <1>8, <2>1, <2>2, <2>3, <2>4, <2>5 DEF Report
  <1>9. ASSUME Chain \/ UNCHANGED clientVars PROVE PageOK'
    BY <1>5, <1>9 DEF Chain, clientVars
  <1>10. PageOK'
    BY <1>6, <1>7, <1>8, <1>9 DEF ClientNext, Transacting
  <1> QED
    BY <1>0, <1>1, <1>10 DEF ClientTypeOK

-----------------------------------------------------------------------------
(* What is said of transactions.                                           *)

\* Nobody's vote is ever taken back.
LEMMA VotersStay ==
    ASSUME TypeOK, IdsDense, [Next]_vars, NEW i \in ProposalId
    PROVE  hasVoted[i] \subseteq hasVoted'[i]
  <1>1. CASE Exists(i)
    BY <1>1, RecordStepKeeps
  <1>2. CASE ~Exists(i)
    BY <1>2, IdStep DEF Kept, Taken
  <1> QED
    BY <1>1, <1>2

\* What a call was for stays on the chain.
LEMMA DoneStays ==
    ASSUME TypeOK, IdsDense, [Next]_vars, NEW call \in Call, Done(call)
    PROVE  Done(call)'
  <1>1. CASE call.kind = "vote"
    <2>1. call.id \in ProposalId /\ Me \in hasVoted[call.id]
      BY <1>1 DEF Call, Done
    <2>2. Me \in hasVoted'[call.id]
      BY <2>1, VotersStay
    <2> QED
      BY <1>1, <2>2 DEF Done
  <1>2. CASE call.kind = "finalize"
    <2>1. call.id \in ProposalId /\ Decided(call.id)
      BY <1>2 DEF Call, Done
    <2>2. Decided(call.id)'
      BY <2>1, RecordStepKeeps DEF Decided, IsActive, Kept
    <2> QED
      BY <1>2, <2>2 DEF Done
  <1>3. CASE call.kind = "create"
    <2>1. PICK i \in ProposalId : /\ Exists(i)
                                  /\ proposals[i].author = Me
                                  /\ proposals[i].action = call.action
      BY <1>3 DEF Done
    <2>2. /\ Exists(i)'
          /\ proposals'[i].author = Me
          /\ proposals'[i].action = call.action
      BY <2>1, RecordStepKeeps
    <2> QED
      BY <1>3, <2>2 DEF Done
  <1>4. CASE call.kind \notin {"vote", "finalize", "create"}
    BY <1>4 DEF Done
  <1> QED
    BY <1>1, <1>2, <1>3, <1>4

\* Executing a call brings about what it is for, and a vote or a decision is
\* only executed where there was none.
LEMMA ExecuteDoes ==
    ASSUME TypeOK, IdsDense, [Next]_vars, NEW call \in Call, Execute(call)
    PROVE  Done(call)' /\ (call.kind \in {"vote", "finalize"} => ~Done(call))
  <1>1. CASE call.kind = "vote"
    <2>1. call.id \in ProposalId /\ VoteProposal(Me, call.id, call.vote)
      BY <1>1 DEF Execute, Call
    <2>2. Me \in hasVoted'[call.id] /\ Me \notin hasVoted[call.id]
      BY <2>1 DEF VoteProposal, MayVote, TypeOK
    <2> QED
      BY <1>1, <2>2 DEF Done
  <1>2. CASE call.kind = "finalize"
    <2>1. call.id \in ProposalId /\ FinalizeProposal(call.id)
      BY <1>2 DEF Execute, Call
    <2>2. IsActive(call.id)
      BY <2>1 DEF FinalizeProposal, Approve, Reject, CanFinalize
    <2>3. Exists(call.id)'
      BY <2>1, <2>2, RecordStepKeeps DEF IsActive
    <2>4. proposals'[call.id].status # "Active"
      <3>1. proposals[call.id] \in Proposal
        BY <2>1, <2>2, RecordType DEF IsActive
      <3> QED
        BY <2>1, <3>1 DEF FinalizeProposal, Approve, Reject, TypeOK, Proposal
    <2> QED
      BY <1>2, <2>2, <2>3, <2>4 DEF Done, Decided, IsActive
  <1>3. CASE call.kind = "create"
    <2> DEFINE i == nextProposalId
    <2>1. CreateProposal(Me, call.duration, call.action)
      BY <1>3 DEF Execute
    <2>2. i \in ProposalId /\ proposals'[i].author = Me
          /\ proposals'[i].action = call.action
      BY <2>1 DEF CreateProposal, TypeOK
    <2>3. i' = i + 1 /\ i \in Nat
      BY <2>1, WidthAssumption DEF CreateProposal, NextId, TypeOK, ProposalId
    <2>4. proposals'[i] \in Proposal
      BY <2>3, IdStep DEF Taken
    <2>5. \E j \in ProposalId : /\ proposals'[j] # NoProposal
                                /\ proposals'[j].author = Me
                                /\ proposals'[j].action = call.action
      BY <2>2, <2>4, NoProposalAssumption
    <2> QED
      BY <1>3, <2>5 DEF Done, Exists
  <1>4. CASE call.kind \notin {"vote", "finalize", "create"}
    BY <1>4 DEF Done
  <1> QED
    BY <1>1, <1>2, <1>3, <1>4

\* What has been told of a transaction, and what an executed one has done.
Sound(t) ==
    /\ Told(t)
    /\ t.stage = "executed" => Done(t.call)

TxsSound == \A n \in DOMAIN txs : Sound(txs[n])

\* No two votes on, or decisions of, the same proposal have been executed.
OneEach ==
    \A m, n \in DOMAIN txs :
        /\ m # n
        /\ txs[m].stage = "executed" /\ txs[n].stage = "executed"
        /\ txs[m].call.kind \in {"vote", "finalize"}
        /\ txs[n].call.kind = txs[m].call.kind
        => txs[n].call.id # txs[m].call.id

TxsInv == TxsSound /\ OneEach

\* Moving a transaction leaves what is said of it sound.
LEMMA MovedSound ==
    ASSUME TypeOK, IdsDense, [Next]_vars, NEW t \in Transaction, NEW u,
           Moved(t, u), Sound(t)
    PROVE  Sound(u)'
  <1>1. t.call \in Call /\ u.call = t.call
    BY DEF Moved, Transaction
  <1>2. Done(t.call) => Done(t.call)'
    BY <1>1, DoneStays
  <1>3. u.stage = "executed" => Done(u.call)'
    BY <1>1, <1>2 DEF Moved, Sound
  <1> QED
    BY <1>3 DEF Moved, Sound, Told, Says, Outcome

LEMMA NextTxsSound ==
    ASSUME ClientTypeOK, IdsDense, TxsSound, [ClientNext]_clientVars
    PROVE  TxsSound'
  <1>0. /\ TypeOK /\ [Next]_vars
        /\ \A n \in DOMAIN txs : txs[n] \in Transaction /\ Sound(txs[n])
    BY TxsAre, ClientStepIsStep DEF ClientTypeOK, TxsSound
  <1>1. ASSUME NEW n \in DOMAIN txs, Moved(txs[n], txs'[n])
        PROVE  Sound(txs[n])'
    <2>1. PICK t : t = txs[n]
      OBVIOUS
    <2>2. PICK u : u = txs'[n]
      OBVIOUS
    <2>3. Sound(t)
      BY <1>0, <2>1
    <2>4. Sound(u)'
      BY <1>0, <1>1, <2>1, <2>2, <2>3, MovedSound
    <2> QED
      BY <2>2, <2>4 DEF Sound, Told, Says, Done, Decided, Exists
  <1>2. CASE AllMoved
    BY <1>1, <1>2, TxsAfter DEF AllMoved, TxsSound
  <1>3. ASSUME NEW m \in DOMAIN txs, Executed(m)
        PROVE  TxsSound'
    <2>1. /\ DOMAIN txs' = DOMAIN txs
          /\ txs'[m] = Placed(txs[m], "executed")
          /\ \A n \in DOMAIN txs \ {m} : txs'[n] = txs[n]
      BY <1>3, TxsAfter
    <2>2. ASSUME NEW n \in DOMAIN txs, n # m
          PROVE  Sound(txs[n])'
      BY <1>0, <1>1, <2>1, <2>2, SmallMoves
    <2>3. Sound(txs[m])'
      <3>1. PICK call \in Call : call = txs[m].call
        BY <1>0 DEF Transaction
      <3>2. Done(call)'
        BY <1>0, <1>3, <3>1, ExecuteDoes DEF Executed
      <3>3. /\ txs'[m].call = call /\ txs'[m].stage = "executed"
            /\ Told(txs'[m])
        BY <1>0, <1>3, <2>1, <3>1, PlacedTold DEF Executed, Sound, Outcome
      <3> QED
        BY <3>2, <3>3 DEF Sound, Told, Says, Done, Decided, Exists
    <2> QED
      BY <2>1, <2>2, <2>3 DEF TxsSound
  <1>4. ASSUME NEW t \in Transaction, Sent(t)
        PROVE  TxsSound'
    <2>0. PICK k : k = Len(txs) + 1
      OBVIOUS
    <2>1. /\ DOMAIN txs' = DOMAIN txs \cup {k}
          /\ txs'[k] = t
          /\ \A n \in DOMAIN txs : txs'[n] = txs[n]
      BY <1>4, <2>0, TxsAfter
    <2>2. \A n \in DOMAIN txs : Sound(txs[n])'
      BY <1>0, <1>1, <2>1, SmallMoves
    <2>3. Sound(txs[k])'
      BY <1>4, <2>1 DEF Sent, Fresh, Sound, Told
    <2> QED
      BY <2>1, <2>2, <2>3 DEF TxsSound
  <1> QED
    BY <1>2, <1>3, <1>4, TxsStep

\* A second vote or decision would find the first one's effect on the chain.
LEMMA NextOneEach ==
    ASSUME ClientTypeOK, IdsDense, TxsSound, OneEach, [ClientNext]_clientVars
    PROVE  OneEach'
  <1>0. /\ TypeOK /\ [Next]_vars
        /\ \A n \in DOMAIN txs : txs[n] \in Transaction /\ Sound(txs[n])
    BY TxsAre, ClientStepIsStep DEF ClientTypeOK, TxsSound
  <1> DEFINE Was(n) == n \in DOMAIN txs /\ txs[n].stage = "executed"
                          /\ txs'[n].call = txs[n].call
  <1>1. ASSUME NEW m \in DOMAIN txs, NEW n \in DOMAIN txs, Executed(m), n # m,
               txs[n].stage = "executed",
               txs[m].call.kind \in {"vote", "finalize"},
               txs[n].call.kind = txs[m].call.kind
        PROVE  txs[n].call.id # txs[m].call.id
    <2>1. txs[m].call \in Call /\ txs[n].call \in Call
      BY <1>0 DEF Transaction
    <2>2. ~Done(txs[m].call)
      BY <1>0, <1>1, <2>1, ExecuteDoes DEF Executed
    <2>3. Done(txs[n].call)
      BY <1>0, <1>1 DEF Sound
    <2> QED
      BY <1>1, <2>2, <2>3 DEF Done
  <1>2. CASE AllMoved
    <2>1. DOMAIN txs' = DOMAIN txs
      BY <1>2, TxsAfter
    <2>2. \A n \in DOMAIN txs : txs'[n].stage = "executed" => Was(n)
      BY <1>2 DEF AllMoved, Moved
    <2> QED
      BY <2>1, <2>2 DEF OneEach
  <1>3. ASSUME NEW m \in DOMAIN txs, Executed(m)
        PROVE  OneEach'
    <2>1. /\ DOMAIN txs' = DOMAIN txs
          /\ txs'[m] = Placed(txs[m], "executed")
          /\ \A n \in DOMAIN txs \ {m} : txs'[n] = txs[n]
      BY <1>3, TxsAfter
    <2>2. txs'[m].call = txs[m].call
      BY <1>0, <1>3, <2>1, PlacedTold DEF Executed, Outcome
    <2>3. ASSUME NEW n \in DOMAIN txs, n # m, txs'[n].stage = "executed",
                 txs'[m].call.kind \in {"vote", "finalize"},
                 txs'[n].call.kind = txs'[m].call.kind
          PROVE  txs'[n].call.id # txs'[m].call.id
      BY <1>1, <1>3, <2>1, <2>2, <2>3
    <2>4. ASSUME NEW l \in DOMAIN txs \ {m}, NEW n \in DOMAIN txs \ {m}, l # n,
                 txs'[l].stage = "executed", txs'[n].stage = "executed",
                 txs'[l].call.kind \in {"vote", "finalize"},
                 txs'[n].call.kind = txs'[l].call.kind
          PROVE  txs'[n].call.id # txs'[l].call.id
      BY <2>1, <2>4 DEF OneEach
    <2> QED
      BY <2>1, <2>3, <2>4 DEF OneEach
  <1>4. ASSUME NEW t \in Transaction, Sent(t)
        PROVE  OneEach'
    <2>1. /\ DOMAIN txs' = DOMAIN txs \cup {Len(txs) + 1}
          /\ txs'[Len(txs) + 1] = t /\ t.stage = "signing"
          /\ \A n \in DOMAIN txs : txs'[n] = txs[n]
      BY <1>4, TxsAfter DEF Sent, Fresh
    <2>2. \A n \in DOMAIN txs' : txs'[n].stage = "executed" => Was(n)
      BY <2>1
    <2> QED
      BY <2>1, <2>2 DEF OneEach
  <1> QED
    BY <1>2, <1>3, <1>4, TxsStep

-----------------------------------------------------------------------------
(* What the page shows of the chain.                                       *)

\* The record on the page stays of the past of the one on the chain.
LEMMA NextDataIsPast ==
    ASSUME ClientTypeOK, IdsDense, DataIsPast, [ClientNext]_clientVars
    PROVE  DataIsPast'
  <1>0. /\ TypeOK /\ [Next]_vars /\ dataId \in ProposalId /\ id \in ProposalId
        /\ data \in Proposal \cup {NoProposal}
    BY ClientStepIsStep DEF ClientTypeOK
  <1>1. CASE UNCHANGED <<data, dataId>>
    <2> SUFFICES ASSUME data # NoProposal PROVE DataIsPast'
      BY <1>1 DEF DataIsPast
    <2> DEFINE p == proposals[dataId]
               q == proposals'[dataId]
    <2>1. /\ Exists(dataId) /\ p \in Proposal
          /\ <<data.author, data.start, data.end, data.action>>
                = <<p.author, p.start, p.end, p.action>>
          /\ data.forVotes <= p.forVotes
          /\ data.againstVotes <= p.againstVotes
          /\ data.status # "Active" => data = p
      BY <1>0, RecordType DEF DataIsPast
    <2>2. /\ Exists(dataId)' /\ q \in Proposal \cup {NoProposal}
          /\ q.author = p.author /\ q.start = p.start
          /\ q.end = p.end /\ q.action = p.action
          /\ q.forVotes >= p.forVotes /\ q.againstVotes >= p.againstVotes
          /\ p.status # "Active" => q = p
      <3>1. (Exists(dataId) /\ [Next]_vars) => proposals' \in [ProposalId -> Proposal \cup {NoProposal}]
        BY <1>0, NextTypeOK DEF TypeOK
      <3> QED
        BY <1>0, <1>1, <2>1, <3>1, RecordStepKeeps DEF Kept, IsActive, Exists
    <2>3. q \in Proposal
      BY <1>1, <2>2 DEF Exists
    <2>4. /\ p.forVotes \in Nat /\ q.forVotes \in Nat /\ data.forVotes \in Nat
          /\ p.againstVotes \in Nat /\ q.againstVotes \in Nat
          /\ data.againstVotes \in Nat
      BY <1>0, <2>1, <2>3, WidthAssumption DEF Proposal, Balance
    <2>5. /\ data.forVotes <= q.forVotes /\ data.againstVotes <= q.againstVotes
      BY <2>1, <2>2, <2>4
    <2> QED
      BY <1>1, <2>1, <2>2, <2>5 DEF DataIsPast
  <1>2. CASE data' = NoProposal
    BY <1>2 DEF DataIsPast
  <1>3. CASE Load /\ ~UNCHANGED <<data, dataId>>
    <2>1. /\ Exists(id) /\ data' = proposals[id] /\ dataId' = id
          /\ proposals' = proposals
      BY <1>3 DEF Load, vars, proposalVars
    <2>2. /\ proposals[id].forVotes \in Nat /\ proposals[id].againstVotes \in Nat
      BY <1>0, <2>1, RecordType, WidthAssumption DEF Proposal, Balance
    <2> QED
      BY <2>1, <2>2 DEF DataIsPast, Exists
  <1>4. ASSUME NEW n \in DOMAIN txs,
               \/ Refuse(n) \/ Submit(n) \/ Disconnect(n) \/ Report(n)
               \/ Include(n) \/ Retract(n) \/ Drop(n)
        PROVE  UNCHANGED <<data, dataId>> \/ data' = NoProposal
    BY <1>4 DEF Refuse, Submit, Disconnect, Include, Retract, Drop, Report,
               ReportAndReload, ReportCreation, ReportDeposit, Mount, tabVars,
               proposalPage
  <1>5. CASE User
    BY <1>1, <1>2, <1>5 DEF User, Open, Jump, Reload, HandleVote, HandleFinalize,
               HandleSubmit, OpenDialog, CloseDialog, OnConfirm, Mount, tabVars,
               proposalPage
  <1>6. CASE Chain \/ UNCHANGED clientVars
    BY <1>1, <1>6 DEF Chain, clientVars, tabVars, proposalPage
  <1> QED
    BY <1>1, <1>2, <1>3, <1>4, <1>5, <1>6 DEF ClientNext, Transacting

-----------------------------------------------------------------------------
(* The buttons.                                                            *)

\* A button's flag, and what it promises: it waits while something is out, and
\* nothing is out twice.
Flag(kind) == IF kind = "vote" THEN voting ELSE submitting

Held(kind) ==
    /\ Flag(kind) <=> Out(kind) # {}
    /\ \A m, n \in Out(kind) : m = n

\* What a step may do to a button: nothing, release it, or hold it.
Same(kind)     == Out(kind)' = Out(kind) /\ Flag(kind)' = Flag(kind)
Released(kind) == Out(kind)' = {} /\ ~Flag(kind)'
HeldNow(kind)  == ~Flag(kind) /\ Flag(kind)' /\ \E k : Out(kind)' = Out(kind) \cup {k}

LEMMA HeldStep ==
    ASSUME NEW kind, Held(kind), Same(kind) \/ Released(kind) \/ HeldNow(kind)
    PROVE  Held(kind)'
  <1>1. PICK f, o : f = Flag(kind) /\ o = Out(kind)
    OBVIOUS
  <1>2. PICK g, p : g = Flag(kind)' /\ p = Out(kind)'
    OBVIOUS
  <1>3. (f <=> o # {}) /\ \A m, n \in o : m = n
    BY <1>1 DEF Held
  <1>4. \/ p = o /\ g = f
        \/ p = {} /\ ~g
        \/ ~f /\ g /\ \E k : p = o \cup {k}
    BY <1>1, <1>2 DEF Same, Released, HeldNow
  <1>5. (g <=> p # {}) /\ \A m, n \in p : m = n
    BY <1>3, <1>4
  <1> QED
    BY <1>2, <1>5 DEF Held

\* Another page, or the same one anew, has sent nothing yet.
LEMMA MountReleases ==
    ASSUME NEW p, NEW i, Mount(p, i), NEW kind,
           \A n \in DOMAIN txs' : ~txs'[n].mounted
    PROVE  Released(kind)
  BY DEF Mount, Released, Out, Flag

\* What is out does not change with what only moves on.
LEMMA OutSame ==
    ASSUME NEW kind, DOMAIN txs' = DOMAIN txs,
           \A n \in DOMAIN txs :
              /\ txs'[n].mounted = txs[n].mounted /\ txs'[n].call = txs[n].call
              /\ txs'[n].told = {"error"} <=> txs[n].told = {"error"}
    PROVE  Out(kind)' = Out(kind)
  BY DEF Out

\* What has been sent from the page is out.
LEMMA OutSent ==
    ASSUME ClientTypeOK, NEW kind, NEW call \in Call, Send(call)
    PROVE  Out(kind)' = IF call.kind = kind THEN Out(kind) \cup {Len(txs) + 1}
                                            ELSE Out(kind)
  <1>1. PICK t \in Transaction : Sent(t) /\ t.call = call
    BY SendFresh
  <1> DEFINE k == Len(txs) + 1
  <1>2. /\ DOMAIN txs' = DOMAIN txs \cup {k} /\ txs'[k] = t
        /\ \A n \in DOMAIN txs : txs'[n] = txs[n]
    BY <1>1, TxsAfter
  <1>3. t.mounted /\ t.told # {"error"}
    BY <1>1 DEF Sent, Fresh
  <1> HIDE DEF k
  <1>4. Out(kind)' = IF call.kind = kind THEN Out(kind) \cup {k} ELSE Out(kind)
    BY <1>1, <1>2, <1>3 DEF Out
  <1> QED
    BY <1>4 DEF k

\* Every step keeps, releases or holds each of the two buttons.
LEMMA ButtonStep ==
    ASSUME ClientTypeOK, TxsSound, [ClientNext]_clientVars,
           NEW kind \in {"vote", "create"}, Held(kind)
    PROVE  Same(kind) \/ Released(kind) \/ HeldNow(kind)
  <1>0. /\ DOMAIN txs = 1..Len(txs) /\ txs \in [1..Len(txs) -> Transaction]
        /\ \A n \in DOMAIN txs : txs[n] \in Transaction
        /\ voting \in BOOLEAN /\ submitting \in BOOLEAN
        /\ \A n \in DOMAIN txs : Told(txs[n])
    BY TxsAre DEF ClientTypeOK, TxsSound, Sound
  <1>1. ASSUME UNCHANGED <<voting, submitting, txs>>
        PROVE  Same(kind)
    BY <1>1 DEF Same, Out, Flag
  <1>2. ASSUME NEW n \in DOMAIN txs, NEW u, u.mounted = txs[n].mounted,
               u.call = txs[n].call, u.told = {"error"} <=> txs[n].told = {"error"},
               txs' = [txs EXCEPT ![n] = u], UNCHANGED <<voting, submitting>>
        PROVE  Same(kind)
    <2>1. Out(kind)' = Out(kind)
      BY <1>0, <1>2, OutSame
    <2> QED
      BY <1>2, <2>1 DEF Same, Flag
  <1>3. CASE User
    <2>1. ASSUME NEW p \in {"list", "create", "proposal"}, NEW i, Open(p, i)
          PROVE  Released(kind)
      BY <1>0, <2>1, MountReleases DEF Open, Unmounted, Transaction
    <2>2. CASE Reload
      <3>1. \A n \in DOMAIN txs : ~Reloaded(txs[n]).mounted
        BY <1>0 DEF Reloaded, Transaction
      <3> QED
        BY <1>0, <2>2, <3>1, MountReleases DEF Reload
    <2>3. ASSUME NEW i \in Shown, Jump(i)
          PROVE  Same(kind)
      BY <1>1, <2>3 DEF Jump
    <2>4. ASSUME NEW vote \in VoteKind, HandleVote(vote)
          PROVE  Same(kind) \/ HeldNow(kind)
      <3> DEFINE call == [kind |-> "vote", id |-> id, vote |-> vote]
      <3>1. call \in Call /\ call.kind = "vote"
        BY DEF Call, ClientTypeOK
      <3>2. Send(call) /\ ~voting /\ voting' = TRUE /\ submitting' = submitting
        BY <2>4 DEF HandleVote
      <3> HIDE DEF call
      <3>3. Out(kind)' = IF kind = "vote" THEN Out(kind) \cup {Len(txs) + 1}
                                          ELSE Out(kind)
        BY <3>1, <3>2, OutSent
      <3> QED
        BY <3>2, <3>3 DEF Same, HeldNow, Flag
    <2>5. CASE HandleFinalize
      <3> DEFINE call == [kind |-> "finalize", id |-> id]
      <3>1. call \in Call /\ call.kind = "finalize"
        BY DEF Call, ClientTypeOK
      <3>2. Send(call) /\ UNCHANGED <<voting, submitting>>
        BY <2>5 DEF HandleFinalize, tabVars, proposalPage
      <3> HIDE DEF call
      <3>3. Out(kind)' = Out(kind)
        BY <3>1, <3>2, OutSent
      <3> QED
        BY <3>2, <3>3 DEF Same, Flag
    <2>6. ASSUME NEW duration \in Duration,
                 NEW action \in [from : Coin, to : Coin, amount : CoinAmount],
                 HandleSubmit(duration, action)
          PROVE  Same(kind) \/ HeldNow(kind)
      <3> DEFINE call == [kind |-> "create", duration |-> duration, action |-> action]
      <3>1. call \in Call /\ call.kind = "create"
        BY DEF Call
      <3>2. Send(call) /\ ~submitting /\ submitting' = TRUE /\ voting' = voting
        BY <2>6 DEF HandleSubmit, proposalPage
      <3> HIDE DEF call
      <3>3. Out(kind)' = IF kind = "create" THEN Out(kind) \cup {Len(txs) + 1}
                                            ELSE Out(kind)
        BY <3>1, <3>2, OutSent
      <3> QED
        BY <3>2, <3>3 DEF Same, HeldNow, Flag
    <2>7. CASE OpenDialog \/ CloseDialog
      BY <1>1, <2>7 DEF OpenDialog, CloseDialog, proposalPage
    <2>8. ASSUME NEW amount \in Amount, OnConfirm(amount)
          PROVE  Same(kind)
      <3> DEFINE call == [kind |-> "deposit", amount |-> amount]
      <3>1. call \in Call /\ call.kind = "deposit"
        BY DEF Call
      <3>2. Send(call) /\ UNCHANGED <<voting, submitting>>
        BY <2>8 DEF OnConfirm, proposalPage
      <3> HIDE DEF call
      <3>3. Out(kind)' = Out(kind)
        BY <3>1, <3>2, OutSent
      <3> QED
        BY <3>2, <3>3 DEF Same, Flag
    <2> QED
      BY <1>3, <2>1, <2>2, <2>3, <2>4, <2>5, <2>6, <2>7, <2>8 DEF User
  <1>4. ASSUME NEW n \in DOMAIN txs, Refuse(n)
        PROVE  Same(kind) \/ Released(kind)
    <2> DEFINE t == txs[n]
    <2>0. PICK stage : txs' = [txs EXCEPT ![n] = Thrown(t, stage)]
      BY <1>0, <1>4 DEF Refuse
    <2>1. /\ t.told = {} /\ txs'[n].told = {"error"}
          /\ txs'[n].call = t.call /\ txs'[n].mounted = t.mounted
          /\ DOMAIN txs' = DOMAIN txs
          /\ \A m \in DOMAIN txs \ {n} : txs'[m] = txs[m]
      <3>1. t \in Transaction /\ t.told = {}
        BY <1>0, <1>4 DEF Refuse, Told
      <3>2. /\ Thrown(t, stage).told = {"error"} /\ Thrown(t, stage).call = t.call
            /\ Thrown(t, stage).mounted = t.mounted
        BY <3>1 DEF Thrown, Transaction
      <3> QED
        BY <1>0, <2>0, <3>1, <3>2
    <2>2. Out(kind)' = Out(kind) \ {n}
      BY <2>1 DEF Out
    <2>3. Flag(kind)' = Releases(t, kind, Flag(kind))
      BY <1>4 DEF Refuse, Flag
    <2>4. n \in Out(kind) <=> t.mounted /\ t.call.kind = kind
      BY <2>1 DEF Out
    <2>5. CASE n \in Out(kind)
      <3>1. Out(kind)' = {}
        BY <2>2, <2>5 DEF Held
      <3>2. ~Flag(kind)'
        BY <2>3, <2>4, <2>5 DEF Releases
      <3> QED
        BY <3>1, <3>2 DEF Released
    <2>6. CASE n \notin Out(kind)
      <3>1. Flag(kind) \in BOOLEAN
        BY <1>0 DEF Flag
      <3>2. Flag(kind)' = Flag(kind)
        BY <2>3, <2>4, <2>6, <3>1 DEF Releases
      <3> QED
        BY <2>2, <2>6, <3>2 DEF Same
    <2> QED
      BY <2>5, <2>6
  <1>5. ASSUME NEW n \in DOMAIN txs,
               \/ Submit(n) \/ Disconnect(n) \/ Include(n) \/ Retract(n) \/ Drop(n)
        PROVE  Same(kind)
    <2>1. UNCHANGED <<voting, submitting>>
      BY <1>5 DEF Submit, Disconnect, Include, Retract, Drop, tabVars, proposalPage
    <2>2. ASSUME NEW u, u.mounted = txs[n].mounted, u.call = txs[n].call,
                 u.told = txs[n].told, txs' = [txs EXCEPT ![n] = u]
          PROVE  Same(kind)
      BY <1>2, <2>1, <2>2
    <2>3. CASE Submit(n) \/ Drop(n)
      <3>1. PICK s : txs' = [txs EXCEPT ![n].stage = s]
        BY <2>3 DEF Submit, Drop
      <3> DEFINE u == [txs[n] EXCEPT !.stage = s]
      <3>2. u.mounted = txs[n].mounted /\ u.call = txs[n].call /\ u.told = txs[n].told
        BY <1>0 DEF Transaction
      <3>3. txs' = [txs EXCEPT ![n] = u]
        BY <1>0, <3>1
      <3> HIDE DEF u
      <3> QED
        BY <2>2, <3>2, <3>3
    <2>4. CASE Disconnect(n)
      <3> DEFINE u == [txs[n] EXCEPT !.live = FALSE, !.reports = << >>]
      <3>1. u.mounted = txs[n].mounted /\ u.call = txs[n].call /\ u.told = txs[n].told
        BY <1>0 DEF Transaction
      <3>2. txs' = [txs EXCEPT ![n] = u]
        BY <1>0, <2>4 DEF Disconnect
      <3> HIDE DEF u
      <3> QED
        BY <2>2, <3>1, <3>2
    <2>5. CASE Include(n)
      <3>1. PICK outcome \in Outcome : txs' = [txs EXCEPT ![n] = Placed(txs[n], outcome)]
        BY <1>0, <2>5 DEF Include, Outcome
      <3>2. txs[n].stage = "pool"
        BY <2>5 DEF Include
      <3> QED
        BY <1>0, <2>2, <3>1, <3>2, PlacedTold
    <2>6. CASE Retract(n)
      <3>1. PICK outcome : txs' = [txs EXCEPT ![n] = Strayed(txs[n], outcome)]
        BY <1>0, <2>6 DEF Retract
      <3>2. /\ Strayed(txs[n], outcome).mounted = txs[n].mounted
            /\ Strayed(txs[n], outcome).call = txs[n].call
            /\ Strayed(txs[n], outcome).told = txs[n].told
        BY <1>0 DEF Strayed, Transaction
      <3> QED
        BY <2>2, <3>1, <3>2
    <2> QED
      BY <1>5, <2>3, <2>4, <2>5, <2>6
  <1>6. ASSUME NEW n \in DOMAIN txs, Report(n)
        PROVE  Same(kind) \/ Released(kind)
    <2>1. PICK u : /\ Moved(txs[n], u) /\ Heard(n) = [txs EXCEPT ![n] = u]
                   /\ u.mounted = txs[n].mounted
                   /\ u.told = txs[n].told \cup Messages(Head(txs[n].reports))
      BY <1>6, HeardMoves
    <2>2. /\ DOMAIN Heard(n) = DOMAIN txs /\ u.call = txs[n].call
          /\ txs[n].told # {"error"} /\ u.told # {"error"}
          /\ \A m \in DOMAIN txs : Heard(n)[m] \in Transaction
      <3>1. txs[n].live
        BY <1>6 DEF Report, ReportAndReload, ReportCreation, ReportDeposit, Reportable
      <3> QED
        BY <1>0, <2>1, <3>1 DEF Moved, Told, Messages
    <2>3. ASSUME txs' = Heard(n), UNCHANGED <<voting, submitting>>
          PROVE  Same(kind)
      BY <1>2, <2>1, <2>2, <2>3
    <2>4. CASE ReportAndReload(n)
      <3>1. \A t \in Transaction : ~Reloaded(t).mounted
        BY DEF Reloaded, Transaction
      <3>2. \A m \in DOMAIN txs' : ~txs'[m].mounted
        BY <2>2, <2>4, <3>1 DEF ReportAndReload
      <3> QED
        BY <2>4, <3>2, MountReleases DEF ReportAndReload
    <2>5. CASE ReportCreation(n)
      <3>1. CASE page = "list"
        BY <2>3, <2>5, <3>1 DEF ReportCreation, proposalPage
      <3>2. CASE page # "list"
        <4>1. \A t \in Transaction : ~Unmounted(t).mounted
          BY DEF Unmounted, Transaction
        <4>2. \A m \in DOMAIN txs' : ~txs'[m].mounted
          BY <2>2, <2>5, <3>2, <4>1 DEF ReportCreation
        <4> QED
          BY <2>5, <3>2, <4>2, MountReleases DEF ReportCreation
      <3> QED
        BY <3>1, <3>2
    <2>6. CASE ReportDeposit(n)
      BY <2>3, <2>6 DEF ReportDeposit, tabVars, proposalPage
    <2> QED
      BY <1>6, <2>4, <2>5, <2>6 DEF Report
  <1>7. CASE Load \/ Chain \/ UNCHANGED clientVars
    BY <1>1, <1>7 DEF Load, Chain, clientVars, tabVars, proposalPage
  <1> QED
    BY <1>3, <1>4, <1>5, <1>6, <1>7 DEF ClientNext, Transacting

\* A deposit is being signed.
Signing(n) ==
    /\ txs[n].live
    /\ txs[n].call.kind = "deposit"
    /\ txs[n].stage = "signing"

DialogWaits == dialog = "waiting" => \E n \in DOMAIN txs : Signing(n)

\* The dialog is closed, or the deposit is still being signed.
LEMMA NextDialogWaits ==
    ASSUME ClientTypeOK, TxsSound, DialogWaits, [ClientNext]_clientVars
    PROVE  DialogWaits'
  <1>0. /\ DOMAIN txs = 1..Len(txs) /\ txs \in [1..Len(txs) -> Transaction]
        /\ \A n \in DOMAIN txs : txs[n] \in Transaction
        /\ \A n \in DOMAIN txs : Signing(n) => txs[n].reports = << >>
    BY TxsAre DEF TxsSound, Sound, Told, Signing
  <1>1. CASE dialog' \in {"closed", "open"}
    BY <1>1 DEF DialogWaits
  <1>2. ASSUME dialog' = dialog,
               \A n \in DOMAIN txs : Signing(n) =>
                  n \in DOMAIN txs' /\ txs'[n].live = txs[n].live
                     /\ txs'[n].call = txs[n].call /\ txs'[n].stage = txs[n].stage
        PROVE  DialogWaits'
    BY <1>2 DEF DialogWaits, Signing
  <1>3. CASE UNCHANGED <<dialog, txs>>
    BY <1>2, <1>3
  <1>4. ASSUME NEW call \in Call, Send(call)
        PROVE  \E k \in DOMAIN txs' :
                  /\ txs'[k].live /\ txs'[k].call = call /\ txs'[k].stage = "signing"
                  /\ DOMAIN txs' = DOMAIN txs \cup {k}
                  /\ \A n \in DOMAIN txs : txs'[n] = txs[n]
    <2>1. PICK t \in Transaction : Sent(t) /\ t.call = call
      BY <1>4, SendFresh
    <2> QED
      BY <2>1, TxsAfter DEF Sent, Fresh
  <1>5. CASE User
    <2>1. ASSUME NEW p, NEW i, Open(p, i)
          PROVE  DialogWaits'
      BY <1>0, <1>2, <2>1 DEF Open, Unmounted, Transaction
    <2>2. CASE Reload \/ OpenDialog \/ CloseDialog
      BY <1>1, <2>2 DEF Reload, OpenDialog, CloseDialog
    <2>3. ASSUME NEW i \in Shown, Jump(i)
          PROVE  DialogWaits'
      BY <1>3, <2>3 DEF Jump
    <2>4. ASSUME NEW call \in Call, Send(call), dialog' = dialog
          PROVE  DialogWaits'
      BY <1>2, <1>4, <2>4
    <2>5. ASSUME NEW vote \in VoteKind, HandleVote(vote)
          PROVE  DialogWaits'
      BY <2>4, <2>5 DEF HandleVote, Call, ClientTypeOK
    <2>6. CASE HandleFinalize
      BY <2>4, <2>6 DEF HandleFinalize, Call, ClientTypeOK, tabVars
    <2>7. ASSUME NEW duration \in Duration,
                 NEW action \in [from : Coin, to : Coin, amount : CoinAmount],
                 HandleSubmit(duration, action)
          PROVE  DialogWaits'
      BY <2>4, <2>7 DEF HandleSubmit, Call
    <2>8. ASSUME NEW amount \in Amount, OnConfirm(amount)
          PROVE  DialogWaits'
      <3> DEFINE call == [kind |-> "deposit", amount |-> amount]
      <3>1. call \in Call /\ call.kind = "deposit" /\ Send(call)
        BY <2>8 DEF Call, OnConfirm
      <3> HIDE DEF call
      <3>2. PICK k \in DOMAIN txs' :
               txs'[k].live /\ txs'[k].call = call /\ txs'[k].stage = "signing"
        BY <1>4, <3>1
      <3> QED
        BY <3>1, <3>2 DEF DialogWaits, Signing
    <2> QED
      BY <1>5, <2>1, <2>2, <2>3, <2>5, <2>6, <2>7, <2>8 DEF User
  <1>6. ASSUME NEW n \in DOMAIN txs, Refuse(n) \/ Submit(n)
        PROVE  DialogWaits'
    <2>1. dialog' = Closes(txs[n])
      BY <1>6 DEF Refuse, Submit
    <2>2. CASE txs[n].call.kind = "deposit"
      BY <1>1, <2>1, <2>2 DEF Closes
    <2>3. CASE txs[n].call.kind # "deposit"
      BY <1>0, <1>2, <1>6, <2>1, <2>3 DEF Closes, Refuse, Submit, Signing
    <2> QED
      BY <2>2, <2>3
  <1>7. ASSUME NEW n \in DOMAIN txs,
               Disconnect(n) \/ Include(n) \/ Retract(n) \/ Drop(n)
        PROVE  DialogWaits'
    <2>1. /\ dialog' = dialog /\ DOMAIN txs' = DOMAIN txs
          /\ \A m \in DOMAIN txs \ {n} : txs'[m] = txs[m]
      BY <1>0, <1>7 DEF Disconnect, Include, Retract, Drop, tabVars
    <2>2. ~Signing(n)
      BY <1>0, <1>7 DEF Disconnect, Include, Retract, Drop, Signing
    <2> QED
      BY <1>2, <2>1, <2>2
  <1>8. ASSUME NEW n \in DOMAIN txs, Report(n)
        PROVE  DialogWaits'
    <2>1. /\ DOMAIN Heard(n) = DOMAIN txs /\ ~Signing(n)
          /\ \A m \in DOMAIN txs \ {n} : Heard(n)[m] = txs[m]
      BY <1>0, <1>8 DEF Heard, Report, ReportAndReload, ReportCreation, ReportDeposit,
                        Reportable
    <2>2. CASE ReportAndReload(n)
      BY <1>1, <2>2 DEF ReportAndReload
    <2>3. CASE dialog' = dialog /\ txs' = Heard(n)
      BY <1>2, <2>1, <2>3
    <2>4. CASE /\ dialog' = dialog
               /\ txs' = [m \in DOMAIN txs |-> Unmounted(Heard(n)[m])]
      <3>1. \A m \in DOMAIN txs \ {n} : txs'[m] = Unmounted(txs[m])
        BY <2>1, <2>4
      <3>2. \A m \in DOMAIN txs : Unmounted(txs[m]).live = txs[m].live
                                     /\ Unmounted(txs[m]).call = txs[m].call
                                     /\ Unmounted(txs[m]).stage = txs[m].stage
        BY <1>0 DEF Unmounted, Transaction
      <3>3. DOMAIN txs' = DOMAIN txs
        BY <2>4
      <3> QED
        BY <1>2, <2>1, <2>4, <3>1, <3>2, <3>3
    <2> QED
      BY <1>8, <2>2, <2>3, <2>4
         DEF Report, ReportCreation, ReportDeposit, tabVars, proposalPage
  <1>9. CASE Load \/ Chain \/ UNCHANGED clientVars
    BY <1>3, <1>9 DEF Load, Chain, clientVars, tabVars
  <1> QED
    BY <1>5, <1>6, <1>7, <1>8, <1>9 DEF ClientNext, Transacting

-----------------------------------------------------------------------------
(* The theorems.                                                           *)

\* What the proofs need of a state, altogether: the types, the chain's own
\* records, what is said of each transaction, the page's record, the buttons.
ClientInv ==
    /\ ClientTypeOK
    /\ ProposalInv
    /\ TxsInv
    /\ DataIsPast
    /\ Held("vote") /\ Held("create")
    /\ DialogWaits

LEMMA InitClientInv == ClientInit => ClientInv
  <1> SUFFICES ASSUME ClientInit PROVE ClientInv
    OBVIOUS
  <1>1. ClientTypeOK /\ ProposalInv
    BY InitClientTypeOK, InitProposalInv DEF ClientInit
  <1>2. DOMAIN txs = {}
    BY DEF ClientInit
  <1>3. Held("vote") /\ Held("create")
    BY <1>2 DEF ClientInit, Held, Flag, Out
  <1> QED
    BY <1>1, <1>2, <1>3
       DEF ClientInit, ClientInv, TxsInv, TxsSound, OneEach, DataIsPast, DialogWaits

LEMMA NextClientInv == ClientInv /\ [ClientNext]_clientVars => ClientInv'
  <1> SUFFICES ASSUME ClientInv, [ClientNext]_clientVars
               PROVE  ClientInv'
    OBVIOUS
  <1>1. ClientTypeOK /\ TypeOK /\ ProposalInv /\ IdsDense /\ TxsSound /\ OneEach
    BY DEF ClientInv, ClientTypeOK, ProposalInv, TxsInv
  <1>2. ClientTypeOK'
    BY <1>1, NextClientTypeOK
  <1>3. ProposalInv'
    BY <1>1, ClientStepIsStep, NextProposalInv
  <1>4. TxsInv'
    BY <1>1, NextTxsSound, NextOneEach DEF TxsInv
  <1>5. DataIsPast'
    BY <1>1, NextDataIsPast DEF ClientInv
  <1>6. Held("vote")'
    BY <1>1, ButtonStep, HeldStep DEF ClientInv
  <1>7. Held("create")'
    BY <1>1, ButtonStep, HeldStep DEF ClientInv
  <1>8. DialogWaits'
    BY <1>1, NextDialogWaits DEF ClientInv
  <1> QED
    BY <1>2, <1>3, <1>4, <1>5, <1>6, <1>7, <1>8 DEF ClientInv

\* The tab's state has its types, whatever is sent, shown and reported.
THEOREM ClientTypeCorrect == ClientSpec => []ClientTypeOK
  <1>1. ClientInv => ClientTypeOK
    BY DEF ClientInv
  <1> QED
    BY <1>1, InitClientInv, NextClientInv, PTL DEF ClientSpec

\* A set whose members are all the same has at most one.
LEMMA AtMostOne ==
    ASSUME NEW S, \A m, n \in S : m = n
    PROVE  Cardinality(S) <= 1
  <1>1. CASE S = {}
    BY <1>1, FS_EmptySet
  <1>2. ASSUME NEW n \in S
        PROVE  Cardinality(S) <= 1
    <2>1. S = {n}
      BY <1>2
    <2>2. Cardinality({n}) = 1
      BY FS_Singleton
    <2> QED
      BY <2>1, <2>2
  <1> QED
    BY <1>1, <1>2

\* However many votes and decisions a user sends from outdated pages, one of each
\* is executed for a proposal.
THEOREM VotesExecuteOnce == ClientSpec => []OncePerProposal
  <1>1. ASSUME OneEach, NEW i \in ProposalId, NEW kind \in {"vote", "finalize"}
        PROVE  Cardinality({n \in DOMAIN txs : /\ txs[n].call.kind = kind
                                               /\ txs[n].call.id = i
                                               /\ txs[n].stage = "executed"}) <= 1
    <2> DEFINE S == {n \in DOMAIN txs : /\ txs[n].call.kind = kind
                                        /\ txs[n].call.id = i
                                        /\ txs[n].stage = "executed"}
    <2>1. \A m, n \in S : m = n
      BY <1>1 DEF OneEach
    <2> HIDE DEF S
    <2>2. Cardinality(S) <= 1
      BY <2>1, AtMostOne
    <2> QED
      BY <2>2 DEF S
  <1>2. ClientInv => OncePerProposal
    BY <1>1 DEF ClientInv, TxsInv, OncePerProposal
  <1> QED
    BY <1>2, InitClientInv, NextClientInv, PTL DEF ClientSpec

\* For any number of transactions and users, and however many blocks do not stay:
\* success alone means that the call was executed and its effect is there, an error
\* with the success that follows it that it failed, of a transaction never in a
\* block that was retracted; an error alone, that nobody listens any more.
THEOREM MessagesMeanWhatHappened == ClientSpec => []MessagesMean
  <1>1. ASSUME ClientTypeOK, TxsSound
        PROVE  MessagesMean
    <2> SUFFICES ASSUME NEW n \in DOMAIN txs
                 PROVE  LET t == txs[n] IN
                          /\ t.told = {"error"} => t.stage # "signing" /\ ~t.live
                          /\ t.retracted = 0 =>
                                /\ t.told = {"success"} =>
                                      t.stage = "executed" /\ Done(t.call)
                                /\ t.told = {"success", "error"} => t.stage = "failed"
      BY DEF MessagesMean
    <2> DEFINE t == txs[n]
    <2>1. Told(t) /\ (t.stage = "executed" => Done(t.call)) /\ t.stage \in Stage
      BY <1>1, TxsAre DEF TxsSound, Sound, Transaction
    <2>2. t.stage = "signing" => t.told = {}
      BY <2>1 DEF Told
    <2>3. t.told = {"error"} => t.stage # "signing" /\ ~t.live
      BY <2>1, <2>2 DEF Told
    <2>4. t.retracted = 0 /\ "success" \in t.told => t.stage \in Outcome
      BY <2>1 DEF Told
    <2>5. t.retracted = 0 =>
             /\ t.told = {"success"} => t.stage # "failed"
             /\ t.told = {"success", "error"} => t.stage # "executed"
      BY <2>1 DEF Told
    <2> QED
      BY <2>1, <2>3, <2>4, <2>5 DEF Outcome
  <1>2. ClientInv => MessagesMean
    BY <1>1 DEF ClientInv, TxsInv
  <1> QED
    BY <1>2, InitClientInv, NextClientInv, PTL DEF ClientSpec

\* The vote button and the form's wait exactly while a call of their own page is
\* out whose handler has not thrown, one at a time, and the deposit dialog only
\* waits for a signature that may still come, whatever is sent, dropped, retracted
\* or reported (Proposal.tsx:56-80, create-proposal.tsx:29-78).
THEOREM ButtonsAreHeld == ClientSpec => []ButtonsHeld
  <1>1. ASSUME Held("vote"), Held("create"), DialogWaits
        PROVE  ButtonsHeld
    <2>1. Cardinality(Out("vote")) <= 1 /\ Cardinality(Out("create")) <= 1
      BY <1>1, AtMostOne DEF Held
    <2>2. (voting <=> Out("vote") # {}) /\ (submitting <=> Out("create") # {})
      BY <1>1 DEF Held, Flag
    <2> QED
      BY <1>1, <2>1, <2>2 DEF ButtonsHeld, DialogWaits, Signing
  <1>2. ClientInv => ButtonsHeld
    BY <1>1 DEF ClientInv
  <1> QED
    BY <1>2, InitClientInv, NextClientInv, PTL DEF ClientSpec

\* The record a proposal page shows is of the past of the one on the chain, and the
\* very record if it is shown as decided, however late loads, jumps and reloads come.
THEOREM PageShowsThePast == ClientSpec => []DataIsPast
  <1>1. ClientInv => DataIsPast
    BY DEF ClientInv
  <1> QED
    BY <1>1, InitClientInv, NextClientInv, PTL DEF ClientSpec

\* The treasury behind the tab is the treasury: whatever pages send, how often
\* and in which order, everything proved of Spec holds of it.
THEOREM TabUsesTreasury == ClientSpec => Spec
  <1>1. ClientInit => Init
    BY DEF ClientInit
  <1>2. ClientTypeOK /\ [ClientNext]_clientVars => [Next]_vars
    BY ClientStepIsStep
  <1> QED
    BY <1>1, <1>2, ClientTypeCorrect, PTL DEF ClientSpec, Spec

=============================================================================
