---------------------------- MODULE OutboxProofs ----------------------------
(* What dispatch_outbox promises, for any number of messages, overlapping    *)
(* runs, attempts and lost transactions: everything but eventual delivery.   *)
EXTENDS Outbox, SequenceTheorems, TLAPS

Holding == {"send", "save_sent", "save_failed"}

\* A run has a row in its hands exactly between the claim and the commit, and
\* knows whether the provider took the message.
RunInv(w) ==
    /\ pc[w] \in Holding <=> claimed[w] # Nil
    /\ claimed[w] # Nil => rows[claimed[w]].status = "pending"
    /\ pc[w] = "save_sent" =>
          delivered[claimed[w]] = unrecorded[claimed[w]] + 1
    /\ pc[w] \in {"send", "save_failed"} =>
          delivered[claimed[w]] = unrecorded[claimed[w]]

Exclusive(w, v) == w # v /\ claimed[w] # Nil => claimed[v] # claimed[w]

\* What a row says of its deliveries while no run has it.
RowInv(m) ==
    /\ rows[m].redacted <=> rows[m].status \in {"sent", "failed"}
    /\ rows[m].attempt_count <= MaxAttempts
    /\ rows[m].status = "failed" <=> rows[m].attempt_count = MaxAttempts
    /\ rows[m].status = "sent" => delivered[m] = unrecorded[m] + 1
    /\ rows[m].status # "sent" /\ (\A w \in Runs : claimed[w] # m) =>
          delivered[m] = unrecorded[m]

\* A run that holds a row has budget left for it.
BudgetInv(w) == pc[w] \in Holding => budget[w] > 0

OutboxInv ==
    /\ TypeOK
    /\ \A w \in Runs : RunInv(w) /\ BudgetInv(w)
    /\ \A w, v \in Runs : Exclusive(w, v)
    /\ \A m \in Messages : RowInv(m)

LEMMA RemoveAtTyped ==
    ASSUME NEW S, NEW s \in Seq(S), NEW i \in DOMAIN s
    PROVE  RemoveAt(s, i) \in Seq(S)
<1>1. Len(s) \in Nat /\ i \in 1 .. Len(s)
  BY LenProperties
<1>2. SubSeq(s, 1, i - 1) \in Seq(S)
  BY <1>1, SubSeqProperties
<1>3. SubSeq(s, i + 1, Len(s)) \in Seq(S)
  BY <1>1, SubSeqProperties
<1>4. QED
  BY <1>2, <1>3, ConcatProperties DEF RemoveAt

LEMMA InitInv == Init => OutboxInv
BY AttemptsAssumption, OutboxNilAssumption DEF Init, OutboxInv, TypeOK, Row, Labels,
   RunInv, BudgetInv, Exclusive, RowInv, Holding

LEMMA EnqueueInv ==
    ASSUME OutboxInv, NEW m \in Messages, Enqueue(m)
    PROVE  OutboxInv'
<1> USE DEF OutboxInv
<1>1. TypeOK'
  BY AppendProperties DEF Enqueue, TypeOK, Row, Labels, history
<1>2. \A v \in Runs : RunInv(v)' /\ BudgetInv(v)'
  BY OutboxNilAssumption DEF Enqueue, TypeOK, RunInv, BudgetInv, Exclusive,
     RowInv, Holding, Row, history
<1>3. \A v, u \in Runs : Exclusive(v, u)'
  BY OutboxNilAssumption DEF Enqueue, TypeOK, Exclusive, history
<1>4. \A n \in Messages : RowInv(n)'
  BY AttemptsAssumption, OutboxNilAssumption DEF Enqueue, TypeOK, RowInv,
     RunInv, Exclusive, Holding, Row, history
<1>5. QED
  BY <1>1, <1>2, <1>3, <1>4

LEMMA BecomesDueInv ==
    ASSUME OutboxInv, NEW m \in Messages, BecomesDue(m)
    PROVE  OutboxInv'
<1> USE DEF OutboxInv
<1>1. TypeOK'
  BY AppendProperties DEF BecomesDue, TypeOK, Row, Labels, history
<1>2. \A v \in Runs : RunInv(v)' /\ BudgetInv(v)'
  BY OutboxNilAssumption DEF BecomesDue, TypeOK, RunInv, BudgetInv, Exclusive,
     RowInv, Holding, Row, history
<1>3. \A v, u \in Runs : Exclusive(v, u)'
  BY OutboxNilAssumption DEF BecomesDue, TypeOK, Exclusive, history
<1>4. \A n \in Messages : RowInv(n)'
  BY AttemptsAssumption, OutboxNilAssumption DEF BecomesDue, TypeOK, RowInv,
     RunInv, Exclusive, Holding, Row, history
<1>5. QED
  BY <1>1, <1>2, <1>3, <1>4

LEMMA StartInv ==
    ASSUME OutboxInv, NEW w \in Runs, Start(w)
    PROVE  OutboxInv'
<1> USE DEF OutboxInv
<1>1. TypeOK'
  BY BatchAssumption DEF Start, TypeOK, Row, Labels, history
<1>2. \A v \in Runs : RunInv(v)' /\ BudgetInv(v)'
  BY OutboxNilAssumption DEF Start, TypeOK, RunInv, BudgetInv, Exclusive,
     RowInv, Holding, Row, history
<1>3. \A v, u \in Runs : Exclusive(v, u)'
  BY OutboxNilAssumption DEF Start, TypeOK, Exclusive, history
<1>4. \A n \in Messages : RowInv(n)'
  BY AttemptsAssumption, OutboxNilAssumption DEF Start, TypeOK, RowInv,
     RunInv, Exclusive, Holding, Row, history
<1>5. QED
  BY <1>1, <1>2, <1>3, <1>4

LEMMA ReturnInv ==
    ASSUME OutboxInv, NEW w \in Runs, Return(w)
    PROVE  OutboxInv'
<1> USE DEF OutboxInv
<1>1. TypeOK'
  BY DEF Return, TypeOK, Row, Labels, history
<1>2. \A v \in Runs : RunInv(v)' /\ BudgetInv(v)'
  BY OutboxNilAssumption DEF Return, TypeOK, RunInv, BudgetInv, Exclusive,
     RowInv, Holding, Row, history
<1>3. \A v, u \in Runs : Exclusive(v, u)'
  BY OutboxNilAssumption DEF Return, TypeOK, Exclusive, history
<1>4. \A n \in Messages : RowInv(n)'
  BY AttemptsAssumption, OutboxNilAssumption DEF Return, TypeOK, RowInv,
     RunInv, Exclusive, Holding, Row, history
<1>5. QED
  BY <1>1, <1>2, <1>3, <1>4

LEMMA SendAcceptedInv ==
    ASSUME OutboxInv, NEW w \in Runs, SendAccepted(w)
    PROVE  OutboxInv'
<1> USE DEF OutboxInv
<1>1. TypeOK'
  BY DEF SendAccepted, TypeOK, RunInv, Holding, Labels, history
<1>2. \A v \in Runs : RunInv(v)' /\ BudgetInv(v)'
  BY OutboxNilAssumption DEF SendAccepted, TypeOK, RunInv, BudgetInv, Exclusive,
     RowInv, Holding, Row, history
<1>3. \A v, u \in Runs : Exclusive(v, u)'
  BY OutboxNilAssumption DEF SendAccepted, TypeOK, Exclusive, history
<1>4. \A n \in Messages : RowInv(n)'
  BY AttemptsAssumption, OutboxNilAssumption DEF SendAccepted, TypeOK, RowInv,
     RunInv, Exclusive, Holding, Row, history
<1>5. QED
  BY <1>1, <1>2, <1>3, <1>4

LEMMA SendRaisedInv ==
    ASSUME OutboxInv, NEW w \in Runs, SendRaised(w)
    PROVE  OutboxInv'
<1> USE DEF OutboxInv
<1>1. TypeOK'
  <2>1. claimed[w] \in Messages
    BY DEF SendRaised, TypeOK, RunInv, Holding
  <2>2. delivered' \in [Messages -> Nat] /\ unrecorded' \in [Messages -> Nat]
    <3>1. CASE UNCHANGED history
      BY <3>1 DEF TypeOK, history
    <3>2. CASE /\ delivered' = [delivered EXCEPT ![claimed[w]] = @ + 1]
               /\ unrecorded' = [unrecorded EXCEPT ![claimed[w]] = @ + 1]
      BY <2>1, <3>2 DEF TypeOK
    <3>3. QED
      BY <3>1, <3>2 DEF SendRaised
  <2>3. QED
    BY <2>2 DEF SendRaised, TypeOK, Labels
<1>2. \A v \in Runs : RunInv(v)' /\ BudgetInv(v)'
  BY OutboxNilAssumption DEF SendRaised, TypeOK, RunInv, BudgetInv, Exclusive,
     RowInv, Holding, Row, history
<1>3. \A v, u \in Runs : Exclusive(v, u)'
  BY OutboxNilAssumption DEF SendRaised, TypeOK, Exclusive, history
<1>4. \A n \in Messages : RowInv(n)'
  BY AttemptsAssumption, OutboxNilAssumption DEF SendRaised, TypeOK, RowInv,
     RunInv, Exclusive, Holding, Row, history
<1>5. QED
  BY <1>1, <1>2, <1>3, <1>4

LEMMA LoseInv ==
    ASSUME OutboxInv, NEW w \in Runs, Lose(w)
    PROVE  OutboxInv'
<1> USE DEF OutboxInv
<1>1. TypeOK'
  BY DEF Lose, TypeOK, RunInv, Holding, Labels, history
<1>2. \A v \in Runs : RunInv(v)' /\ BudgetInv(v)'
  BY OutboxNilAssumption DEF Lose, TypeOK, RunInv, BudgetInv, Exclusive,
     RowInv, Holding, Row, history
<1>3. \A v, u \in Runs : Exclusive(v, u)'
  BY OutboxNilAssumption DEF Lose, TypeOK, Exclusive, history
<1>4. \A n \in Messages : RowInv(n)'
  BY AttemptsAssumption, OutboxNilAssumption DEF Lose, TypeOK, RowInv,
     RunInv, Exclusive, Holding, Row, history
<1>5. QED
  BY <1>1, <1>2, <1>3, <1>4

LEMMA ClaimInv ==
    ASSUME OutboxInv, NEW w \in Runs, NEW i \in DOMAIN due, Claim(w, i)
    PROVE  OutboxInv'
<1> USE DEF OutboxInv
<1> DEFINE m == due[i]
<1>1. m \in Messages /\ rows[m].status = "pending" /\ \A v \in Runs : claimed[v] # m
  BY ElementOfSeq DEF Claim, TakeFirst, Claimable, TypeOK
<1>2. /\ claimed' = [claimed EXCEPT ![w] = m] /\ pc' = [pc EXCEPT ![w] = "send"]
      /\ pc[w] = "claim" /\ budget[w] > 0
      /\ UNCHANGED <<rows, due, budget, lost, delivered, unrecorded>>
  BY DEF Claim, TakeFirst, history
<1> HIDE DEF m
<1>3. TypeOK'
  BY <1>1, <1>2 DEF TypeOK, Labels
<1>4. \A v \in Runs : RunInv(v)' /\ BudgetInv(v)'
  BY <1>1, <1>2, OutboxNilAssumption, SMTT(30)
     DEF TypeOK, RunInv, BudgetInv, RowInv, Holding
<1>5. \A v, u \in Runs : Exclusive(v, u)'
  BY <1>1, <1>2, OutboxNilAssumption DEF TypeOK, Exclusive
<1>6. ASSUME NEW n \in Messages PROVE RowInv(n)'
  <2>1. claimed[w] = Nil
    BY <1>2 DEF RunInv, Holding
  <2>2. (\A v \in Runs : claimed'[v] # n) => \A v \in Runs : claimed[v] # n
    BY <1>2, <2>1, OutboxNilAssumption DEF TypeOK
  <2>3. QED
    BY <1>2, <2>2 DEF RowInv
<1>7. QED
  BY <1>3, <1>4, <1>5, <1>6

LEMMA SaveInv ==
    ASSUME OutboxInv, NEW w \in Runs, NEW row \in Row, Save(w, row),
           pc[w] \in Holding,
           row.redacted <=> row.status \in {"sent", "failed"},
           row.attempt_count <= MaxAttempts,
           row.status = "failed" <=> row.attempt_count = MaxAttempts,
           delivered[claimed[w]] = unrecorded[claimed[w]]
               + (IF row.status = "sent" THEN 1 ELSE 0)
    PROVE  OutboxInv'
<1> USE DEF OutboxInv
<1>1. /\ rows' = [rows EXCEPT ![claimed[w]] = row]
      /\ claimed' = [claimed EXCEPT ![w] = Nil] /\ pc' = [pc EXCEPT ![w] = "claim"]
      /\ budget' = [budget EXCEPT ![w] = @ - 1]
      /\ UNCHANGED <<lost, delivered, unrecorded>>
  BY DEF Save, NextMessage, history
<1>2. claimed[w] \in Messages /\ budget[w] > 0
  BY DEF TypeOK, RunInv, BudgetInv
<1>3. due' \in Seq(Messages)
  BY RemoveAtTyped DEF Save, TypeOK
<1>4. TypeOK'
  BY <1>1, <1>2, <1>3 DEF TypeOK, Labels
<1>5. \A v \in Runs : RunInv(v)' /\ BudgetInv(v)'
  BY <1>1, <1>2, OutboxNilAssumption
     DEF TypeOK, RunInv, BudgetInv, Exclusive, Holding
<1>6. \A v, u \in Runs : Exclusive(v, u)'
  BY <1>1, OutboxNilAssumption DEF TypeOK, Exclusive
<1>7. \A n \in Messages : RowInv(n)'
  BY <1>1, <1>2, OutboxNilAssumption DEF TypeOK, RowInv
<1>8. QED
  BY <1>4, <1>5, <1>6, <1>7

LEMMA SaveSentInv ==
    ASSUME OutboxInv, NEW w \in Runs, SaveSent(w)
    PROVE  OutboxInv'
<1> USE DEF OutboxInv
<1> DEFINE row == MarkSent(rows[claimed[w]])
<1>1. pc[w] = "save_sent" /\ Save(w, row)
  BY DEF SaveSent
<1>2. claimed[w] \in Messages /\ rows[claimed[w]].status = "pending"
  BY <1>1 DEF TypeOK, RunInv, Holding
<1>3. rows[claimed[w]] \in Row
  BY <1>2 DEF TypeOK
<1>4. /\ row \in Row /\ row.status = "sent" /\ row.redacted
      /\ row.attempt_count = rows[claimed[w]].attempt_count
  BY <1>3 DEF MarkSent, Row
<1>5. /\ row.attempt_count <= MaxAttempts
      /\ row.attempt_count # MaxAttempts
  BY <1>2, <1>4 DEF RowInv
<1>6. delivered[claimed[w]] = unrecorded[claimed[w]] + 1
  BY <1>1 DEF RunInv
<1> HIDE DEF row
<1>7. QED
  BY <1>1, <1>4, <1>5, <1>6, SaveInv DEF Holding

LEMMA SaveFailedInv ==
    ASSUME OutboxInv, NEW w \in Runs, SaveFailed(w)
    PROVE  OutboxInv'
<1> USE DEF OutboxInv
<1> DEFINE old == rows[claimed[w]]
           row == MarkFailed(old)
<1>1. pc[w] = "save_failed" /\ Save(w, row)
  BY DEF SaveFailed
<1>2. claimed[w] \in Messages /\ old.status = "pending"
  BY <1>1 DEF TypeOK, RunInv, Holding
<1>3. old \in Row /\ ~old.redacted
  BY <1>2 DEF TypeOK, RowInv
<1>4. old.attempt_count < MaxAttempts
  BY <1>2, <1>3, AttemptsAssumption DEF RowInv, Row
<1>5. delivered[claimed[w]] = unrecorded[claimed[w]]
  BY <1>1 DEF RunInv
<1> HIDE DEF old
<1>6. /\ row \in Row
      /\ row.redacted <=> row.status \in {"sent", "failed"}
      /\ row.attempt_count <= MaxAttempts
      /\ row.status = "failed" <=> row.attempt_count = MaxAttempts
      /\ row.status # "sent"
  <2> DEFINE counted == [old EXCEPT !.attempt_count = @ + 1]
             settled == [counted EXCEPT !.status = "failed", !.redacted = TRUE]
  <2>1. /\ counted \in Row /\ counted.status = "pending" /\ ~counted.redacted
        /\ counted.attempt_count <= MaxAttempts
    BY <1>2, <1>3, <1>4, AttemptsAssumption DEF Row
  <2>2. /\ settled \in Row /\ settled.status = "failed" /\ settled.redacted
        /\ settled.attempt_count = counted.attempt_count
    BY <2>1 DEF Row
  <2>3. row = IF counted.attempt_count >= MaxAttempts THEN settled ELSE counted
    BY DEF MarkFailed
  <2> HIDE DEF counted, settled, row
  <2>4. counted.attempt_count \in Nat
    BY <2>1 DEF Row
  <2>5. QED
    BY <2>1, <2>2, <2>3, <2>4, AttemptsAssumption
<1> HIDE DEF row
<1>7. pc[w] \in Holding
  BY <1>1 DEF Holding
<1>8. delivered[claimed[w]] = unrecorded[claimed[w]]
               + (IF row.status = "sent" THEN 1 ELSE 0)
  BY <1>2, <1>5, <1>6 DEF TypeOK
<1>9. QED
  BY <1>1, <1>6, <1>7, <1>8, SaveInv

LEMMA StutterInv == OutboxInv /\ UNCHANGED vars => OutboxInv'
BY DEF vars, history, OutboxInv, TypeOK, RunInv, BudgetInv, Exclusive, RowInv

LEMMA NextInv == OutboxInv /\ [Next]_vars => OutboxInv'
<1> SUFFICES ASSUME OutboxInv, [Next]_vars PROVE OutboxInv'
  OBVIOUS
<1>1. ASSUME NEW m \in Messages, Enqueue(m) \/ BecomesDue(m) PROVE OutboxInv'
  BY <1>1, EnqueueInv, BecomesDueInv
<1>2. ASSUME NEW w \in Runs, Step(w) PROVE OutboxInv'
  BY <1>2, StartInv, ClaimInv, ReturnInv, SendAcceptedInv, SendRaisedInv,
     SaveSentInv, SaveFailedInv DEF Step
<1>3. ASSUME NEW w \in Runs, Lose(w) PROVE OutboxInv'
  BY <1>3, LoseInv
<1>4. CASE UNCHANGED vars
  BY <1>4, StutterInv
<1>5. QED
  BY <1>1, <1>2, <1>3, <1>4 DEF Next

LEMMA OutboxInvariant == Spec => []OutboxInv
<1>1. Init => OutboxInv
  BY InitInv
<1>2. OutboxInv /\ [Next]_vars => OutboxInv'
  BY NextInv
<1>3. QED
  BY <1>1, <1>2, PTL DEF Spec

\* Every variable keeps its type: in particular no run takes more than
\* BATCH_SIZE messages (outbox.py:39).
THEOREM OutboxTypeCorrect == Spec => []TypeOK
<1>1. OutboxInv => TypeOK
  BY DEF OutboxInv
<1>2. QED
  BY <1>1, OutboxInvariant, PTL

\* Overlapping runs take disjoint messages (repositories.py:54-69).
THEOREM ClaimsAlwaysExclusive == Spec => []ClaimsAreExclusive
<1>1. OutboxInv => ClaimsAreExclusive
  BY SMTT(30) DEF OutboxInv, TypeOK, RunInv, RowInv, Exclusive, ClaimsAreExclusive
<1>2. QED
  BY <1>1, OutboxInvariant, PTL

\* A second delivery needs a first that no commit recorded (outbox.py:20-24).
THEOREM AlwaysDeliveredOnce == Spec => []DeliveredOnceUnlessUnrecorded
<1>1. ASSUME OutboxInv, NEW m \in Messages
      PROVE  delivered[m] <= unrecorded[m] + 1
  <2> USE <1>1 DEF OutboxInv
  <2>1. delivered[m] \in Nat /\ unrecorded[m] \in Nat
    BY DEF TypeOK
  <2>2. CASE \E w \in Runs : claimed[w] = m
    <3>1. PICK w \in Runs : claimed[w] = m
      BY <2>2
    <3>2. pc[w] \in Holding
      BY <3>1, OutboxNilAssumption DEF RunInv
    <3>3. QED
      BY <2>1, <3>1, <3>2 DEF RunInv, Holding
  <2>3. CASE \A w \in Runs : claimed[w] # m
    BY <2>1, <2>3 DEF RowInv
  <2>4. QED
    BY <2>2, <2>3
<1>2. OutboxInv => DeliveredOnceUnlessUnrecorded
  BY <1>1 DEF OutboxInv, RowInv, DeliveredOnceUnlessUnrecorded
<1>3. QED
  BY <1>2, OutboxInvariant, PTL

\* The raw token leaves the row exactly when it settles (entities.py:29-59).
THEOREM AlwaysRedactedWhenSettled == Spec => []RedactedWhenSettled
<1>1. OutboxInv => RedactedWhenSettled
  BY DEF OutboxInv, RowInv, RedactedWhenSettled
<1>2. QED
  BY <1>1, OutboxInvariant, PTL

-----------------------------------------------------------------------------
(* The queue of due messages.                                               *)

\* Due messages are pending and no message is due twice; a message that a run
\* has in its hands is due until its outcome is saved.
DueInv ==
    /\ \A i \in DOMAIN due : rows[due[i]].status = "pending"
    /\ \A i, j \in DOMAIN due : due[i] = due[j] => i = j
    /\ \A w \in Runs : claimed[w] # Nil => \E i \in DOMAIN due : due[i] = claimed[w]

LEMMA AppendElements ==
    ASSUME NEW S, NEW s \in Seq(S), NEW e \in S
    PROVE  /\ Append(s, e) \in Seq(S)
           /\ DOMAIN s \subseteq DOMAIN Append(s, e)
           /\ \A i \in DOMAIN s : Append(s, e)[i] = s[i]
           /\ \A i \in DOMAIN Append(s, e) : i \in DOMAIN s \/ (i = Len(s) + 1 /\ Append(s, e)[i] = e)
           /\ Len(s) + 1 \notin DOMAIN s
BY AppendProperties, LenProperties

\* RemoveAt closes the gap.
LEMMA RemoveAtElements ==
    ASSUME NEW S, NEW s \in Seq(S), NEW i \in DOMAIN s
    PROVE  /\ DOMAIN RemoveAt(s, i) = 1 .. (Len(s) - 1)
           /\ \A j \in 1 .. (Len(s) - 1) :
                RemoveAt(s, i)[j] = IF j < i THEN s[j] ELSE s[j + 1]
<1>1. Len(s) \in Nat /\ i \in 1 .. Len(s)
  BY LenProperties
<1> DEFINE front == SubSeq(s, 1, i - 1)
           back == SubSeq(s, i + 1, Len(s))
<1>2. /\ front \in Seq(S) /\ Len(front) = i - 1
      /\ \A j \in 1 .. (i - 1) : front[j] = s[j]
  BY <1>1, SubSeqProperties
<1>3. /\ back \in Seq(S) /\ Len(back) = Len(s) - i
      /\ \A j \in 1 .. (Len(s) - i) : back[j] = s[j + i]
  BY <1>1, SubSeqProperties
<1>4. RemoveAt(s, i) = front \o back
  BY DEF RemoveAt
<1> HIDE DEF front, back
<1>5. /\ Len(front \o back) = Len(s) - 1
      /\ DOMAIN (front \o back) = 1 .. (Len(s) - 1)
      /\ \A j \in 1 .. (Len(s) - 1) :
           (front \o back)[j] = IF j <= i - 1 THEN front[j] ELSE back[j - (i - 1)]
  BY <1>1, <1>2, <1>3, ConcatProperties, LenProperties
<1>6. ASSUME NEW j \in 1 .. (Len(s) - 1)
      PROVE  (front \o back)[j] = IF j < i THEN s[j] ELSE s[j + 1]
  <2>1. CASE j < i
    <3>1. j \in 1 .. (i - 1)
      BY <1>1, <2>1
    <3> QED BY <1>1, <1>2, <1>5, <2>1, <3>1
  <2>2. CASE j >= i
    <3>1. j - (i - 1) \in 1 .. (Len(s) - i) /\ (j - (i - 1)) + i = j + 1 /\ ~(j <= i - 1)
      BY <1>1, <2>2
    <3>2. (front \o back)[j] = back[j - (i - 1)]
      BY <1>5, <3>1
    <3>3. back[j - (i - 1)] = s[(j - (i - 1)) + i]
      BY <1>3, <3>1
    <3> QED BY <1>1, <2>2, <3>1, <3>2, <3>3
  <2>3. j < i \/ j >= i
    BY <1>1
  <2> QED BY <2>1, <2>2, <2>3
<1> QED BY <1>4, <1>5, <1>6

\* A message joins the queue.
LEMMA DueAppend ==
    ASSUME OutboxInv, DueInv, NEW m \in Messages, due' = Append(due, m),
           \A i \in DOMAIN due : due[i] # m,
           rows'[m].status = "pending",
           \A n \in Messages \ {m} : rows'[n] = rows[n],
           claimed' = claimed
    PROVE  DueInv'
<1>1. due \in Seq(Messages)
  BY DEF OutboxInv, TypeOK
<1>2. /\ DOMAIN due \subseteq DOMAIN due'
      /\ \A i \in DOMAIN due : due'[i] = due[i] /\ due[i] \in Messages
      /\ \A i \in DOMAIN due' : i \in DOMAIN due \/ (i = Len(due) + 1 /\ due'[i] = m)
      /\ Len(due) + 1 \notin DOMAIN due
  BY <1>1, AppendElements, ElementOfSeq
<1>3. \A i \in DOMAIN due' : rows'[due'[i]].status = "pending"
  BY <1>2 DEF DueInv
<1>4. \A i, j \in DOMAIN due' : due'[i] = due'[j] => i = j
  BY <1>2 DEF DueInv
<1>5. \A w \in Runs : claimed'[w] # Nil => \E i \in DOMAIN due' : due'[i] = claimed'[w]
  BY <1>2 DEF DueInv
<1> QED BY <1>3, <1>4, <1>5 DEF DueInv

\* The message that a run saves leaves it.
LEMMA DueSave ==
    ASSUME OutboxInv, DueInv, NEW w \in Runs, NEW row, Save(w, row), claimed[w] \in Messages
    PROVE  DueInv'
<1>1. due \in Seq(Messages) /\ Len(due) \in Nat /\ DOMAIN due = 1 .. Len(due)
  BY LenProperties DEF OutboxInv, TypeOK
<1>2. PICK k \in DOMAIN due : due[k] = claimed[w] /\ due' = RemoveAt(due, k)
  BY DEF Save
<1>3. /\ DOMAIN due' = 1 .. (Len(due) - 1)
      /\ \A j \in 1 .. (Len(due) - 1) : due'[j] = IF j < k THEN due[j] ELSE due[j + 1]
  BY <1>1, <1>2, RemoveAtElements
<1>4. \A j \in DOMAIN due' : \E i \in DOMAIN due :
         /\ i # k /\ due'[j] = due[i]
         /\ i = IF j < k THEN j ELSE j + 1
  BY <1>1, <1>3
<1>5. \A i \in DOMAIN due : i # k => \E j \in DOMAIN due' : due'[j] = due[i]
  <2> SUFFICES ASSUME NEW i \in DOMAIN due, i # k
               PROVE  \E j \in DOMAIN due' : due'[j] = due[i]
    OBVIOUS
  <2>1. CASE i < k
    <3>1. i \in DOMAIN due' /\ due'[i] = due[i]
      BY <2>1, <1>1, <1>3
    <3> QED BY <3>1
  <2>2. CASE i > k
    <3>1. i - 1 \in DOMAIN due' /\ due'[i - 1] = due[i]
      BY <2>2, <1>1, <1>3
    <3> QED BY <3>1
  <2> QED BY <2>1, <2>2, <1>1
<1>6. rows' = [rows EXCEPT ![claimed[w]] = row] /\ claimed' = [claimed EXCEPT ![w] = Nil]
  BY DEF Save, NextMessage
<1>7. rows \in [Messages -> Row] /\ claimed \in [Runs -> Messages \cup {Nil}]
  BY DEF OutboxInv, TypeOK
<1>8. \A i \in DOMAIN due : i # k => due[i] # claimed[w] /\ due[i] \in Messages
  BY <1>1, <1>2, ElementOfSeq DEF DueInv
<1>9. \A i \in DOMAIN due' : rows'[due'[i]].status = "pending"
  BY <1>4, <1>6, <1>7, <1>8 DEF DueInv
<1>10. \A i, j \in DOMAIN due' : due'[i] = due'[j] => i = j
  <2> SUFFICES ASSUME NEW i \in DOMAIN due', NEW j \in DOMAIN due', due'[i] = due'[j]
               PROVE  i = j
    OBVIOUS
  <2>1. PICK a \in DOMAIN due : due'[i] = due[a] /\ a = IF i < k THEN i ELSE i + 1
    BY <1>4
  <2>2. PICK b \in DOMAIN due : due'[j] = due[b] /\ b = IF j < k THEN j ELSE j + 1
    BY <1>4
  <2>3. a = b
    BY <2>1, <2>2 DEF DueInv
  <2> QED BY <2>1, <2>2, <2>3, <1>1, <1>3
<1>11. ASSUME NEW v \in Runs, claimed'[v] # Nil
       PROVE  \E i \in DOMAIN due' : due'[i] = claimed'[v]
  <2>1. v # w /\ claimed'[v] = claimed[v] /\ claimed[v] # claimed[w]
    BY <1>6, <1>7, <1>11 DEF OutboxInv, Exclusive
  <2>2. PICK i \in DOMAIN due : due[i] = claimed[v]
    BY <2>1, <1>11 DEF DueInv
  <2> QED BY <2>1, <2>2, <1>2, <1>5
<1> QED BY <1>9, <1>10, <1>11 DEF DueInv

LEMMA DueStep == OutboxInv /\ DueInv /\ [Next]_vars => DueInv'
<1> SUFFICES ASSUME OutboxInv, DueInv, [Next]_vars PROVE DueInv'
  OBVIOUS
<1>t. TypeOK /\ \A w \in Runs : RunInv(w)
  BY DEF OutboxInv
<1>0. CASE UNCHANGED <<rows, due, claimed>>
  BY <1>0 DEF DueInv
<1>1. ASSUME NEW m \in Messages, Enqueue(m) PROVE DueInv'
  <2>1. rows[m].status = "absent"
    BY <1>1 DEF Enqueue
  <2>2. \A i \in DOMAIN due : due[i] # m
    BY <2>1 DEF DueInv
  <2>3. /\ due' = Append(due, m) /\ claimed' = claimed
        /\ rows'[m].status = "pending"
        /\ \A n \in Messages \ {m} : rows'[n] = rows[n]
    BY <1>1, <1>t DEF Enqueue, TypeOK
  <2> QED BY <2>2, <2>3, DueAppend
<1>2. ASSUME NEW m \in Messages, BecomesDue(m) PROVE DueInv'
  <2>1. \A i \in DOMAIN due : due[i] # m
    BY <1>2 DEF BecomesDue, Contains
  <2> QED BY <1>2, <2>1, DueAppend DEF BecomesDue
<1>3. ASSUME NEW w \in Runs, NEW i \in DOMAIN due, Claim(w, i) PROVE DueInv'
  <2>1. /\ claimed' = [claimed EXCEPT ![w] = due[i]]
        /\ UNCHANGED <<rows, due>>
    BY <1>3 DEF Claim, TakeFirst
  <2> QED BY <2>1, <1>t DEF DueInv, TypeOK
<1>4. ASSUME NEW w \in Runs, SaveSent(w) \/ SaveFailed(w) PROVE DueInv'
  <2>1. pc[w] \in Holding /\ \E row : Save(w, row)
    BY <1>4 DEF SaveSent, SaveFailed, Holding
  <2>2. claimed[w] \in Messages
    BY <2>1, <1>t DEF TypeOK, RunInv
  <2> QED BY <2>1, <2>2, DueSave
<1>5. ASSUME NEW w \in Runs, Start(w) \/ Return(w) \/ SendAccepted(w) \/ SendRaised(w)
      PROVE  DueInv'
  BY <1>0, <1>5 DEF Start, Return, SendAccepted, SendRaised
<1>6. ASSUME NEW w \in Runs, Lose(w) PROVE DueInv'
  <2>1. claimed' = [claimed EXCEPT ![w] = Nil] /\ UNCHANGED <<rows, due>>
    BY <1>6 DEF Lose
  <2> QED BY <2>1, <1>t DEF DueInv, TypeOK
<1>7. CASE UNCHANGED vars
  BY <1>0, <1>7 DEF vars
<1> QED BY <1>1, <1>2, <1>3, <1>4, <1>5, <1>6, <1>7 DEF Next, Step

LEMMA DueInvariant == Spec => [](OutboxInv /\ DueInv)
<1>1. Init => OutboxInv /\ DueInv
  BY InitInv DEF Init, DueInv
<1>2. OutboxInv /\ DueInv /\ [Next]_vars => (OutboxInv /\ DueInv)'
  BY NextInv, DueStep
<1> QED BY <1>1, <1>2, PTL DEF Spec

\* A run that stops early has looked at every due message and found each in
\* the hands of another run.
LEMMA StopsAtHeld ==
    ASSUME OutboxInv, DueInv, [Next]_vars, NEW w \in Runs,
           pc[w] = "claim", pc'[w] = "idle", budget[w] > 0, lost' = lost,
           NEW j \in DOMAIN due
    PROVE  \E v \in Runs \ {w} : claimed[v] = due[j]
<1>t. TypeOK /\ RunInv(w) /\ due[j] \in Messages
  BY ElementOfSeq DEF OutboxInv, TypeOK
<1>1. Return(w)
  <2>1. ASSUME NEW m \in Messages, Enqueue(m) \/ BecomesDue(m) PROVE FALSE
    BY <2>1 DEF Enqueue, BecomesDue
  <2>2. ASSUME NEW v \in Runs, Lose(v) PROVE FALSE
    BY <2>2, <1>t DEF Lose, TypeOK
  <2>3. ASSUME NEW v \in Runs, Step(v), ~Return(w) PROVE FALSE
    <3>1. v # w => pc'[w] = pc[w]
      BY <2>3, <1>t DEF Step, Start, Claim, TakeFirst, Return, SendAccepted, SendRaised,
         SaveSent, SaveFailed, Save, NextMessage, TypeOK
    <3>2. v = w => pc'[w] # "idle"
      BY <2>3, <1>t DEF Step, Start, Claim, TakeFirst, SendAccepted, SendRaised,
         SaveSent, SaveFailed, Save, NextMessage, TypeOK
    <3> QED BY <3>1, <3>2
  <2>4. ~UNCHANGED vars
    BY DEF vars
  <2> QED BY <2>1, <2>2, <2>3, <2>4 DEF Next
<1>2. ~Claimable(due[j])
  BY <1>1, <1>t DEF Return, OutboxInv, TypeOK
<1>3. PICK v \in Runs : claimed[v] = due[j]
  BY <1>2 DEF Claimable, DueInv
<1>4. claimed[w] = Nil
  BY <1>t DEF RunInv, Holding
<1> QED BY <1>3, <1>4, <1>t, OutboxNilAssumption

\* So has a run that takes a younger message.
LEMMA SkipsHeld ==
    ASSUME OutboxInv, DueInv, [Next]_vars, NEW w \in Runs,
           NEW i \in DOMAIN due, claimed[w] = Nil, claimed'[w] = due[i],
           NEW j \in DOMAIN due, j < i
    PROVE  \E v \in Runs \ {w} : claimed[v] = due[j]
<1>t. TypeOK /\ DOMAIN due = 1 .. Len(due) /\ Len(due) \in Nat
  BY LenProperties DEF OutboxInv, TypeOK
<1>m. j \in 1 .. (i - 1) /\ due[i] \in Messages /\ due[j] \in Messages
  BY <1>t, ElementOfSeq DEF TypeOK
<1>0. claimed'[w] # claimed[w]
  BY <1>m, OutboxNilAssumption
<1>1. PICK k \in DOMAIN due : Claim(w, k)
  <2>1. ASSUME NEW m \in Messages, Enqueue(m) \/ BecomesDue(m) PROVE FALSE
    BY <1>0, <2>1 DEF Enqueue, BecomesDue
  <2>2. ASSUME NEW v \in Runs, Lose(v) PROVE FALSE
    BY <1>0, <2>2, <1>t DEF Lose, TypeOK
  <2>3. ASSUME NEW v \in Runs, Step(v), \A k \in DOMAIN due : ~Claim(w, k) PROVE FALSE
    <3>1. v # w => claimed'[w] = claimed[w]
      BY <2>3, <1>t DEF Step, Start, Claim, TakeFirst, Return, SendAccepted, SendRaised,
         SaveSent, SaveFailed, Save, NextMessage, TypeOK
    <3>2. v = w => claimed'[w] = claimed[w]
      BY <2>3, <1>t DEF Step, Start, Return, SendAccepted, SendRaised,
         SaveSent, SaveFailed, Save, NextMessage, TypeOK
    <3> QED BY <1>0, <3>1, <3>2
  <2>4. ~UNCHANGED vars
    BY <1>0 DEF vars
  <2> QED BY <2>1, <2>2, <2>3, <2>4 DEF Next
<1>2. claimed'[w] = due[k] /\ \A n \in 1 .. (k - 1) : ~Claimable(due[n])
  BY <1>1, <1>t DEF Claim, TakeFirst, TypeOK
<1>3. i = k
  BY <1>2 DEF DueInv
<1>4. ~Claimable(due[j])
  BY <1>2, <1>3, <1>m
<1>5. PICK v \in Runs : claimed[v] = due[j]
  BY <1>4 DEF Claimable, DueInv
<1> QED BY <1>5, <1>m, OutboxNilAssumption

\* SKIP LOCKED hides a due message only while another run is sending it
\* (outbox.py:43, repositories.py:54-69).
THEOREM AlwaysPassedOverOnlyIfHeld == Spec => PassedOverOnlyIfHeld
<1>1. ASSUME OutboxInv, DueInv, [Next]_vars, NEW w \in Runs, NEW j \in DOMAIN due,
             PassesOver(w, j)
      PROVE  \E v \in Runs \ {w} : claimed[v] = due[j]
  BY <1>1, StopsAtHeld, SkipsHeld DEF PassesOver
<1>2. OutboxInv /\ DueInv /\ [Next]_vars =>
        [\A w \in Runs, j \in DOMAIN due :
           PassesOver(w, j) => \E v \in Runs \ {w} : claimed[v] = due[j]]_vars
  BY <1>1
<1> QED BY <1>2, DueInvariant, PTL DEF Spec, PassedOverOnlyIfHeld
=============================================================================
