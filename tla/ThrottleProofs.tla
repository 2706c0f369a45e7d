--------------------------- MODULE ThrottleProofs ---------------------------
(***************************************************************************)
(* The invariants of Throttle hold for every number of requests, every      *)
(* threshold and every life of the counters. TypeOK is inductive by itself; *)
(* each of the others is inductive together with it.                        *)
(*                                                                          *)
(* What a step does to the number of requests at a label is the lemma       *)
(* Moved; the rest is a case per action.                                    *)
(***************************************************************************)
EXTENDS Throttle, FiniteSetTheorems, TLAPS

USE DEF history

\* The counters that the operations return are counters.
LEMMA CounterOps ==
    ASSUME NEW c \in Counter, c.count = 0 => c.ttl = 0
    PROVE  /\ Gone \in Counter
           /\ Armed(c) \in Counter
           /\ Armed(c).count = c.count
           /\ c.count > 0 => Armed(c).ttl > 0
           /\ c.count = 0 => Armed(c).ttl = 0
           /\ Incremented(c) \in Counter
           /\ Incremented(c).count = c.count + 1
           /\ Incremented(c).ttl = c.ttl
           /\ c.ttl > 0 => /\ Older(c) \in Counter
                           /\ Older(c).count <= c.count
                           /\ Older(c).ttl = 0 => Older(c).count = 0
                           /\ Older(c).count = 0 => Older(c).ttl = 0
BY ThrottleAssumption DEF Counter, Gone, Armed, Incremented, Older

\* Every key may be gone, with nothing lost.
LEMMA AllGone ==
    /\ Gone \in Counter
    /\ Gone.count = 0 /\ Gone.ttl = 0
    /\ [e \in Emails |-> Gone] \in [Emails -> Counter]
    /\ [e \in Emails |-> 0] \in [Emails -> 0 .. MaxLost]
<1>1. Gone \in Counter /\ Gone.count = 0 /\ Gone.ttl = 0
  BY ThrottleAssumption DEF Gone, Counter
<1>2. 0 \in 0 .. MaxLost
  BY ThrottleAssumption
<1> QED BY <1>1, <1>2

LEMMA TypeInit == Init => TypeOK
<1> SUFFICES ASSUME Init PROVE TypeOK
  OBVIOUS
<1>1. pc \in [Requests -> Labels]
  BY DEF Init, Labels
<1> QED BY <1>1, AllGone DEF Init, TypeOK

LEMMA TypeStep == TypeOK /\ [Next]_vars => TypeOK'
<1> SUFFICES ASSUME TypeOK, [Next]_vars PROVE TypeOK'
  OBVIOUS
<1> USE DEF TypeOK
<1>0. CASE UNCHANGED vars
  BY <1>0 DEF vars
<1>1. ASSUME NEW r \in Requests, NEW e \in Emails, Arrive(r, e) PROVE TypeOK'
  <2>1. /\ window' \in Counter
        /\ window'.count = 0 => window'.ttl = 0
    BY <1>1, CounterOps DEF Arrive, Counter
  <2> QED BY <1>1, <2>1 DEF Arrive, Goto, Labels
<1>2. ASSUME NEW r \in Requests, Arm(r) PROVE TypeOK'
  BY <1>2, CounterOps DEF Arm, Goto, Labels, Counter
<1>3. ASSUME NEW r \in Requests, Pass(r) PROVE TypeOK'
  BY <1>3 DEF Pass, Goto, Labels
<1>4. ASSUME NEW r \in Requests, RefuseLocked(r) PROVE TypeOK'
  BY <1>4 DEF RefuseLocked, Goto, Labels
<1>5. ASSUME NEW r \in Requests, RecordFailure(r) PROVE TypeOK'
  <2>1. /\ failures' \in [Emails -> Counter]
        /\ \A e \in Emails : failures'[e].count = 0 => failures'[e].ttl = 0
    BY <1>5, CounterOps DEF RecordFailure, Counter
  <2> QED BY <1>5, <2>1 DEF RecordFailure, Goto, Labels
<1>6. ASSUME NEW r \in Requests, Slide(r) PROVE TypeOK'
  <2>1. /\ failures' \in [Emails -> Counter]
        /\ \A e \in Emails : failures'[e].count = 0 => failures'[e].ttl = 0
    BY <1>6, CounterOps DEF Slide, Counter
  <2> QED BY <1>6, <2>1 DEF Slide, Goto, Labels
<1>7. ASSUME NEW r \in Requests, RefuseDisabled(r) PROVE TypeOK'
  BY <1>7 DEF RefuseDisabled, Goto, Labels
<1>8. ASSUME NEW r \in Requests, Reset(r) PROVE TypeOK'
  <2>1. /\ failures' \in [Emails -> Counter]
        /\ \A e \in Emails : failures'[e].count = 0 => failures'[e].ttl = 0
    BY <1>8, CounterOps, ThrottleAssumption DEF Reset, Counter, Gone
  <2> QED BY <1>8, <2>1, ThrottleAssumption DEF Reset, Goto, Labels
<1>9. ASSUME NEW r \in Requests, Abort(r) PROVE TypeOK'
  <2>1. lost' \in [Emails -> 0 .. MaxLost]
    BY <1>9, ThrottleAssumption DEF Abort
  <2> QED BY <1>9, <2>1 DEF Abort, Goto, Labels
<1>10. ASSUME NEW e \in Emails, FailuresAge(e) PROVE TypeOK'
  <2>1. failures[e] \in Counter /\ failures[e].ttl > 0
    BY <1>10 DEF FailuresAge
  <2>2. /\ Older(failures[e]) \in Counter
        /\ Older(failures[e]).count = 0 => Older(failures[e]).ttl = 0
    BY <2>1, CounterOps
  <2>3. lost' \in [Emails -> 0 .. MaxLost]
    BY <1>10, ThrottleAssumption DEF FailuresAge
  <2> QED BY <1>10, <2>2, <2>3 DEF FailuresAge
<1>11. CASE WindowAges
  BY <1>11, CounterOps DEF WindowAges
<1>12. CASE RedisRestart
  BY <1>12, AllGone DEF RedisRestart
<1> QED BY <1>0, <1>1, <1>2, <1>3, <1>4, <1>5, <1>6, <1>7, <1>8, <1>9, <1>10,
           <1>11, <1>12 DEF Next, Request

\* Every reachable state is well typed, and a key that is not there has no
\* expiry.
THEOREM TypeCorrect == Spec => []TypeOK
BY TypeInit, TypeStep, PTL DEF Spec

-----------------------------------------------------------------------------
\* The number of requests at a label of one pair is a number.
LEMMA AtFinite ==
    ASSUME NEW label, NEW e
    PROVE  /\ IsFiniteSet(At(label, e))
           /\ Cardinality(At(label, e)) \in Nat
           /\ Cardinality(At(label, e)) <= Cardinality(Requests)
           /\ Cardinality(Requests) \in Nat
<1>1. At(label, e) \subseteq Requests
  BY DEF At
<1> QED BY <1>1, FS_Subset, FS_CardinalityType, ThrottleAssumption

\* A request that goes from one label to another is counted at the one it
\* reaches and no longer at the one it leaves.
LEMMA Moved ==
    ASSUME TypeOK, NEW r \in Requests, NEW to, Goto(r, to), email' = email,
           NEW label, NEW e \in Emails
    PROVE  /\ email[r] # e \/ (to = label <=> pc[r] = label) =>
                At(label, e)' = At(label, e)
           /\ email[r] = e /\ to = label /\ pc[r] # label =>
                Cardinality(At(label, e)') = Cardinality(At(label, e)) + 1
           /\ email[r] = e /\ to # label /\ pc[r] = label =>
                Cardinality(At(label, e)') = Cardinality(At(label, e)) - 1
<1>0. IsFiniteSet(At(label, e))
  BY AtFinite
<1> USE DEF TypeOK, Goto, At
<1>1. ASSUME email[r] # e \/ (to = label <=> pc[r] = label)
      PROVE  At(label, e)' = At(label, e)
  BY <1>1
<1>2. ASSUME email[r] = e, to = label, pc[r] # label
      PROVE  Cardinality(At(label, e)') = Cardinality(At(label, e)) + 1
  <2>1. At(label, e)' = At(label, e) \cup {r}
    BY <1>2
  <2>2. r \notin At(label, e)
    BY <1>2
  <2> HIDE DEF At
  <2> QED BY <1>0, <2>1, <2>2, FS_AddElement
<1>3. ASSUME email[r] = e, to # label, pc[r] = label
      PROVE  Cardinality(At(label, e)') = Cardinality(At(label, e)) - 1
  <2>1. At(label, e)' = At(label, e) \ {r}
    BY <1>3
  <2>2. r \in At(label, e)
    BY <1>3
  <2> HIDE DEF At
  <2> QED BY <1>0, <2>1, <2>2, FS_RemoveElement
<1> QED BY <1>1, <1>2, <1>3

\* A new request is at neither of the labels that matter.
LEMMA Arrived ==
    ASSUME TypeOK, NEW r \in Requests, NEW d \in Emails, Arrive(r, d),
           NEW label \in {"verify", "expire"}, NEW e \in Emails
    PROVE  At(label, e)' = At(label, e)
BY DEF TypeOK, Arrive, Goto, At

-----------------------------------------------------------------------------
LEMMA GuessesInit == Init => GuessesBounded
<1> SUFFICES ASSUME Init, NEW e \in Emails
             PROVE  failures[e].count + Cardinality(At("verify", e))
                      <= LockoutAtAttempt - 2 + Cardinality(Requests)
  BY DEF GuessesBounded
<1>1. At("verify", e) = {}
  BY DEF Init, At
<1> QED BY <1>1, AtFinite, FS_EmptySet, AllGone, ThrottleAssumption DEF Init

\* A guess is counted as one that is tried until it is counted as a failure;
\* `check` lets one in only below the lockout.
LEMMA GuessesStep == TypeOK /\ GuessesBounded /\ [Next]_vars => GuessesBounded'
<1> SUFFICES ASSUME TypeOK, GuessesBounded, [Next]_vars, NEW e \in Emails
             PROVE  failures'[e].count + Cardinality(At("verify", e)')
                      <= LockoutAtAttempt - 2 + Cardinality(Requests)
  BY DEF GuessesBounded
<1> DEFINE N == Cardinality(At("verify", e))
<1>a. /\ N \in Nat /\ Cardinality(Requests) \in Nat
      /\ failures[e] \in Counter /\ failures[e].count \in Nat
      /\ failures[e].count = 0 => failures[e].ttl = 0
      /\ LockoutAtAttempt \in Nat
      /\ failures \in [Emails -> Counter]
      /\ failures[e].count + N <= LockoutAtAttempt - 2 + Cardinality(Requests)
  BY AtFinite, ThrottleAssumption DEF TypeOK, Counter, GuessesBounded
<1>b. Cardinality(At("verify", e)') \in Nat /\ Cardinality(At("verify", e)') <= Cardinality(Requests)
  <2>1. At("verify", e)' \subseteq Requests
    BY DEF At
  <2> QED BY <2>1, FS_Subset, FS_CardinalityType, ThrottleAssumption
<1>0. CASE UNCHANGED vars
  <2>1. At("verify", e)' = At("verify", e)
    BY <1>0 DEF vars, At
  <2> QED BY <1>0, <1>a, <2>1 DEF vars
<1>1. ASSUME NEW r \in Requests, NEW d \in Emails, Arrive(r, d)
      PROVE  failures' = failures /\ Cardinality(At("verify", e)') = N
  BY <1>1, Arrived DEF Arrive
<1>2. ASSUME NEW r \in Requests,
             Arm(r) \/ RefuseLocked(r) \/ RefuseDisabled(r) \/ Abort(r)
      PROVE  failures' = failures /\ Cardinality(At("verify", e)') <= N
  <2>1. \E to \in {"check", "idle"} : Goto(r, to)
    BY <1>2 DEF Arm, RefuseLocked, RefuseDisabled, Abort
  <2>2. email' = email /\ failures' = failures
    BY <1>2 DEF Arm, RefuseLocked, RefuseDisabled, Abort
  <2> QED BY <2>1, <2>2, <1>a, Moved
<1>3. ASSUME NEW r \in Requests, Pass(r)
      PROVE  \/ failures' = failures /\ Cardinality(At("verify", e)') = N
             \/ /\ failures' = failures
                /\ failures[e].count <= LockoutAtAttempt - 2
  <2>1. CASE email[r] = e
    BY <1>3, <2>1, <1>a DEF Pass, Locked
  <2>2. CASE email[r] # e
    BY <1>3, <2>2, Moved DEF Pass
  <2> QED BY <2>1, <2>2
<1>4. ASSUME NEW r \in Requests, RecordFailure(r)
      PROVE  failures'[e].count + Cardinality(At("verify", e)') = failures[e].count + N
  <2>1. Goto(r, "expire") /\ email' = email /\ pc[r] = "verify"
    BY <1>4 DEF RecordFailure
  <2>2. CASE email[r] = e
    <3>1. Cardinality(At("verify", e)') = N - 1
      BY <2>1, <2>2, Moved
    <3>2. failures'[e].count = failures[e].count + 1
      BY <1>4, <2>2, <1>a, CounterOps DEF RecordFailure
    <3> QED BY <3>1, <3>2, <1>a
  <2>3. CASE email[r] # e
    <3>1. At("verify", e)' = At("verify", e)
      BY <2>1, <2>3, Moved
    <3>2. failures'[e] = failures[e]
      BY <1>4, <2>3, <1>a DEF RecordFailure
    <3> QED BY <3>1, <3>2
  <2> QED BY <2>2, <2>3
<1>5. ASSUME NEW r \in Requests, Slide(r)
      PROVE  failures'[e].count = failures[e].count /\ Cardinality(At("verify", e)') = N
  <2>1. failures'[e].count = failures[e].count
    BY <1>5, <1>a, CounterOps DEF Slide
  <2> QED BY <1>5, <2>1, Moved DEF Slide
<1>6. ASSUME NEW r \in Requests, Reset(r)
      PROVE  failures'[e].count <= failures[e].count /\ Cardinality(At("verify", e)') <= N
  <2>1. failures'[e].count <= failures[e].count
    BY <1>6, <1>a, AllGone DEF Reset
  <2>2. Goto(r, "idle") /\ email' = email
    BY <1>6 DEF Reset
  <2> QED BY <2>1, <2>2, <1>a, Moved
<1>7. ASSUME \/ \E d \in Emails : FailuresAge(d)
             \/ WindowAges
             \/ RedisRestart
      PROVE  failures'[e].count <= failures[e].count /\ Cardinality(At("verify", e)') = N
  <2>1. At("verify", e)' = At("verify", e)
    BY <1>7 DEF FailuresAge, WindowAges, RedisRestart, At
  <2>2. failures'[e].count <= failures[e].count
    BY <1>7, <1>a, AllGone, CounterOps DEF FailuresAge, WindowAges, RedisRestart
  <2> QED BY <2>1, <2>2
<1>c. failures'[e].count \in Nat
  BY TypeStep DEF TypeOK, Counter
<1> HIDE DEF N
<1> QED BY <1>0, <1>1, <1>2, <1>3, <1>4, <1>5, <1>6, <1>7, <1>a, <1>b, <1>c
        DEF Next, Request

\* Between two clearings of its counter a pair gets LockoutAtAttempt - 1
\* guesses, and one for each further request in flight: for any thresholds
\* and any number of requests.
THEOREM GuessesAlwaysBounded == Spec => []GuessesBounded
BY TypeInit, TypeStep, GuessesInit, GuessesStep, PTL DEF Spec

-----------------------------------------------------------------------------
LEMMA ArmedInit == Init => CounterArmed
<1> SUFFICES ASSUME Init, NEW e \in Emails
             PROVE  failures[e].count <= lost[e] + Cardinality(At("expire", e))
  BY DEF CounterArmed
<1> QED BY AtFinite, AllGone DEF Init

\* A failure adds to the EXPIREs that are due what it adds to the counter. One
\* that is due becomes one that is lost, or arms the counter.
LEMMA ArmedStep == TypeOK /\ CounterArmed /\ [Next]_vars => CounterArmed'
<1> SUFFICES ASSUME TypeOK, CounterArmed, [Next]_vars, NEW e \in Emails,
                    failures'[e].ttl = 0
             PROVE  failures'[e].count <= lost'[e] + Cardinality(At("expire", e)')
  BY DEF CounterArmed
<1> DEFINE N == Cardinality(At("expire", e))
           M == Cardinality(At("expire", e)')
<1>a. /\ N \in Nat
      /\ failures[e] \in Counter /\ failures[e].count \in Nat
      /\ failures[e].count = 0 => failures[e].ttl = 0
      /\ failures \in [Emails -> Counter]
      /\ lost \in [Emails -> 0 .. MaxLost] /\ lost[e] \in Nat
      /\ failures[e].ttl \in Nat
      /\ failures[e].ttl = 0 => failures[e].count <= lost[e] + N
  BY AtFinite, ThrottleAssumption DEF TypeOK, Counter, CounterArmed
<1>b. M \in Nat /\ lost'[e] \in Nat /\ failures'[e].count \in Nat
  <2>1. At("expire", e)' \subseteq Requests
    BY DEF At
  <2>2. TypeOK'
    BY TypeStep
  <2> QED BY <2>1, <2>2, FS_Subset, FS_CardinalityType, ThrottleAssumption
          DEF TypeOK, Counter
<1>0. CASE UNCHANGED vars
  <2>1. M = N
    BY <1>0 DEF vars, At
  <2> QED BY <1>0, <1>a, <2>1 DEF vars
<1>1. ASSUME NEW r \in Requests, NEW d \in Emails, Arrive(r, d)
      PROVE  failures' = failures /\ lost' = lost /\ M = N
  BY <1>1, Arrived DEF Arrive
<1>2. ASSUME NEW r \in Requests,
             Arm(r) \/ Pass(r) \/ RefuseLocked(r) \/ RefuseDisabled(r)
      PROVE  failures' = failures /\ lost' = lost /\ M = N
  <2>1. \E to \in {"check", "verify", "idle"} : Goto(r, to)
    BY <1>2 DEF Arm, Pass, RefuseLocked, RefuseDisabled
  <2>2. /\ email' = email /\ failures' = failures /\ lost' = lost
        /\ pc[r] # "expire"
    BY <1>2 DEF Arm, Pass, RefuseLocked, RefuseDisabled
  <2> QED BY <2>1, <2>2, Moved
<1>3. ASSUME NEW r \in Requests, RecordFailure(r)
      PROVE  failures'[e].count <= lost'[e] + M
  <2>1. Goto(r, "expire") /\ email' = email /\ lost' = lost /\ pc[r] = "verify"
    BY <1>3 DEF RecordFailure
  <2>2. CASE email[r] = e
    <3>1. M = N + 1
      BY <2>1, <2>2, Moved
    <3>2. /\ failures'[e].count = failures[e].count + 1
          /\ failures'[e].ttl = failures[e].ttl
      BY <1>3, <2>2, <1>a, CounterOps DEF RecordFailure
    <3> QED BY <3>1, <3>2, <2>1, <1>a
  <2>3. CASE email[r] # e
    <3>1. M = N
      BY <2>1, <2>3, Moved
    <3>2. failures'[e] = failures[e]
      BY <1>3, <2>3, <1>a DEF RecordFailure
    <3> QED BY <3>1, <3>2, <2>1, <1>a
  <2> QED BY <2>2, <2>3
<1>4. ASSUME NEW r \in Requests, Slide(r)
      PROVE  failures'[e].count <= lost'[e] + M
  <2>1. Goto(r, "idle") /\ email' = email /\ lost' = lost /\ pc[r] = "expire"
    BY <1>4 DEF Slide
  <2>2. CASE email[r] = e
    <3>1. failures'[e] = Armed(failures[e])
      BY <1>4, <2>2, <1>a DEF Slide
    <3>2. failures'[e].count = 0
      BY <3>1, <1>a, CounterOps
    <3> QED BY <3>2, <1>b
  <2>3. CASE email[r] # e
    <3>1. M = N
      BY <2>1, <2>3, Moved
    <3>2. failures'[e] = failures[e]
      BY <1>4, <2>3, <1>a DEF Slide
    <3> QED BY <3>1, <3>2, <2>1, <1>a
  <2> QED BY <2>2, <2>3
<1>5. ASSUME NEW r \in Requests, Reset(r)
      PROVE  failures'[e].count <= lost'[e] + M
  <2>1. Goto(r, "idle") /\ email' = email /\ pc[r] = "verify"
    BY <1>5 DEF Reset
  <2>2. M = N
    BY <2>1, Moved
  <2>3. CASE email[r] = e
    <3>1. failures'[e].count = 0
      BY <1>5, <2>3, <1>a, AllGone DEF Reset
    <3> QED BY <3>1, <1>b
  <2>4. CASE email[r] # e
    <3>1. failures'[e] = failures[e] /\ lost'[e] = lost[e]
      BY <1>5, <2>4, <1>a DEF Reset
    <3> QED BY <3>1, <2>2, <1>a
  <2> QED BY <2>3, <2>4
<1>6. ASSUME NEW r \in Requests, Abort(r)
      PROVE  failures'[e].count <= lost'[e] + M
  <2>1. Goto(r, "idle") /\ email' = email /\ failures' = failures
    BY <1>6 DEF Abort
  <2>2. CASE pc[r] = "expire" /\ email[r] = e
    <3>1. M = N - 1
      BY <2>1, <2>2, Moved
    <3>2. lost'[e] = lost[e] + 1
      BY <1>6, <2>2, <1>a DEF Abort
    <3> QED BY <3>1, <3>2, <2>1, <1>a
  <2>3. CASE ~(pc[r] = "expire" /\ email[r] = e)
    <3>1. M = N
      BY <2>1, <2>3, Moved
    <3>2. lost'[e] = lost[e]
      BY <1>6, <2>3, <1>a DEF Abort
    <3> QED BY <3>1, <3>2, <2>1, <1>a
  <2> QED BY <2>2, <2>3
<1>7. ASSUME NEW d \in Emails, FailuresAge(d)
      PROVE  failures'[e].count <= lost'[e] + M
  <2>1. M = N
    BY <1>7 DEF FailuresAge, At
  <2>2. CASE d = e
    <3>1. failures[e].ttl > 0 /\ failures'[e] = Older(failures[e])
      BY <1>7, <2>2, <1>a DEF FailuresAge
    <3>2. failures'[e].count = 0
      BY <3>1, <1>a, CounterOps
    <3> QED BY <3>2, <1>b
  <2>3. CASE d # e
    <3>1. failures'[e] = failures[e] /\ lost'[e] = lost[e]
      BY <1>7, <2>3, <1>a DEF FailuresAge
    <3> QED BY <3>1, <2>1, <1>a
  <2> QED BY <2>2, <2>3
<1>8. CASE WindowAges
  <2>1. M = N
    BY <1>8 DEF WindowAges, At
  <2> QED BY <2>1, <1>8, <1>a DEF WindowAges
<1>9. CASE RedisRestart
  <2>1. failures'[e].count = 0
    BY <1>9, AllGone DEF RedisRestart
  <2> QED BY <2>1, <1>b
<1> HIDE DEF N
<1> QED BY <1>0, <1>1, <1>2, <1>3, <1>4, <1>5, <1>6, <1>7, <1>8, <1>9, <1>a
        DEF Next, Request

\* A counter of failures is without an expiry only if every failure in it still
\* waits for its EXPIRE or lost it.
THEOREM CounterArmedAlways == Spec => []CounterArmed
BY TypeInit, TypeStep, ArmedInit, ArmedStep, PTL DEF Spec

-----------------------------------------------------------------------------
LEMMA WindowInit == Init => WindowArmed
BY AllGone DEF Init, WindowArmed

\* The request that finds the key absent is at "arm" until it has armed it.
LEMMA WindowStep == TypeOK /\ WindowArmed /\ [Next]_vars => WindowArmed'
<1> SUFFICES ASSUME TypeOK, WindowArmed, [Next]_vars,
                    window'.count > 0, window'.ttl = 0
             PROVE  unarmed' \/ \E r \in Requests : pc'[r] = "arm"
  BY DEF WindowArmed
<1>a. /\ window \in Counter /\ window.count \in Nat /\ window.ttl \in Nat
      /\ window.count = 0 => window.ttl = 0
      /\ pc \in [Requests -> Labels]
      /\ window.count > 0 /\ window.ttl = 0 =>
            unarmed \/ \E r \in Requests : pc[r] = "arm"
  BY ThrottleAssumption DEF TypeOK, Counter, WindowArmed
<1>0. CASE UNCHANGED vars
  BY <1>0, <1>a DEF vars
<1>1. ASSUME NEW r \in Requests, NEW e \in Emails, Arrive(r, e)
      PROVE  unarmed' \/ \E q \in Requests : pc'[q] = "arm"
  <2>1. CASE window.count = 0
    BY <1>1, <2>1, <1>a, ThrottleAssumption DEF Arrive, Goto
  <2>2. CASE window.count > 0
    <3>1. window.ttl = 0
      BY <1>1, <1>a, CounterOps DEF Arrive
    <3>2. \A q \in Requests : pc[q] = "arm" => pc'[q] = "arm"
      BY <1>1, <1>a DEF Arrive, Goto
    <3> QED BY <1>1, <1>a, <2>2, <3>1, <3>2 DEF Arrive
  <2> QED BY <1>a, <2>1, <2>2
<1>2. ASSUME NEW r \in Requests, Arm(r) PROVE FALSE
  <2>1. window' = Armed(window)
    BY <1>2 DEF Arm
  <2> QED BY <2>1, <1>a, CounterOps
<1>3. ASSUME NEW r \in Requests,
             \/ Pass(r) \/ RefuseLocked(r) \/ RecordFailure(r)
             \/ Slide(r) \/ RefuseDisabled(r) \/ Reset(r)
      PROVE  unarmed' \/ \E q \in Requests : pc'[q] = "arm"
  <2>1. window' = window /\ unarmed' = unarmed /\ pc[r] # "arm"
    BY <1>3 DEF Pass, RefuseLocked, RecordFailure, Slide, RefuseDisabled, Reset
  <2>2. \A q \in Requests \ {r} : pc'[q] = pc[q]
    BY <1>3, <1>a DEF Pass, RefuseLocked, RecordFailure, Slide, RefuseDisabled,
                      Reset, Goto
  <2> QED BY <1>a, <2>1, <2>2
<1>4. ASSUME NEW r \in Requests, Abort(r)
      PROVE  unarmed' \/ \E q \in Requests : pc'[q] = "arm"
  <2>1. window' = window /\ unarmed' = (unarmed \/ pc[r] = "arm")
    BY <1>4 DEF Abort
  <2>2. \A q \in Requests \ {r} : pc'[q] = pc[q]
    BY <1>4, <1>a DEF Abort, Goto
  <2> QED BY <1>a, <2>1, <2>2
<1>5. ASSUME NEW e \in Emails, FailuresAge(e)
      PROVE  unarmed' \/ \E q \in Requests : pc'[q] = "arm"
  BY <1>5, <1>a DEF FailuresAge
<1>6. CASE WindowAges
  <2>1. window.ttl > 0 /\ window' = Older(window)
    BY <1>6 DEF WindowAges
  <2> QED BY <2>1, <1>a, CounterOps
<1>7. CASE RedisRestart
  BY <1>7, AllGone DEF RedisRestart
<1> QED BY <1>0, <1>1, <1>2, <1>3, <1>4, <1>5, <1>6, <1>7 DEF Next, Request

\* The window of the rate limiter is without an expiry only while the first
\* request of it has not armed it, or never will.
THEOREM WindowArmedAlways == Spec => []WindowArmed
BY TypeInit, TypeStep, WindowInit, WindowStep, PTL DEF Spec
=============================================================================
