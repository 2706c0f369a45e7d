------------------------------- MODULE Outbox -------------------------------
(***************************************************************************)
(* The transactional e-mail outbox: rows inserted by the request that needs *)
(* a mail, and dispatch_outbox, the job that arq starts every minute and    *)
(* that sends them. Several runs of the job may overlap (a slow run and the *)
(* next minute's, several worker replicas, a manual trigger).               *)
(*                                                                          *)
(* Each message has a transaction of its own: claim FOR UPDATE SKIP LOCKED, *)
(* call the provider, write the outcome, commit. A run is split there,      *)
(* because a crash, a cancelled job or a failed commit can come in between. *)
(*                                                                          *)
(* claim_due takes due rows in the order of send_after, which is the order  *)
(* in which they became due: `due` is that order, and time itself is left   *)
(* out.                                                                     *)
(*                                                                          *)
(* History: `delivered` counts what the provider accepted, `unrecorded`     *)
(* those of them that no commit recorded.                                   *)
(***************************************************************************)
EXTENDS Naturals, SequencesExt

CONSTANTS
    Messages,       \* ids of rows of email_outbox
    Runs,           \* overlapping runs of dispatch_outbox
    MaxAttempts,    \* MAX_OUTBOX_ATTEMPTS
    BatchSize,      \* BATCH_SIZE
    MaxLost,        \* bound on transactions lost to crashes and cancellations
    Nil

ASSUME AttemptsAssumption == MaxAttempts \in Nat \ {0}
ASSUME BatchAssumption == BatchSize \in Nat \ {0}
ASSUME LostAssumption == MaxLost \in Nat
ASSUME OutboxNilAssumption == Nil \notin Messages \cup Runs

VARIABLES
    rows,           \* email_outbox
    due,            \* pending messages whose send_after has come, oldest first
    pc, claimed,    \* where a run is, the row it holds locked
    budget,         \* messages the run may still take
    lost,           \* transactions lost so far
    delivered, unrecorded

history == <<delivered, unrecorded>>
vars == <<rows, due, pc, claimed, budget, lost, history>>

Row == [status: {"absent", "pending", "sent", "failed"},
        attempt_count: Nat, redacted: BOOLEAN]

Labels == {"idle", "claim", "send", "save_sent", "save_failed"}

-----------------------------------------------------------------------------
\* EmailOutboxRepository.add, with the transaction it is part of.
Enqueue(m) ==
    /\ rows[m].status = "absent"
    /\ rows' = [rows EXCEPT ![m] =
         [status |-> "pending", attempt_count |-> 0, redacted |-> FALSE]]
    /\ due' = Append(due, m)
    /\ UNCHANGED <<pc, claimed, budget, lost, history>>

\* send_after comes for a message that was rescheduled.
BecomesDue(m) ==
    /\ rows[m].status = "pending"
    /\ ~Contains(due, m)
    /\ due' = Append(due, m)
    /\ UNCHANGED <<rows, pc, claimed, budget, lost, history>>

\* arq's cron starts a run.
Start(w) ==
    /\ pc[w] = "idle"
    /\ pc' = [pc EXCEPT ![w] = "claim"]
    /\ budget' = [budget EXCEPT ![w] = BatchSize]
    /\ UNCHANGED <<rows, due, claimed, lost, history>>

\* Fault: rows another run holds are not skipped (and not waited for).
ClaimableUnlocked(m) == rows[m].status = "pending"

\* FOR UPDATE SKIP LOCKED: due, pending and in nobody's hands.
Claimable(m) ==
    /\ rows[m].status = "pending"
    /\ \A w \in Runs : claimed[w] # m

\* The first of them in the order of send_after.
TakeFirst(w, i) ==
    /\ pc[w] = "claim"
    /\ Claimable(due[i])
    /\ \A j \in 1 .. (i - 1) : ~Claimable(due[j])
    /\ claimed' = [claimed EXCEPT ![w] = due[i]]
    /\ pc' = [pc EXCEPT ![w] = "send"]
    /\ UNCHANGED <<rows, due, budget, lost, history>>

\* claim_due with limit=1, at most BATCH_SIZE times.
Claim(w, i) == budget[w] > 0 /\ TakeFirst(w, i)

\* Fault: the oldest due row is picked before its lock is tried.
ReturnAtOldest(w) ==
    /\ pc[w] = "claim"
    /\ budget[w] = 0 \/ \A i \in DOMAIN due : i = 1 => ~Claimable(due[i])
    /\ pc' = [pc EXCEPT ![w] = "idle"]
    /\ UNCHANGED <<rows, due, claimed, budget, lost, history>>

\* Nothing to claim, or a whole batch was processed.
Return(w) ==
    /\ pc[w] = "claim"
    /\ budget[w] = 0 \/ \A i \in DOMAIN due : ~Claimable(due[i])
    /\ pc' = [pc EXCEPT ![w] = "idle"]
    /\ UNCHANGED <<rows, due, claimed, budget, lost, history>>

\* provider.send returns.
SendAccepted(w) ==
    /\ pc[w] = "send"
    /\ delivered' = [delivered EXCEPT ![claimed[w]] = @ + 1]
    /\ pc' = [pc EXCEPT ![w] = "save_sent"]
    /\ UNCHANGED <<rows, due, claimed, budget, lost, unrecorded>>

\* provider.send raises: the message was refused, or it was accepted and the
\* answer came too late.
SendRaised(w) ==
    /\ pc[w] = "send"
    /\ \/ UNCHANGED history
       \/ /\ delivered' = [delivered EXCEPT ![claimed[w]] = @ + 1]
          /\ unrecorded' = [unrecorded EXCEPT ![claimed[w]] = @ + 1]
    /\ pc' = [pc EXCEPT ![w] = "save_failed"]
    /\ UNCHANGED <<rows, due, claimed, budget, lost>>

\* EmailOutboxMessage.mark_sent
MarkSent(row) == [row EXCEPT !.status = "sent", !.redacted = TRUE]

\* Fault: the attempt is not counted.
MarkFailedUncounted(row) ==
    IF row.attempt_count >= MaxAttempts
    THEN [row EXCEPT !.status = "failed", !.redacted = TRUE]
    ELSE row

\* Fault: one attempt too many.
MarkFailedLate(row) ==
    LET counted == [row EXCEPT !.attempt_count = @ + 1] IN
    IF counted.attempt_count > MaxAttempts
    THEN [counted EXCEPT !.status = "failed", !.redacted = TRUE]
    ELSE counted

\* EmailOutboxMessage.mark_failed
MarkFailed(row) ==
    LET counted == [row EXCEPT !.attempt_count = @ + 1] IN
    IF counted.attempt_count >= MaxAttempts
    THEN [counted EXCEPT !.status = "failed", !.redacted = TRUE]
    ELSE counted

\* The transaction ends and the loop goes round.
NextMessage(w) ==
    /\ claimed' = [claimed EXCEPT ![w] = Nil]
    /\ budget' = [budget EXCEPT ![w] = @ - 1]
    /\ pc' = [pc EXCEPT ![w] = "claim"]
    /\ UNCHANGED <<lost, history>>

\* Fault: the changed entity, which is a copy of the row, is not written back.
SaveForgotten(w, row) == NextMessage(w) /\ UNCHANGED <<rows, due>>

\* EmailOutboxRepository.save and the commit. A message that failed for good or
\* was sent is no longer pending; one that is to be retried is no longer due.
Save(w, row) ==
    /\ rows' = [rows EXCEPT ![claimed[w]] = row]
    /\ \E i \in DOMAIN due : due[i] = claimed[w] /\ due' = RemoveAt(due, i)
    /\ NextMessage(w)

SaveSent(w) == pc[w] = "save_sent" /\ Save(w, MarkSent(rows[claimed[w]]))

SaveFailed(w) == pc[w] = "save_failed" /\ Save(w, MarkFailed(rows[claimed[w]]))

\* The process dies, arq cancels the job at its time-out, or the commit fails:
\* the transaction rolls back, and with it whatever it was about to record.
Lose(w) ==
    /\ pc[w] # "idle"
    /\ lost < MaxLost
    /\ lost' = lost + 1
    /\ unrecorded' = IF pc[w] = "save_sent"
                     THEN [unrecorded EXCEPT ![claimed[w]] = @ + 1] ELSE unrecorded
    /\ claimed' = [claimed EXCEPT ![w] = Nil]
    /\ pc' = [pc EXCEPT ![w] = "idle"]
    /\ UNCHANGED <<rows, due, budget, delivered>>

Init ==
    /\ rows = [m \in Messages |->
         [status |-> "absent", attempt_count |-> 0, redacted |-> FALSE]]
    /\ due = << >>
    /\ pc = [w \in Runs |-> "idle"]
    /\ claimed = [w \in Runs |-> Nil]
    /\ budget = [w \in Runs |-> 0]
    /\ lost = 0
    /\ delivered = [m \in Messages |-> 0]
    /\ unrecorded = [m \in Messages |-> 0]

Step(w) ==
    \/ Start(w)
    \/ \E i \in DOMAIN due : Claim(w, i)
    \/ Return(w)
    \/ SendAccepted(w) \/ SendRaised(w)
    \/ SaveSent(w) \/ SaveFailed(w)

Next ==
    \/ \E m \in Messages : Enqueue(m) \/ BecomesDue(m)
    \/ \E w \in Runs : Step(w) \/ Lose(w)

Spec == Init /\ [][Next]_vars

\* The cron fires every minute and at start-up, a dead worker is restarted, the
\* provider answers or raises, and time passes.
FairSpec ==
    /\ Spec
    /\ \A w \in Runs : WF_vars(Step(w))
    /\ \A m \in Messages : WF_vars(BecomesDue(m))

-----------------------------------------------------------------------------
(* Properties                                                               *)

\* Every variable has its type.
TypeOK ==
    /\ rows \in [Messages -> Row]
    /\ due \in Seq(Messages)
    /\ pc \in [Runs -> Labels]
    /\ claimed \in [Runs -> Messages \cup {Nil}]
    /\ budget \in [Runs -> Nat]
    /\ lost \in Nat
    /\ delivered \in [Messages -> Nat]
    /\ unrecorded \in [Messages -> Nat]

\* What a run is about to send is pending, still has its payload and is in no
\* other run's hands (claim_due, repositories.py:54-69).
ClaimsAreExclusive ==
    \A w \in Runs : claimed[w] # Nil =>
        /\ rows[claimed[w]].status = "pending"
        /\ ~rows[claimed[w]].redacted
        /\ \A v \in Runs \ {w} : claimed[v] # claimed[w]

\* A message is delivered twice only if a delivery went unrecorded: a commit lost
\* after the provider accepted, or an answer that came too late
\* (outbox.py:20-24). A message marked sent was delivered.
DeliveredOnceUnlessUnrecorded ==
    \A m \in Messages :
        /\ delivered[m] <= unrecorded[m] + 1
        /\ rows[m].status = "sent" => delivered[m] = unrecorded[m] + 1

\* The raw token in the payload goes exactly when the row can no longer be sent,
\* and failing for good takes MAX_OUTBOX_ATTEMPTS recorded failures
\* (entities.py:29-59).
RedactedWhenSettled ==
    \A m \in Messages :
        /\ rows[m].redacted <=> rows[m].status \in {"sent", "failed"}
        /\ rows[m].status = "failed" <=> rows[m].attempt_count = MaxAttempts

\* A run passes over the j-th due message: it ends before its batch is full, or
\* it takes a message that became due later.
PassesOver(w, j) ==
    \/ pc[w] = "claim" /\ pc'[w] = "idle" /\ budget[w] > 0 /\ lost' = lost
    \/ claimed[w] = Nil /\ \E i \in DOMAIN due : j < i /\ claimed'[w] = due[i]

\* A due message is passed over only while another run is sending it: SKIP LOCKED
\* never hides a message for good, and none starves behind younger ones
\* (outbox.py:43, repositories.py:54-69).
PassedOverOnlyIfHeld ==
    [][\A w \in Runs, j \in DOMAIN due :
         PassesOver(w, j) => \E v \in Runs \ {w} : claimed[v] = due[j]]_vars

\* Every message is sent or failed for good, unless transactions are lost for
\* ever: no message is stuck behind others or in a dead run's hands.
EventuallySettled ==
    \A m \in Messages :
        rows[m].status = "pending" ~> rows[m].status \in {"sent", "failed"}

=============================================================================
