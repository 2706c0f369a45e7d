-------------------------- MODULE MfaFactorProofs --------------------------
(* The second factor keeps its promise: MfaFactor implements OneTimeFactor   *)
(* for any number of requests, secrets and recovery codes.                   *)
EXTENDS MfaFactor, FiniteSetTheorems, TLAPS

\* What a request has to be able to rely on between a lock and its commit.
RequestInv(r) ==
    /\ pc[r] \in {"confirm_commit", "verify_commit", "verify_code",
                  "redeem_commit"} => cred_lock = r
    /\ pc[r] \in {"setup_insert", "setup_update", "confirm_commit"} =>
          ctx[r].secret \in Secrets
    /\ pc[r] = "confirm_commit" => credential.present /\ ~credential.enabled
    /\ pc[r] \in {"confirm_commit", "verify_commit"} =>
          ctx[r].step \in Steps /\ credential.last_step < ctx[r].step
    /\ pc[r] = "verify_commit" => credential.enabled
    /\ pc[r] \in {"verify_code", "redeem_commit"} => ctx[r].code \in CodeIds
    /\ pc[r] = "redeem_commit" => codes[ctx[r].code] = "unused"
    /\ pc[r] = "regen_insert" => ctx[r].deleting \subseteq Unused

\* The rows one transaction is deleting are nobody else's.
Exclusive(r, q) ==
    r # q /\ pc[q] = "regen_insert" =>
        /\ pc[r] = "redeem_commit" => ctx[r].code \notin ctx[q].deleting
        /\ pc[r] = "regen_insert" => ctx[r].deleting \cap ctx[q].deleting = {}

\* The mark is above every step accepted, and there is none before enrolment.
RowInv ==
    /\ credential.enabled => credential.present
    /\ ~credential.enabled => credential.last_step = 0
    /\ \A s \in accepted : s <= credential.last_step

FactorInv ==
    /\ TypeOK
    /\ \A r \in Requests : RequestInv(r)
    /\ \A r, q \in Requests : Exclusive(r, q)
    /\ RowInv

LEMMA StepsAreNat == Steps \subseteq Nat \ {0}
BY ClockAssumption DEF Steps, Window

LEMMA ContextTyped ==
    /\ Blank \in Context
    /\ \A s \in Secrets : [Blank EXCEPT !.secret = s] \in Context
    /\ \A t \in Steps : [Blank EXCEPT !.step = t] \in Context
    /\ \A s \in Secrets, t \in Steps :
         [Blank EXCEPT !.secret = s, !.step = t] \in Context
    /\ \A c \in CodeIds : [Blank EXCEPT !.code = c] \in Context
    /\ \A d \in SUBSET CodeIds : [Blank EXCEPT !.deleting = d] \in Context
    /\ \A x \in Context, d \in SUBSET CodeIds :
         [x EXCEPT !.deleting = d] \in Context
BY StepsAreNat DEF Blank, Context

LEMMA InitInv == Init => FactorInv
<1> SUFFICES ASSUME Init PROVE FactorInv
  OBVIOUS
<1> USE DEF Init
<1>1. TypeOK
  <2>1. credential \in Credential
    BY DEF Credential
  <2>2. clock \in Nat /\ grants \in Nat
    BY DEF Window
  <2>3. QED
    BY <2>1, <2>2, ContextTyped DEF TypeOK, Code, Labels
<1>2. \A r \in Requests : RequestInv(r)
  BY DEF RequestInv
<1>3. \A r, q \in Requests : Exclusive(r, q)
  BY DEF Exclusive
<1>4. RowInv
  BY DEF RowInv
<1>5. QED
  BY <1>1, <1>2, <1>3, <1>4 DEF FactorInv

LEMMA SetupReadInv ==
    ASSUME FactorInv, NEW r \in Requests, NEW s \in Secrets, SetupRead(r, s)
    PROVE  FactorInv'
<1> USE DEF FactorInv
<1>1. TypeOK'
  BY StepsAreNat, ContextTyped DEF SetupRead, Go, FreshSecret, TypeOK,
     RequestInv, rows, history, Credential, Context, Code, Labels, Unused
<1>2. \A q \in Requests : RequestInv(q)'
  BY StepsAreNat, FactorNilAssumption DEF SetupRead, Go, FreshSecret,
     TypeOK, RequestInv, Exclusive, RowInv, CodeHeld, HoldsCode, rows, Credential,
     Context, Blank, Unused
<1>3. \A p, q \in Requests : Exclusive(p, q)'
  BY FactorNilAssumption DEF SetupRead, Go, FreshSecret, TypeOK, RequestInv,
     Exclusive, CodeHeld, HoldsCode, Context, Blank
<1>4. RowInv'
  BY StepsAreNat DEF SetupRead, Go, FreshSecret, TypeOK, RequestInv, RowInv,
     rows, history, Credential
<1>5. QED
  BY <1>1, <1>2, <1>3, <1>4

LEMMA SetupInsertInv ==
    ASSUME FactorInv, NEW r \in Requests, SetupInsert(r)
    PROVE  FactorInv'
<1> USE DEF FactorInv
<1>1. TypeOK'
  BY StepsAreNat, ContextTyped DEF SetupInsert, Finish, Go, NewCredential,
     TypeOK, RequestInv, rows, history, Credential, Context, Code, Labels,
     Unused
<1>2. \A q \in Requests : RequestInv(q)'
  BY StepsAreNat, FactorNilAssumption DEF SetupInsert, Finish, Go,
     NewCredential, TypeOK, RequestInv, Exclusive, RowInv, CodeHeld, HoldsCode, rows,
     Credential, Context, Blank, Unused
<1>3. \A p, q \in Requests : Exclusive(p, q)'
  BY FactorNilAssumption DEF SetupInsert, Finish, Go, NewCredential, TypeOK,
     RequestInv, Exclusive, CodeHeld, HoldsCode, Context, Blank
<1>4. RowInv'
  BY StepsAreNat DEF SetupInsert, Finish, Go, NewCredential, TypeOK,
     RequestInv, RowInv, rows, history, Credential
<1>5. QED
  BY <1>1, <1>2, <1>3, <1>4

LEMMA SetupUpdateInv ==
    ASSUME FactorInv, NEW r \in Requests, SetupUpdate(r)
    PROVE  FactorInv'
<1> USE DEF FactorInv
<1>1. TypeOK'
  BY StepsAreNat, ContextTyped DEF SetupUpdate, Finish, Go, TypeOK,
     RequestInv, rows, history, Credential, Context, Code, Labels, Unused
<1>2. \A q \in Requests : RequestInv(q)'
  BY StepsAreNat, FactorNilAssumption DEF SetupUpdate, Finish, Go, TypeOK,
     RequestInv, Exclusive, RowInv, CodeHeld, HoldsCode, rows, Credential, Context,
     Blank, Unused
<1>3. \A p, q \in Requests : Exclusive(p, q)'
  BY FactorNilAssumption DEF SetupUpdate, Finish, Go, TypeOK, RequestInv,
     Exclusive, CodeHeld, HoldsCode, Context, Blank
<1>4. RowInv'
  BY StepsAreNat DEF SetupUpdate, Finish, Go, TypeOK, RequestInv, RowInv,
     rows, history, Credential
<1>5. QED
  BY <1>1, <1>2, <1>3, <1>4

LEMMA ConfirmLockInv ==
    ASSUME FactorInv, NEW r \in Requests, NEW t \in Steps, ConfirmLock(r, t)
    PROVE  FactorInv'
<1> USE DEF FactorInv
<1>1. TypeOK'
  <2>1. credential.secret \in Secrets
    BY DEF ConfirmLock, TypeOK
  <2>2. [Blank EXCEPT !.secret = credential.secret, !.step = t] \in Context
    BY <2>1, ContextTyped
  <2>3. pc' \in [Requests -> Labels] /\ ctx' \in [Requests -> Context]
    BY <2>2 DEF ConfirmLock, Go, TypeOK, Labels
  <2>4. cred_lock' \in Requests \cup {Nil}
    BY DEF ConfirmLock, LockCredential
  <2>5. QED
    BY <2>3, <2>4 DEF ConfirmLock, TypeOK, rows, history
<1>2. \A q \in Requests : RequestInv(q)'
  BY StepsAreNat, FactorNilAssumption DEF ConfirmLock, Go, LockCredential,
     Matches, TypeOK, RequestInv, Exclusive, RowInv, CodeHeld, HoldsCode, rows,
     Credential, Context, Blank, Unused
<1>3. \A p, q \in Requests : Exclusive(p, q)'
  BY FactorNilAssumption DEF ConfirmLock, Go, LockCredential, Matches,
     TypeOK, RequestInv, Exclusive, CodeHeld, HoldsCode, Context, Blank
<1>4. RowInv'
  BY StepsAreNat DEF ConfirmLock, Go, LockCredential, Matches, TypeOK,
     RequestInv, RowInv, rows, history, Credential
<1>5. QED
  BY <1>1, <1>2, <1>3, <1>4

LEMMA ConfirmCommitInv ==
    ASSUME FactorInv, NEW r \in Requests, NEW new \in SUBSET CodeIds, ConfirmCommit(r, new)
    PROVE  FactorInv'
<1> USE DEF FactorInv
<1>1. TypeOK'
  <2> USE DEF ConfirmCommit
  <2>1. credential' \in Credential /\ (credential.present => credential.secret \in Secrets)'
    BY StepsAreNat DEF TypeOK, RequestInv, RecordStep, Credential, rows
  <2>2. codes' \in [CodeIds -> Code]
    BY DEF TypeOK, Code, ReplaceCodes, RequestInv, rows
  <2>3. pc' \in [Requests -> Labels] /\ ctx' \in [Requests -> Context]
    BY StepsAreNat, ContextTyped DEF TypeOK, Finish, Go, Labels, StillUnused
  <2>4. cred_lock' \in Requests \cup {Nil} /\ clock' \in Nat
    BY DEF TypeOK, Finish
  <2>5. accepted' \subseteq Steps /\ grants' \in Nat /\ proven' \subseteq Secrets
    BY DEF TypeOK, RequestInv, history
  <2>6. QED
    BY <2>1, <2>2, <2>3, <2>4, <2>5 DEF TypeOK
<1>2. \A q \in Requests : RequestInv(q)'
  BY StepsAreNat, FactorNilAssumption DEF ConfirmCommit, Finish, Go,
     FreshSet, RecordStep, ReplaceCodes, TypeOK, RequestInv, Exclusive,
     RowInv, CodeHeld, HoldsCode, rows, Credential, Context, Blank, Unused
<1>3. \A p, q \in Requests : Exclusive(p, q)'
  BY FactorNilAssumption DEF ConfirmCommit, Finish, Go, FreshSet,
     RecordStep, ReplaceCodes, TypeOK, RequestInv, Exclusive, CodeHeld, HoldsCode,
     Context, Blank
<1>4. RowInv'
  BY StepsAreNat DEF ConfirmCommit, Finish, Go, FreshSet, RecordStep,
     ReplaceCodes, TypeOK, RequestInv, RowInv, rows, history, Credential
<1>5. QED
  BY <1>1, <1>2, <1>3, <1>4

LEMMA VerifyTotpInv ==
    ASSUME FactorInv, NEW r \in Requests, NEW t \in Steps, VerifyTotp(r, t)
    PROVE  FactorInv'
<1> USE DEF FactorInv
<1>1. TypeOK'
  BY StepsAreNat, ContextTyped DEF VerifyTotp, Go, LockCredential, Matches,
     Replayed, TypeOK, RequestInv, rows, history, Credential, Context, Code,
     Labels, Unused
<1>2. \A q \in Requests : RequestInv(q)'
  BY StepsAreNat, FactorNilAssumption DEF VerifyTotp, Go, LockCredential,
     Matches, Replayed, TypeOK, RequestInv, Exclusive, RowInv, CodeHeld, HoldsCode,
     rows, Credential, Context, Blank, Unused
<1>3. \A p, q \in Requests : Exclusive(p, q)'
  BY FactorNilAssumption DEF VerifyTotp, Go, LockCredential, Matches,
     Replayed, TypeOK, RequestInv, Exclusive, CodeHeld, HoldsCode, Context, Blank
<1>4. RowInv'
  BY StepsAreNat DEF VerifyTotp, Go, LockCredential, Matches, Replayed,
     TypeOK, RequestInv, RowInv, rows, history, Credential
<1>5. QED
  BY <1>1, <1>2, <1>3, <1>4

LEMMA VerifyCommitInv ==
    ASSUME FactorInv, NEW r \in Requests, VerifyCommit(r)
    PROVE  FactorInv'
<1> USE DEF FactorInv
<1>1. TypeOK'
  <2> USE DEF VerifyCommit
  <2>1. credential' \in Credential /\ (credential.present => credential.secret \in Secrets)'
    BY StepsAreNat DEF TypeOK, RequestInv, RecordStep, Credential, rows
  <2>2. codes' \in [CodeIds -> Code]
    BY DEF TypeOK, Code, ReplaceCodes, RequestInv, rows
  <2>3. pc' \in [Requests -> Labels] /\ ctx' \in [Requests -> Context]
    BY StepsAreNat, ContextTyped DEF TypeOK, Finish, Go, Labels, StillUnused
  <2>4. cred_lock' \in Requests \cup {Nil} /\ clock' \in Nat
    BY DEF TypeOK, Finish
  <2>5. accepted' \subseteq Steps /\ grants' \in Nat /\ proven' \subseteq Secrets
    BY DEF TypeOK, RequestInv, history
  <2>6. QED
    BY <2>1, <2>2, <2>3, <2>4, <2>5 DEF TypeOK
<1>2. \A q \in Requests : RequestInv(q)'
  BY StepsAreNat, FactorNilAssumption DEF VerifyCommit, Finish, Go,
     RecordStep, TypeOK, RequestInv, Exclusive, RowInv, CodeHeld, HoldsCode, rows,
     Credential, Context, Blank, Unused
<1>3. \A p, q \in Requests : Exclusive(p, q)'
  BY FactorNilAssumption DEF VerifyCommit, Finish, Go, RecordStep, TypeOK,
     RequestInv, Exclusive, CodeHeld, HoldsCode, Context, Blank
<1>4. RowInv'
  BY StepsAreNat DEF VerifyCommit, Finish, Go, RecordStep, TypeOK,
     RequestInv, RowInv, rows, history, Credential
<1>5. QED
  BY <1>1, <1>2, <1>3, <1>4

LEMMA VerifyRecoveryInv ==
    ASSUME FactorInv, NEW r \in Requests, NEW c \in CodeIds, VerifyRecovery(r, c)
    PROVE  FactorInv'
<1> USE DEF FactorInv
<1>1. TypeOK'
  BY StepsAreNat, ContextTyped DEF VerifyRecovery, Go, LockCredential,
     TypeOK, RequestInv, rows, history, Credential, Context, Code, Labels,
     Unused
<1>2. \A q \in Requests : RequestInv(q)'
  BY StepsAreNat, FactorNilAssumption DEF VerifyRecovery, Go,
     LockCredential, TypeOK, RequestInv, Exclusive, RowInv, CodeHeld, HoldsCode, rows,
     Credential, Context, Blank, Unused
<1>3. \A p, q \in Requests : Exclusive(p, q)'
  BY FactorNilAssumption DEF VerifyRecovery, Go, LockCredential, TypeOK,
     RequestInv, Exclusive, CodeHeld, HoldsCode, Context, Blank
<1>4. RowInv'
  BY StepsAreNat DEF VerifyRecovery, Go, LockCredential, TypeOK, RequestInv,
     RowInv, rows, history, Credential
<1>5. QED
  BY <1>1, <1>2, <1>3, <1>4

LEMMA LockCodeInv ==
    ASSUME FactorInv, NEW r \in Requests, LockCode(r)
    PROVE  FactorInv'
<1> USE DEF FactorInv
<1>1. TypeOK'
  BY StepsAreNat, ContextTyped DEF LockCode, Go, TypeOK, RequestInv, rows,
     history, Credential, Context, Code, Labels, Unused
<1>2. \A q \in Requests : RequestInv(q)'
  BY StepsAreNat, FactorNilAssumption DEF LockCode, Go, TypeOK, RequestInv,
     Exclusive, RowInv, CodeHeld, HoldsCode, rows, Credential, Context, Blank, Unused
<1>3. \A p, q \in Requests : Exclusive(p, q)'
  BY FactorNilAssumption DEF LockCode, Go, TypeOK, RequestInv, Exclusive,
     CodeHeld, HoldsCode, Context, Blank
<1>4. RowInv'
  BY StepsAreNat DEF LockCode, Go, TypeOK, RequestInv, RowInv, rows,
     history, Credential
<1>5. QED
  BY <1>1, <1>2, <1>3, <1>4

LEMMA RedeemCommitInv ==
    ASSUME FactorInv, NEW r \in Requests, RedeemCommit(r)
    PROVE  FactorInv'
<1> USE DEF FactorInv
<1>1. TypeOK'
  <2> USE DEF RedeemCommit
  <2>1. credential' \in Credential /\ (credential.present => credential.secret \in Secrets)'
    BY StepsAreNat DEF TypeOK, RequestInv, RecordStep, Credential, rows
  <2>2. codes' \in [CodeIds -> Code]
    BY DEF TypeOK, Code, ReplaceCodes, RequestInv, rows
  <2>3. pc' \in [Requests -> Labels] /\ ctx' \in [Requests -> Context]
    BY StepsAreNat, ContextTyped DEF TypeOK, Finish, Go, Labels, StillUnused
  <2>4. cred_lock' \in Requests \cup {Nil} /\ clock' \in Nat
    BY DEF TypeOK, Finish
  <2>5. accepted' \subseteq Steps /\ grants' \in Nat /\ proven' \subseteq Secrets
    BY DEF TypeOK, RequestInv, history
  <2>6. QED
    BY <2>1, <2>2, <2>3, <2>4, <2>5 DEF TypeOK
<1>2. \A q \in Requests : RequestInv(q)'
  BY StepsAreNat, FactorNilAssumption DEF RedeemCommit, Finish, Go, TypeOK,
     RequestInv, Exclusive, RowInv, CodeHeld, HoldsCode, rows, Credential, Context,
     Blank, Unused
<1>3. \A p, q \in Requests : Exclusive(p, q)'
  BY FactorNilAssumption DEF RedeemCommit, Finish, Go, TypeOK, RequestInv,
     Exclusive, CodeHeld, HoldsCode, Context, Blank
<1>4. RowInv'
  BY StepsAreNat DEF RedeemCommit, Finish, Go, TypeOK, RequestInv, RowInv,
     rows, history, Credential
<1>5. QED
  BY <1>1, <1>2, <1>3, <1>4

LEMMA RegenerateReadInv ==
    ASSUME FactorInv, NEW r \in Requests, RegenerateRead(r)
    PROVE  FactorInv'
<1> USE DEF FactorInv
<1>1. TypeOK'
  BY StepsAreNat, ContextTyped DEF RegenerateRead, Go, TypeOK, RequestInv,
     rows, history, Credential, Context, Code, Labels, Unused
<1>2. \A q \in Requests : RequestInv(q)'
  BY StepsAreNat, FactorNilAssumption DEF RegenerateRead, Go, TypeOK,
     RequestInv, Exclusive, RowInv, CodeHeld, HoldsCode, rows, Credential, Context,
     Blank, Unused
<1>3. \A p, q \in Requests : Exclusive(p, q)'
  BY FactorNilAssumption DEF RegenerateRead, Go, TypeOK, RequestInv,
     Exclusive, CodeHeld, HoldsCode, Context, Blank
<1>4. RowInv'
  BY StepsAreNat DEF RegenerateRead, Go, TypeOK, RequestInv, RowInv, rows,
     history, Credential
<1>5. QED
  BY <1>1, <1>2, <1>3, <1>4

LEMMA RegenerateDeleteInv ==
    ASSUME FactorInv, NEW r \in Requests, RegenerateDelete(r)
    PROVE  FactorInv'
<1> USE DEF FactorInv
<1>1. TypeOK'
  <2> USE DEF RegenerateDelete
  <2>1. credential' \in Credential /\ (credential.present => credential.secret \in Secrets)'
    BY StepsAreNat DEF TypeOK, RequestInv, RecordStep, Credential, rows
  <2>2. codes' \in [CodeIds -> Code]
    BY DEF TypeOK, Code, ReplaceCodes, RequestInv, rows
  <2>3. pc' \in [Requests -> Labels] /\ ctx' \in [Requests -> Context]
    <3>1. StillUnused(r) \in SUBSET CodeIds /\ ctx[r] \in Context
      BY DEF TypeOK, StillUnused, Unused
    <3>2. [ctx[r] EXCEPT !.deleting = StillUnused(r)] \in Context
      BY <3>1, ContextTyped
    <3>3. QED
      BY <3>2 DEF TypeOK, Go, Labels
  <2>4. cred_lock' \in Requests \cup {Nil} /\ clock' \in Nat
    BY DEF TypeOK, Finish
  <2>5. accepted' \subseteq Steps /\ grants' \in Nat /\ proven' \subseteq Secrets
    BY DEF TypeOK, RequestInv, history
  <2>6. QED
    BY <2>1, <2>2, <2>3, <2>4, <2>5 DEF TypeOK
<1>2. \A q \in Requests : RequestInv(q)'
  BY StepsAreNat, FactorNilAssumption DEF RegenerateDelete, Go, StillUnused,
     TypeOK, RequestInv, Exclusive, RowInv, CodeHeld, HoldsCode, rows, Credential,
     Context, Blank, Unused
<1>3. \A p, q \in Requests : Exclusive(p, q)'
  BY FactorNilAssumption DEF RegenerateDelete, Go, StillUnused, TypeOK,
     RequestInv, Exclusive, CodeHeld, HoldsCode, Context, Blank
<1>4. RowInv'
  BY StepsAreNat DEF RegenerateDelete, Go, StillUnused, TypeOK, RequestInv,
     RowInv, rows, history, Credential
<1>5. QED
  BY <1>1, <1>2, <1>3, <1>4

LEMMA RegenerateCommitInv ==
    ASSUME FactorInv, NEW r \in Requests, NEW new \in SUBSET CodeIds, RegenerateCommit(r, new)
    PROVE  FactorInv'
<1> USE DEF FactorInv
<1>1. TypeOK'
  BY StepsAreNat, ContextTyped DEF RegenerateCommit, Finish, Go, FreshSet,
     ReplaceCodes, TypeOK, RequestInv, rows, history, Credential, Context,
     Code, Labels, Unused
<1>2. \A q \in Requests : RequestInv(q)'
  BY StepsAreNat, FactorNilAssumption DEF RegenerateCommit, Finish, Go,
     FreshSet, ReplaceCodes, TypeOK, RequestInv, Exclusive, RowInv,
     CodeHeld, HoldsCode, rows, Credential, Context, Blank, Unused
<1>3. \A p, q \in Requests : Exclusive(p, q)'
  BY FactorNilAssumption DEF RegenerateCommit, Finish, Go, FreshSet,
     ReplaceCodes, TypeOK, RequestInv, Exclusive, CodeHeld, HoldsCode, Context, Blank
<1>4. RowInv'
  BY StepsAreNat DEF RegenerateCommit, Finish, Go, FreshSet, ReplaceCodes,
     TypeOK, RequestInv, RowInv, rows, history, Credential
<1>5. QED
  BY <1>1, <1>2, <1>3, <1>4

LEMMA RollbackInv ==
    ASSUME FactorInv, NEW r \in Requests, Rollback(r)
    PROVE  FactorInv'
<1> USE DEF FactorInv
<1>1. TypeOK'
  BY StepsAreNat, ContextTyped DEF Rollback, Finish, Go, TypeOK, RequestInv,
     rows, history, Credential, Context, Code, Labels, Unused
<1>2. \A q \in Requests : RequestInv(q)'
  BY StepsAreNat, FactorNilAssumption DEF Rollback, Finish, Go, TypeOK,
     RequestInv, Exclusive, RowInv, CodeHeld, HoldsCode, rows, Credential, Context,
     Blank, Unused
<1>3. \A p, q \in Requests : Exclusive(p, q)'
  BY FactorNilAssumption DEF Rollback, Finish, Go, TypeOK, RequestInv,
     Exclusive, CodeHeld, HoldsCode, Context, Blank
<1>4. RowInv'
  BY StepsAreNat DEF Rollback, Finish, Go, TypeOK, RequestInv, RowInv, rows,
     history, Credential
<1>5. QED
  BY <1>1, <1>2, <1>3, <1>4

LEMMA TickInv == ASSUME FactorInv, Tick PROVE FactorInv'
BY DEF FactorInv, Tick, TypeOK, RequestInv, Exclusive, RowInv, CodeHeld, HoldsCode, Unused,
       rows, history

LEMMA StutterInv == ASSUME FactorInv, UNCHANGED vars PROVE FactorInv'
BY DEF FactorInv, vars, TypeOK, RequestInv, Exclusive, RowInv, Unused, rows,
       history

LEMMA NextInv == FactorInv /\ [Next]_vars => FactorInv'
<1> SUFFICES ASSUME FactorInv, [Next]_vars PROVE FactorInv'
  OBVIOUS
<1>1. CASE Tick
  BY <1>1, TickInv
<1>2. CASE UNCHANGED vars
  BY <1>2, StutterInv
<1>3. ASSUME NEW r \in Requests, Request(r) PROVE FactorInv'
  BY <1>3, SetupReadInv, SetupInsertInv, SetupUpdateInv, ConfirmLockInv,
     ConfirmCommitInv, VerifyTotpInv, VerifyCommitInv, VerifyRecoveryInv,
     LockCodeInv, RedeemCommitInv, RegenerateReadInv, RegenerateDeleteInv,
     RegenerateCommitInv, RollbackInv DEF Request
<1>4. QED
  BY <1>1, <1>2, <1>3 DEF Next

\* Type correctness of the second factor, for every value of the constants.
THEOREM FactorTypeCorrect == Spec => []TypeOK
<1>1. Spec => []FactorInv
  BY InitInv, NextInv, PTL DEF Spec
<1>2. FactorInv => TypeOK
  BY DEF FactorInv
<1>3. QED
  BY <1>1, <1>2, PTL

-----------------------------------------------------------------------------
(* Every step spends, issues or voids as OneTimeFactor allows.              *)

LEMMA ItemStateOf ==
    /\ \A c \in CodeIds : ItemState[c] = CodeState(c)
    /\ \A t \in Steps : ItemState[t] = StepState(t)
    /\ DOMAIN ItemState = Steps \cup CodeIds
BY DisjointAssumption DEF ItemState

LEMMA ItemStateTyped ==
    ASSUME TypeOK
    PROVE  ItemState \in [Steps \cup CodeIds -> Factor!States]
<1>1. ASSUME NEW c \in CodeIds PROVE CodeState(c) \in Factor!States
  <2>1. codes[c] \in Code
    BY DEF TypeOK
  <2>2. QED
    BY <2>1 DEF Code, CodeState, Factor!States
<1>2. ASSUME NEW t \in Steps PROVE StepState(t) \in Factor!States
  BY DEF StepState, Factor!States
<1>3. QED
  BY <1>1, <1>2 DEF ItemState

\* A step that moves no row the items depend on moves no item.
LEMMA ItemsStay ==
    ASSUME codes' = codes, accepted' = accepted, grants' = grants,
           credential'.last_step = credential.last_step
    PROVE  UNCHANGED Factor!vars
BY DEF Factor!vars, ItemState, CodeState, StepState

LEMMA FactorInit == Init => Factor!Init
<1> SUFFICES ASSUME Init PROVE Factor!Init
  OBVIOUS
<1>1. \A c \in CodeIds : CodeState(c) = "unissued"
  BY DEF Init, CodeState
<1>2. \A t \in Steps : StepState(t) = "valid"
  BY StepsAreNat DEF Init, StepState
<1>3. ItemState \in [Steps \cup CodeIds -> {"unissued", "valid"}]
  BY <1>1, <1>2 DEF ItemState
<1>4. QED
  BY <1>3 DEF Factor!Init, Init

\* What replacing a set of codes does to each of them.
LEMMA ReplacedCodes ==
    ASSUME TypeOK, NEW old \in SUBSET Unused, NEW new \in SUBSET CodeIds,
           FreshSet(new), codes' = ReplaceCodes(old, new)
    PROVE  /\ \A c \in CodeIds : Factor!Managed(c)
           /\ Used' = Used
<1>1. ASSUME NEW c \in CodeIds PROVE Factor!Managed(c)
  <2>1. codes[c] \in Code
    BY DEF TypeOK
  <2>2. ItemState[c] = CodeState(c) /\ ItemState'[c] = CodeState(c)'
    BY DisjointAssumption DEF ItemState
  <2>3. CASE c \in old
    BY <2>2, <2>3 DEF Unused, ReplaceCodes, CodeState, Factor!Managed
  <2>4. CASE c \notin old /\ c \in new
    BY <2>2, <2>4 DEF FreshSet, ReplaceCodes, CodeState, Factor!Managed
  <2>5. CASE c \notin old /\ c \notin new
    BY <2>2, <2>5 DEF ReplaceCodes, CodeState, Factor!Managed
  <2>6. QED
    BY <2>3, <2>4, <2>5
<1>2. Used' = Used
  BY DEF Used, ReplaceCodes, FreshSet, Unused
<1>3. QED
  BY <1>1, <1>2

\* What accepting a time-step above the mark does to every time-step.
LEMMA AcceptedStep ==
    ASSUME FactorInv, NEW t \in Steps, credential.last_step < t,
           credential'.last_step = RecordStep(t),
           accepted' = accepted \cup {t}
    PROVE  /\ t \notin accepted
           /\ ItemState[t] = "valid" /\ ItemState'[t] = "spent"
           /\ \A u \in Steps \ {t} : Factor!Managed(u)
<1>1. credential.last_step \in Nat /\ t \in Nat
  BY StepsAreNat DEF FactorInv, TypeOK, Credential
<1>2. credential'.last_step = t
  BY <1>1 DEF RecordStep
<1>3. t \notin accepted
  BY <1>1 DEF FactorInv, RowInv
<1>4. \A u \in Steps : ItemState[u] = StepState(u) /\ ItemState'[u] = StepState(u)'
  BY DisjointAssumption DEF ItemState
<1>5. ItemState[t] = "valid" /\ ItemState'[t] = "spent"
  BY <1>1, <1>3, <1>4 DEF StepState
<1>6. ASSUME NEW u \in Steps \ {t} PROVE Factor!Managed(u)
  <2>1. u \in Nat
    BY StepsAreNat
  <2>2. QED
    BY <1>1, <1>2, <1>4, <2>1 DEF StepState, Factor!Managed
<1>7. QED
  BY <1>3, <1>5, <1>6

LEMMA ItemStateTypedNext ==
    ASSUME TypeOK'
    PROVE  ItemState' \in [Steps \cup CodeIds -> Factor!States]
<1>1. (TypeOK => ItemState \in [Steps \cup CodeIds -> Factor!States])'
  BY ItemStateTyped, PTL
<1>2. QED
  BY <1>1 DEF Factor!States

LEMMA AcceptedFinite ==
    ASSUME TypeOK
    PROVE  IsFiniteSet(accepted) /\ IsFiniteSet(Used)
<1>1. IsFiniteSet(Steps)
  BY ClockAssumption, FS_Interval DEF Steps, Window
<1>2. IsFiniteSet(accepted)
  BY <1>1, FS_Subset DEF TypeOK
<1>3. Used \subseteq CodeIds
  BY DEF Used
<1>4. IsFiniteSet(Used)
  BY <1>3, CodesAssumption, FS_Subset
<1>5. QED
  BY <1>2, <1>4

\* One more login, one more item: the count after a time-step was accepted.
LEMMA AcceptedCount ==
    ASSUME TypeOK, NEW t, t \notin accepted, accepted' = accepted \cup {t},
           Used' = Used, grants' = grants + 1, GrantsAreSpent
    PROVE  GrantsAreSpent'
<1>1. Cardinality(accepted') = Cardinality(accepted) + 1
  BY AcceptedFinite, FS_AddElement
<1>2. Cardinality(accepted) \in Nat /\ Cardinality(Used) \in Nat
  BY AcceptedFinite, FS_CardinalityType
<1>3. QED
  BY <1>1, <1>2 DEF GrantsAreSpent

LEMMA ConfirmGrants ==
    ASSUME FactorInv, FactorInv', NEW r \in Requests,
           NEW new \in SUBSET CodeIds, ConfirmCommit(r, new)
    PROVE  Factor!Grant /\ (GrantsAreSpent => GrantsAreSpent')
<1> DEFINE t == ctx[r].step
<1>1. t \in Steps /\ credential.last_step < t
  BY DEF ConfirmCommit, FactorInv, RequestInv
<1>2. credential'.last_step = RecordStep(t) /\ accepted' = accepted \cup {t}
  BY DEF ConfirmCommit, FactorInv, TypeOK, Credential
<1>3. codes' = ReplaceCodes(Unused, new) /\ FreshSet(new) /\ grants' = grants + 1
  BY DEF ConfirmCommit
<1>4. /\ t \notin accepted
      /\ ItemState[t] = "valid" /\ ItemState'[t] = "spent"
      /\ \A u \in Steps \ {t} : Factor!Managed(u)
  BY <1>1, <1>2, AcceptedStep
<1>5. (\A c \in CodeIds : Factor!Managed(c)) /\ Used' = Used
  BY <1>3, ReplacedCodes DEF FactorInv
<1>6. ItemState' \in [Steps \cup CodeIds -> Factor!States]
  BY ItemStateTypedNext DEF FactorInv
<1>7. Factor!Grant
  BY <1>1, <1>3, <1>4, <1>5, <1>6 DEF Factor!Grant
<1>8. GrantsAreSpent => GrantsAreSpent'
  BY <1>2, <1>3, <1>4, <1>5, AcceptedCount DEF FactorInv
<1>9. QED
  BY <1>7, <1>8

LEMMA VerifyGrants ==
    ASSUME FactorInv, FactorInv', NEW r \in Requests, VerifyCommit(r)
    PROVE  Factor!Grant /\ (GrantsAreSpent => GrantsAreSpent')
<1> DEFINE t == ctx[r].step
<1>1. t \in Steps /\ credential.last_step < t
  BY DEF VerifyCommit, FactorInv, RequestInv
<1>2. credential'.last_step = RecordStep(t) /\ accepted' = accepted \cup {t}
  BY DEF VerifyCommit, FactorInv, TypeOK, Credential
<1>3. codes' = codes /\ grants' = grants + 1
  BY DEF VerifyCommit
<1>4. /\ t \notin accepted
      /\ ItemState[t] = "valid" /\ ItemState'[t] = "spent"
      /\ \A u \in Steps \ {t} : Factor!Managed(u)
  BY <1>1, <1>2, AcceptedStep
<1>5. (\A c \in CodeIds : Factor!Managed(c)) /\ Used' = Used
  <2>1. ASSUME NEW c \in CodeIds PROVE ItemState'[c] = ItemState[c]
    <3>1. CodeState(c)' = CodeState(c)
      BY <1>3 DEF CodeState
    <3>2. ItemState[c] = CodeState(c) /\ ItemState'[c] = CodeState(c)'
      BY DEF ItemState
    <3>3. QED
      BY <3>1, <3>2
  <2>2. QED
    BY <1>3, <2>1 DEF Used, Factor!Managed
<1>6. ItemState' \in [Steps \cup CodeIds -> Factor!States]
  BY ItemStateTypedNext DEF FactorInv
<1>7. Factor!Grant
  BY <1>1, <1>3, <1>4, <1>5, <1>6 DEF Factor!Grant
<1>8. GrantsAreSpent => GrantsAreSpent'
  BY <1>2, <1>3, <1>4, <1>5, AcceptedCount DEF FactorInv
<1>9. QED
  BY <1>7, <1>8

LEMMA RedeemGrants ==
    ASSUME FactorInv, FactorInv', NEW r \in Requests, RedeemCommit(r)
    PROVE  Factor!Grant /\ (GrantsAreSpent => GrantsAreSpent')
<1> DEFINE c == ctx[r].code
<1>1. c \in CodeIds /\ codes[c] = "unused"
  BY DEF RedeemCommit, FactorInv, RequestInv
<1>2. codes' = [codes EXCEPT ![c] = "used"] /\ grants' = grants + 1
  BY DEF RedeemCommit
<1>3. credential' = credential /\ accepted' = accepted
  BY DEF RedeemCommit
<1>4. \A d \in CodeIds :
         /\ ItemState[d] = CodeState(d)
         /\ ItemState'[d] = CodeState(d)'
  BY DisjointAssumption DEF ItemState
<1>5. codes \in [CodeIds -> Code]
  BY DEF FactorInv, TypeOK
<1>6. ItemState[c] = "valid" /\ ItemState'[c] = "spent"
  BY <1>1, <1>2, <1>4, <1>5 DEF CodeState
<1>7. ASSUME NEW d \in CodeIds \ {c} PROVE Factor!Managed(d)
  <2>1. codes'[d] = codes[d]
    BY <1>2, <1>5
  <2>2. CodeState(d)' = CodeState(d)
    BY <2>1 DEF CodeState
  <2>3. QED
    BY <1>4, <2>2 DEF Factor!Managed
<1>8. \A t \in Steps : Factor!Managed(t)
  BY <1>3, DisjointAssumption DEF ItemState, StepState, Factor!Managed
<1>9. Factor!Grant
  BY <1>1, <1>2, <1>6, <1>7, <1>8, ItemStateTypedNext
     DEF Factor!Grant, FactorInv
<1>10. GrantsAreSpent => GrantsAreSpent'
  <2>1. Used' = Used \cup {c} /\ c \notin Used
    BY <1>1, <1>2, <1>5 DEF Used
  <2>2. Cardinality(Used') = Cardinality(Used) + 1
    BY <2>1, AcceptedFinite, FS_AddElement DEF FactorInv
  <2>3. Cardinality(accepted) \in Nat /\ Cardinality(Used) \in Nat
    BY AcceptedFinite, FS_CardinalityType DEF FactorInv
  <2>4. QED
    BY <1>2, <1>3, <2>2, <2>3 DEF GrantsAreSpent
<1>11. QED
  BY <1>9, <1>10

LEMMA RegenerateManages ==
    ASSUME FactorInv, FactorInv', NEW r \in Requests,
           NEW new \in SUBSET CodeIds, RegenerateCommit(r, new)
    PROVE  Factor!Manage /\ (GrantsAreSpent => GrantsAreSpent')
<1>1. ctx[r].deleting \in SUBSET Unused
  BY DEF RegenerateCommit, FactorInv, RequestInv
<1>2. codes' = ReplaceCodes(ctx[r].deleting, new) /\ FreshSet(new)
  BY DEF RegenerateCommit
<1>3. credential' = credential /\ accepted' = accepted /\ grants' = grants
  BY DEF RegenerateCommit, history
<1>4. (\A c \in CodeIds : Factor!Managed(c)) /\ Used' = Used
  BY <1>1, <1>2, ReplacedCodes DEF FactorInv
<1>5. \A t \in Steps : Factor!Managed(t)
  BY <1>3, DisjointAssumption DEF ItemState, StepState, Factor!Managed
<1>6. Factor!Manage
  BY <1>3, <1>4, <1>5, ItemStateTypedNext DEF Factor!Manage, FactorInv
<1>7. QED
  BY <1>3, <1>4, <1>6 DEF GrantsAreSpent

\* Whatever else happens moves no item and lets nobody through.
LEMMA OthersStutter ==
    ASSUME FactorInv, UNCHANGED <<codes, accepted, grants>>,
           credential'.last_step = credential.last_step
    PROVE  UNCHANGED Factor!vars /\ (GrantsAreSpent => GrantsAreSpent')
<1>1. Used' = Used
  BY DEF Used
<1>2. QED
  BY <1>1, ItemsStay DEF GrantsAreSpent

LEMMA RequestRefines ==
    ASSUME FactorInv, FactorInv', NEW r \in Requests, Request(r)
    PROVE  [Factor!Next]_(Factor!vars) /\ (GrantsAreSpent => GrantsAreSpent')
<1>1. CASE \E new \in SUBSET CodeIds : ConfirmCommit(r, new)
  BY <1>1, ConfirmGrants DEF Factor!Next
<1>2. CASE VerifyCommit(r)
  BY <1>2, VerifyGrants DEF Factor!Next
<1>3. CASE RedeemCommit(r)
  BY <1>3, RedeemGrants DEF Factor!Next
<1>4. CASE \E new \in SUBSET CodeIds : RegenerateCommit(r, new)
  BY <1>4, RegenerateManages DEF Factor!Next
<1>5. CASE SetupInsert(r)
  <2>1. credential.last_step = 0 /\ credential'.last_step = 0
    BY <1>5 DEF SetupInsert, NewCredential, FactorInv, RowInv
  <2>2. QED
    BY <1>5, <2>1, OthersStutter DEF SetupInsert, history
<1>6. CASE SetupUpdate(r)
  <2>1. credential'.last_step = credential.last_step
    BY <1>6 DEF SetupUpdate, FactorInv, TypeOK, Credential
  <2>2. QED
    BY <1>6, <2>1, OthersStutter DEF SetupUpdate, history
<1>7. CASE \/ \E s \in Secrets : SetupRead(r, s)
           \/ \E t \in Steps : ConfirmLock(r, t) \/ VerifyTotp(r, t)
           \/ \E c \in CodeIds : VerifyRecovery(r, c)
           \/ LockCode(r) \/ RegenerateRead(r) \/ RegenerateDelete(r)
           \/ Rollback(r)
  <2>1. UNCHANGED <<credential, codes, accepted, grants>>
    BY <1>7 DEF SetupRead, ConfirmLock, VerifyTotp, VerifyRecovery, LockCode,
                RegenerateRead, RegenerateDelete, Rollback, rows, history
  <2>2. QED
    BY <2>1, OthersStutter
<1>8. QED
  BY <1>1, <1>2, <1>3, <1>4, <1>5, <1>6, <1>7 DEF Request

LEMMA StepRefines ==
    FactorInv /\ FactorInv' /\ [Next]_vars =>
        [Factor!Next]_(Factor!vars) /\ (GrantsAreSpent => GrantsAreSpent')
<1> SUFFICES ASSUME FactorInv, FactorInv', [Next]_vars
             PROVE  /\ [Factor!Next]_(Factor!vars)
                    /\ GrantsAreSpent => GrantsAreSpent'
  OBVIOUS
<1>1. CASE Tick \/ UNCHANGED vars
  <2>1. UNCHANGED <<credential, codes, accepted, grants>>
    BY <1>1 DEF Tick, vars, rows, history
  <2>2. QED
    BY <2>1, OthersStutter
<1>2. CASE \E r \in Requests : Request(r)
  BY <1>2, RequestRefines
<1>3. QED
  BY <1>1, <1>2 DEF Next

\* MfaFactor implements OneTimeFactor: whatever the interleaving of set-ups,
\* confirmations, verifications and regenerations, a login stands on one valid
\* time-step or recovery code, spends it, and nothing spent or voided returns.
THEOREM FactorRefinement == Spec => ImplementsOneTimeFactor
<1>1. Spec => []FactorInv
  BY InitInv, NextInv, PTL DEF Spec
<1>2. Init => Factor!Init
  BY FactorInit
<1>3. FactorInv /\ FactorInv' /\ [Next]_vars => [Factor!Next]_(Factor!vars)
  BY StepRefines
<1>4. QED
  BY <1>1, <1>2, <1>3, PTL DEF Spec, ImplementsOneTimeFactor, Factor!Spec

\* As many logins as items spent, at every moment: no two requests ever stood on
\* one TOTP or one recovery code (the credential's row lock in VerifyMfa).
THEOREM GrantsAlwaysSpent == Spec => []GrantsAreSpent
<1>1. Spec => []FactorInv
  BY InitInv, NextInv, PTL DEF Spec
<1>2. Init => GrantsAreSpent
  <2>1. ASSUME Init PROVE Cardinality(accepted) = 0 /\ Cardinality(Used) = 0
    <3>1. accepted = {} /\ Used = {}
      BY <2>1 DEF Init, Used
    <3>2. QED
      BY <3>1, FS_EmptySet
  <2>2. QED
    BY <2>1 DEF Init, GrantsAreSpent
<1>3. FactorInv /\ FactorInv' /\ [Next]_vars /\ GrantsAreSpent => GrantsAreSpent'
  BY StepRefines
<1>4. QED
  BY <1>1, <1>2, <1>3, PTL DEF Spec

-----------------------------------------------------------------------------
(* Who waits for whom.                                                      *)

\* The credential is locked by who confirms or verifies, and nobody has codes to
\* regenerate before it is enabled.
WaitInv ==
    \A r \in Requests :
        /\ cred_lock = r =>
             pc[r] \in {"confirm_commit", "verify_commit", "verify_code", "redeem_commit"}
        /\ pc[r] \in {"regen_delete", "regen_insert"} => credential.enabled

\* An enabled credential stays enabled.
LEMMA EnabledStays == FactorInv /\ [Next]_vars /\ credential.enabled => credential'.enabled
<1> SUFFICES ASSUME FactorInv, [Next]_vars, credential.enabled PROVE credential'.enabled
  OBVIOUS
<1>1. credential \in Credential /\ credential.present
  BY DEF FactorInv, TypeOK, RowInv
<1>2. CASE UNCHANGED credential
  BY <1>2
<1>3. ASSUME NEW r \in Requests, SetupInsert(r) PROVE FALSE
  BY <1>1, <1>3 DEF SetupInsert
<1>4. ASSUME NEW r \in Requests,
             SetupUpdate(r) \/ VerifyCommit(r) \/ \E new \in SUBSET CodeIds : ConfirmCommit(r, new)
      PROVE  credential'.enabled
  BY <1>1, <1>4 DEF SetupUpdate, VerifyCommit, ConfirmCommit, Credential
<1>5. ASSUME NEW r \in Requests, Request(r), ~SetupInsert(r), ~SetupUpdate(r),
             ~VerifyCommit(r), \A new \in SUBSET CodeIds : ~ConfirmCommit(r, new)
      PROVE  UNCHANGED credential
  BY <1>5 DEF Request, SetupRead, ConfirmLock, VerifyTotp, VerifyRecovery, LockCode,
     RedeemCommit, RegenerateRead, RegenerateDelete, RegenerateCommit, Rollback, rows
<1>6. CASE Tick \/ UNCHANGED vars
  BY <1>6 DEF Tick, vars, rows
<1> QED BY <1>2, <1>3, <1>4, <1>5, <1>6 DEF Next

LEMMA WaitStep == FactorInv /\ WaitInv /\ [Next]_vars => WaitInv'
<1> SUFFICES ASSUME FactorInv, WaitInv, [Next]_vars, NEW q \in Requests
             PROVE  /\ cred_lock' = q =>
                         pc'[q] \in {"confirm_commit", "verify_commit", "verify_code",
                                     "redeem_commit"}
                    /\ pc'[q] \in {"regen_delete", "regen_insert"} => credential'.enabled
  BY DEF WaitInv
<1>t. pc \in [Requests -> Labels] /\ ctx \in [Requests -> Context] /\ Nil \notin Requests
  BY FactorNilAssumption DEF FactorInv, TypeOK
<1>q. /\ cred_lock = q =>
           pc[q] \in {"confirm_commit", "verify_commit", "verify_code", "redeem_commit"}
      /\ pc[q] \in {"regen_delete", "regen_insert"} => credential.enabled
  BY DEF WaitInv
<1>e. credential.enabled => credential'.enabled
  BY EnabledStays
<1>0. CASE UNCHANGED <<pc, cred_lock>>
  BY <1>0, <1>q, <1>e
<1>1. ASSUME NEW r \in Requests, Finish(r)
      PROVE  /\ pc'[q] = (IF q = r THEN "idle" ELSE pc[q])
             /\ cred_lock' = q => cred_lock = q /\ q # r
  BY <1>1, <1>t DEF Finish, Go
<1>2. ASSUME NEW r \in Requests, Finish(r)
      PROVE  /\ cred_lock' = q =>
                  pc'[q] \in {"confirm_commit", "verify_commit", "verify_code", "redeem_commit"}
             /\ pc'[q] \in {"regen_delete", "regen_insert"} => credential'.enabled
  BY <1>1, <1>2, <1>q, <1>e
<1>3. ASSUME NEW r \in Requests, NEW x, NEW label \in Labels, Go(r, label, x)
      PROVE  pc'[q] = IF q = r THEN label ELSE pc[q]
  BY <1>3, <1>t DEF Go
<1>4. ASSUME NEW r \in Requests, NEW t \in Steps, ConfirmLock(r, t) \/ VerifyTotp(r, t)
      PROVE  /\ cred_lock' = q =>
                  pc'[q] \in {"confirm_commit", "verify_commit", "verify_code", "redeem_commit"}
             /\ pc'[q] \in {"regen_delete", "regen_insert"} => credential'.enabled
  BY <1>3, <1>4, <1>q, <1>e, <1>t DEF ConfirmLock, VerifyTotp, LockCredential, Go
<1>5. ASSUME NEW r \in Requests, NEW c \in CodeIds, VerifyRecovery(r, c)
      PROVE  /\ cred_lock' = q =>
                  pc'[q] \in {"confirm_commit", "verify_commit", "verify_code", "redeem_commit"}
             /\ pc'[q] \in {"regen_delete", "regen_insert"} => credential'.enabled
  BY <1>5, <1>q, <1>e, <1>t DEF VerifyRecovery, LockCredential, Go
<1>6. ASSUME NEW r \in Requests, NEW s \in Secrets, SetupRead(r, s)
      PROVE  /\ cred_lock' = q =>
                  pc'[q] \in {"confirm_commit", "verify_commit", "verify_code", "redeem_commit"}
             /\ pc'[q] \in {"regen_delete", "regen_insert"} => credential'.enabled
  BY <1>6, <1>q, <1>e, <1>t DEF SetupRead, Go
<1>7. ASSUME NEW r \in Requests, LockCode(r) \/ RegenerateRead(r) \/ RegenerateDelete(r)
      PROVE  /\ cred_lock' = q =>
                  pc'[q] \in {"confirm_commit", "verify_commit", "verify_code", "redeem_commit"}
             /\ pc'[q] \in {"regen_delete", "regen_insert"} => credential'.enabled
  <2>1. CASE LockCode(r)
    BY <2>1, <1>q, <1>e, <1>t DEF LockCode, Go
  <2>2. CASE RegenerateRead(r)
    BY <2>2, <1>q, <1>e, <1>t DEF RegenerateRead, Go
  <2>3. CASE RegenerateDelete(r)
    BY <2>3, <1>q, <1>e, <1>t DEF RegenerateDelete, Go
  <2> QED BY <1>7, <2>1, <2>2, <2>3
<1>8. ASSUME NEW r \in Requests, Request(r)
      PROVE  \/ Finish(r)
             \/ \E t \in Steps : ConfirmLock(r, t) \/ VerifyTotp(r, t)
             \/ \E c \in CodeIds : VerifyRecovery(r, c)
             \/ \E s \in Secrets : SetupRead(r, s)
             \/ LockCode(r) \/ RegenerateRead(r) \/ RegenerateDelete(r)
  BY <1>8 DEF Request, SetupInsert, SetupUpdate, ConfirmCommit, VerifyCommit, RedeemCommit,
     RegenerateCommit, Rollback
<1>9. CASE Tick \/ UNCHANGED vars
  BY <1>0, <1>9 DEF Tick, vars
<1> QED BY <1>2, <1>4, <1>5, <1>6, <1>7, <1>8, <1>9 DEF Next

\* Whoever holds the credential and waits wants a code that a regeneration has
\* deleted; whoever holds a code and waits is a regeneration that wants the
\* credential.
LEMMA CirclesCross ==
    ASSUME FactorInv, WaitInv
    PROVE  DeadlocksKnown
<1> SUFFICES ASSUME NEW W \in SUBSET Requests, Deadlocked(W)
             PROVE  \E r, q \in W : RegenerationCrosses(r, q)
  BY DEF DeadlocksKnown
<1>1. ASSUME NEW q \in W, NEW z \in W, NEW c \in CodesWanted(q), q # z, HoldsCode(z, c)
      PROVE  pc[z] = "regen_insert" /\ c \in ctx[z].deleting /\ z \in Requests
  <2>1. CASE pc[z] = "redeem_commit"
    <3>1. CodesWanted(z) = {} /\ ~WantsCredential(z)
      BY <2>1 DEF CodesWanted, WantsCredential
    <3> QED BY <3>1 DEF Deadlocked, WaitsFor
  <2> QED BY <1>1, <2>1 DEF HoldsCode
<1>2. ASSUME NEW q \in W, cred_lock = q
      PROVE  \E r \in W : RegenerationCrosses(r, q)
  <2>1. pc[q] \in {"confirm_commit", "verify_commit", "verify_code", "redeem_commit"}
    BY <1>2 DEF WaitInv
  <2>2. ~WantsCredential(q)
    BY <2>1 DEF WantsCredential
  <2>3. PICK z \in W, c \in CodesWanted(q) : q # z /\ HoldsCode(z, c)
    BY <2>2 DEF Deadlocked, WaitsFor
  <2>4. pc[z] = "regen_insert" /\ c \in ctx[z].deleting /\ credential.enabled
    BY <1>1, <2>3 DEF WaitInv
  <2>5. pc[q] # "confirm_commit"
    BY <2>4 DEF FactorInv, RequestInv
  <2>6. pc[q] = "verify_code" /\ c = ctx[q].code
    BY <2>1, <2>3, <2>5 DEF CodesWanted
  <2> QED BY <1>2, <2>4, <2>6 DEF RegenerationCrosses
<1>3. ASSUME NEW r \in W, WantsCredential(r)
      PROVE  cred_lock \in W
  <2>1. CodesWanted(r) = {}
    BY <1>3 DEF CodesWanted, WantsCredential
  <2> QED BY <2>1 DEF Deadlocked, WaitsFor
<1>4. PICK x \in W : TRUE
  BY DEF Deadlocked
<1>5. CASE WantsCredential(x)
  BY <1>2, <1>3, <1>5
<1>6. CASE ~WantsCredential(x)
  <2>1. PICK z \in W, c \in CodesWanted(x) : x # z /\ HoldsCode(z, c)
    BY <1>6 DEF Deadlocked, WaitsFor
  <2>2. WantsCredential(z)
    BY <1>1, <2>1 DEF WantsCredential
  <2> QED BY <1>2, <1>3, <2>2
<1> QED BY <1>5, <1>6

\* The requests of the second factor wait for one another in a circle only where
\* a regeneration, which takes the codes before the credential, meets the
\* redemption of one of them (mfa_regenerate_recovery_codes.py:62).
THEOREM FactorDeadlocksKnown == Spec => []DeadlocksKnown
<1>1. Init => FactorInv /\ WaitInv
  BY InitInv, FactorNilAssumption DEF Init, WaitInv
<1>2. FactorInv /\ WaitInv /\ [Next]_vars => (FactorInv /\ WaitInv)'
  BY NextInv, WaitStep
<1>3. FactorInv /\ WaitInv => DeadlocksKnown
  BY CirclesCross
<1> QED BY <1>1, <1>2, <1>3, PTL DEF Spec
=============================================================================
