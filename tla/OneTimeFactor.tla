--------------------------- MODULE OneTimeFactor ---------------------------
(* What the second factor promises, without saying how: a stock of one-time  *)
(* credentials (a TOTP of one time-step, a recovery code), each of which is  *)
(* good for at most one login and is never good again once spent or voided.  *)
EXTENDS Naturals

CONSTANT Items      \* the one-time credentials

VARIABLES
    state,          \* what has become of each
    grants          \* how many logins the factor has let through

vars == <<state, grants>>

States == {"unissued", "valid", "spent", "void"}

\* What may happen to x without a login being let through on it.
Managed(x) ==
    \/ state'[x] = state[x]
    \/ state[x] = "unissued" /\ state'[x] = "valid"
    \/ state[x] = "valid" /\ state'[x] = "void"

Init ==
    /\ state \in [Items -> {"unissued", "valid"}]
    /\ grants = 0

\* A login is let through on one valid item; that item is spent by it. Others
\* may be issued or voided at the same time.
Grant ==
    /\ grants' = grants + 1
    /\ state' \in [Items -> States]
    /\ \E x \in Items :
        /\ state[x] = "valid"
        /\ state'[x] = "spent"
        /\ \A y \in Items \ {x} : Managed(y)

Manage ==
    /\ grants' = grants
    /\ state' \in [Items -> States]
    /\ \A x \in Items : Managed(x)

Next == Grant \/ Manage

Spec == Init /\ [][Next]_vars

=============================================================================
