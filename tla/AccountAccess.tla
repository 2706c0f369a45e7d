---------------------------- MODULE AccountAccess ----------------------------
(***************************************************************************)
(* What the credential operations promise, as if each were one step: who    *)
(* may get into an account, and by what. Credentials implements it with     *)
(* transactions that interleave at every unlocked read, lock wait and       *)
(* commit. Left out are the lifetimes (an expired session or link only      *)
(* does less) and the second factor.                                        *)
(***************************************************************************)
EXTENDS Naturals

CONSTANTS
    Accounts,
    Removable,      \* accounts that may disappear
    Sessions,
    Links,          \* password reset links
    Nil

VARIABLES
    account,        \* status of each account, generation of its password
    session,        \* state, owner and turn of each session, the password it rests on
    link            \* state and account of each link, the password it may replace

vars == <<account, session, link>>

Active(u) == account[u].status = "active"

\* Something that rests on password p of account u works.
Honoured(u, p) == Active(u) /\ p = account[u].password

OpenSession(s) == session[s].state = "open"

Closed(us) ==
    [s \in Sessions |->
        IF OpenSession(s) /\ session[s].user \in us
        THEN [session[s] EXCEPT !.state = "closed"] ELSE session[s]]

Spent(us) ==
    [k \in Links |->
        IF link[k].state = "usable" /\ link[k].user \in us
        THEN [link[k] EXCEPT !.state = "spent"] ELSE link[k]]

\* A login: by the current password, to an active account.
Open(u, s) ==
    /\ Active(u)
    /\ session[s].state = "none"
    /\ session' = [session EXCEPT ![s] =
         [state |-> "open", user |-> u, turn |-> 1, password |-> account[u].password]]
    /\ UNCHANGED <<account, link>>

\* A refresh: the next turn of a session that works.
Rotate(s) ==
    /\ OpenSession(s)
    /\ Honoured(session[s].user, session[s].password)
    /\ session' = [session EXCEPT ![s].turn = @ + 1]
    /\ UNCHANGED <<account, link>>

\* A logout, or a refresh token used twice.
Close(s) ==
    /\ OpenSession(s)
    /\ session' = [session EXCEPT ![s].state = "closed"]
    /\ UNCHANGED <<account, link>>

Mail(u, k) ==
    /\ account[u].status # "absent"
    /\ link[k].state = "none"
    /\ link' = [link EXCEPT ![k] =
         [state |-> "usable", user |-> u, password |-> account[u].password]]
    /\ UNCHANGED <<account, session>>

\* A new password, by a link mailed under the one it replaces; nothing that rests
\* on the old one is left.
Redeem(k) ==
    LET u == link[k].user IN
    /\ link[k].state = "usable"
    /\ Honoured(u, link[k].password)
    /\ account' = [account EXCEPT ![u].password = @ + 1]
    /\ session' = Closed({u})
    /\ link' = Spent({u})

Deactivate(u) ==
    /\ Active(u)
    /\ account' = [account EXCEPT ![u].status = "inactive"]
    /\ session' = Closed({u})
    /\ UNCHANGED link

\* What was closed stays closed.
Activate(u) ==
    /\ account[u].status = "inactive"
    /\ account' = [account EXCEPT ![u].status = "active"]
    /\ UNCHANGED <<session, link>>

\* Accounts disappear, with their sessions and links.
Remove(gone) ==
    /\ \A u \in gone : account[u].status # "absent"
    /\ account' = [u \in Accounts |->
         IF u \in gone THEN [account[u] EXCEPT !.status = "absent"] ELSE account[u]]
    /\ session' = Closed(gone)
    /\ link' = Spent(gone)

Init ==
    /\ account = [u \in Accounts |-> [status |-> "active", password |-> 0]]
    /\ session = [s \in Sessions |->
                    [state |-> "none", user |-> Nil, turn |-> 0, password |-> 0]]
    /\ link = [k \in Links |-> [state |-> "none", user |-> Nil, password |-> 0]]

Next ==
    \/ \E u \in Accounts :
        \/ \E s \in Sessions : Open(u, s)
        \/ \E k \in Links : Mail(u, k)
        \/ Deactivate(u) \/ Activate(u)
    \/ \E gone \in SUBSET Removable : Remove(gone)
    \/ \E s \in Sessions : Rotate(s) \/ Close(s)
    \/ \E k \in Links : Redeem(k)

Spec == Init /\ [][Next]_vars
=============================================================================
