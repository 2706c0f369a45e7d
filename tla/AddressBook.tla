----------------------------- MODULE AddressBook -----------------------------
(***************************************************************************)
(* What registration promises, as if each request and each purge were one  *)
(* step on a list of accounts and the links mailed to them. Registration   *)
(* implements it with requests that lock nothing before they decide and a  *)
(* purge that locks one row after the other. Left out are the lifetimes (an *)
(* expired link, a cooldown or a young account only forbids more).          *)
(***************************************************************************)
CONSTANTS
    Addresses,
    Accounts,
    Links,          \* verification links
    Nil

VARIABLES
    account,        \* status and address of each account
    link            \* state and account of each link

vars == <<account, link>>

Present(u) == account[u].status \in {"unverified", "verified"}

Taken(a) == \E u \in Accounts : Present(u) /\ account[u].address = a

New(u) == [state |-> "usable", user |-> u]

\* A free address gets an account, and the account its first link.
Register(u, a, k) ==
    /\ account[u].status = "absent"
    /\ ~Taken(a)
    /\ link[k].state = "absent"
    /\ account' = [account EXCEPT ![u] = [status |-> "unverified", address |-> a]]
    /\ link' = [link EXCEPT ![k] = New(u)]

\* Another link for an account that is there.
Mail(u, k) ==
    /\ Present(u)
    /\ link[k].state = "absent"
    /\ link' = [link EXCEPT ![k] = New(u)]
    /\ UNCHANGED account

\* The link and its account change together. Redemptions that overlap may
\* redeem a link twice, or two links.
Redeem(k) ==
    /\ link[k].state \in {"usable", "used"}
    /\ Present(link[k].user)
    /\ account' = [account EXCEPT ![link[k].user].status = "verified"]
    /\ link' = [link EXCEPT ![k].state = "used"]

\* Unverified accounts disappear, all at once and with their links.
Purge(gone) ==
    /\ \A u \in gone : account[u].status = "unverified"
    /\ account' = [u \in Accounts |->
         IF u \in gone THEN [account[u] EXCEPT !.status = "purged"] ELSE account[u]]
    /\ link' = [k \in Links |->
         IF link[k].state = "usable" /\ link[k].user \in gone
         THEN [link[k] EXCEPT !.state = "purged"] ELSE link[k]]

Init ==
    /\ account = [u \in Accounts |-> [status |-> "absent", address |-> Nil]]
    /\ link = [k \in Links |-> [state |-> "absent", user |-> Nil]]

Next ==
    \/ \E u \in Accounts, k \in Links :
        \/ \E a \in Addresses : Register(u, a, k)
        \/ Mail(u, k)
    \/ \E k \in Links : Redeem(k)
    \/ \E gone \in SUBSET Accounts : Purge(gone)

Spec == Init /\ [][Next]_vars
=============================================================================
