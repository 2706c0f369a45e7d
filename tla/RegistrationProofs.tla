------------------------- MODULE RegistrationProofs -------------------------
(***************************************************************************)
(* The properties of Registration for any number of requests, purges,       *)
(* addresses, accounts and links. The inductive invariant has five parts,   *)
(* each inductive with those before it:                                     *)
(*   Typed       types, and only rows that are there are deleted            *)
(*   Reserved    who is about to insert an account holds its index entry    *)
(*   LocksHeld   what a transaction has written it has locked               *)
(*   Linked      links and accounts agree                                   *)
(*   Remembered  what a request remembers of its start is still so          *)
(***************************************************************************)
EXTENDS Registration, TLAPS

\* An account that is being deleted was there.
DeletesRows == \A p \in Purges, u \in Users : Deletes(p, u) => users[u].status # "absent"

Typed == TypeOK /\ DeletesRows

\* A registration that has inserted its row: the account is not there for
\* anybody else, and neither its address nor its id is anybody else's.
Reserved ==
    /\ OneAccountPerAddress
    /\ \A r \in Requests : pc[r] = "commit_user" =>
         /\ users[ctx[r].user].status = "absent"
         /\ AccountsOf(ctx[r].email) = {}
    /\ \A r, q \in Requests :
         pc[r] = "commit_user" /\ pc[q] = "commit_user" /\ r # q =>
            /\ ctx[r].email # ctx[q].email
            /\ ctx[r].user # ctx[q].user

\* An account with a row lock is live; one that is being deleted is not
\* verified, and only the purge that deletes it has a lock on it.
LocksHeld ==
    /\ \A r \in Requests, u \in Users : Verifies(r, u) \/ Shares(r, u) => Live(u)
    /\ \A p \in Purges, u \in Users : Deletes(p, u) =>
         /\ Live(u) /\ ~users[u].verified
         /\ \A r \in Requests : ~Verifies(r, u) /\ ~Shares(r, u)
         /\ \A q \in Purges : Deletes(q, u) => p = q

\* Links and accounts agree, and so does the link that a redemption has read
\* with the account that it is about.
Linked ==
    /\ LinkWithAccount
    /\ VerifiedByItsLink
    /\ \A l \in Links :
         /\ links[l].status = "absent" => ~links[l].used
         /\ links[l].status # "absent" => users[links[l].user].status # "absent"
    /\ \A r \in Requests : pc[r] \in {"load_user", "write", "commit_verified"} =>
         /\ links[ctx[r].link].status # "absent"
         /\ links[ctx[r].link].user = ctx[r].user

\* What was verified when a request began still is; what it found within its
\* cooldown was in the table; past the check of the cooldown none of it is.
Remembered ==
    /\ LateRedemptionRefused
    /\ CooldownHeld
    /\ \A r \in Requests :
         /\ pc[r] = "load_user" /\ began[r].verified => users[ctx[r].user].verified
         /\ pc[r] \in {"write", "commit_verified"} => ~began[r].verified
         /\ \A l \in began[r].warm : links[l].status # "absent"
         /\ pc[r] \in {"issue", "commit_link"} => ~Floods(r)

Inv == Typed /\ Reserved /\ LocksHeld /\ Linked /\ Remembered

-----------------------------------------------------------------------------
LEMMA TypeInit == Init => TypeOK
<1> SUFFICES ASSUME Init PROVE TypeOK
  OBVIOUS
<1>1. users \in [Users -> User] /\ links \in [Links -> Link]
  BY DEF Init, User, Link
<1>2. pc \in [Requests -> Labels] /\ ctx \in [Requests -> Context]
  BY DEF Init, Labels, Context, NoContext
<1>3. /\ answer \in [Requests -> Answers]
      /\ began \in [Requests -> [verified: BOOLEAN, warm: SUBSET Links]]
      /\ purging \in [Purges -> [active: BOOLEAN, matched: SUBSET Users, deleted: SUBSET Users]]
      /\ flooded \in SUBSET Users
  BY DEF Init, Answers
<1> QED BY <1>1, <1>2, <1>3 DEF Init, TypeOK

\* What writing one column does to a row.
LEMMA UserWrites ==
    ASSUME NEW row \in User
    PROVE  /\ [row EXCEPT !.verified = TRUE] \in User
           /\ [row EXCEPT !.verified = TRUE].verified
           /\ [row EXCEPT !.verified = TRUE].status = row.status
           /\ [row EXCEPT !.verified = TRUE].email = row.email
           /\ [row EXCEPT !.status = "purged"] \in User
           /\ [row EXCEPT !.status = "purged"].status = "purged"
           /\ [row EXCEPT !.status = "purged"].email = row.email
           /\ [row EXCEPT !.status = "purged"].verified = row.verified
           /\ [row EXCEPT !.old = TRUE] \in User
           /\ [row EXCEPT !.old = TRUE].status = row.status
           /\ [row EXCEPT !.old = TRUE].email = row.email
           /\ [row EXCEPT !.old = TRUE].verified = row.verified
BY DEF User

LEMMA LinkWrites ==
    ASSUME NEW row \in Link
    PROVE  /\ [row EXCEPT !.used = TRUE] \in Link
           /\ [row EXCEPT !.used = TRUE].used
           /\ [row EXCEPT !.used = TRUE].status = row.status
           /\ [row EXCEPT !.used = TRUE].user = row.user
           /\ [row EXCEPT !.used = TRUE].recent = row.recent
           /\ [row EXCEPT !.status = "purged"] \in Link
           /\ [row EXCEPT !.status = "purged"].status = "purged"
           /\ [row EXCEPT !.status = "purged"].user = row.user
           /\ [row EXCEPT !.status = "purged"].used = row.used
           /\ [row EXCEPT !.status = "purged"].recent = row.recent
           /\ [row EXCEPT !.recent = FALSE] \in Link
           /\ [row EXCEPT !.recent = FALSE].status = row.status
           /\ [row EXCEPT !.recent = FALSE].user = row.user
           /\ [row EXCEPT !.recent = FALSE].used = row.used
           /\ ~[row EXCEPT !.recent = FALSE].recent
           /\ [row EXCEPT !.expired = TRUE] \in Link
           /\ [row EXCEPT !.expired = TRUE].status = row.status
           /\ [row EXCEPT !.expired = TRUE].user = row.user
           /\ [row EXCEPT !.expired = TRUE].used = row.used
           /\ [row EXCEPT !.expired = TRUE].recent = row.recent
BY DEF Link

LEMMA SetVerified ==
    ASSUME TypeOK, NEW u \in Users, users' = [users EXCEPT ![u].verified = TRUE]
    PROVE  /\ users' \in [Users -> User]
           /\ \A v \in Users : /\ users'[v].status = users[v].status
                               /\ users'[v].email = users[v].email
                               /\ users'[v].verified <=> (v = u \/ users[v].verified)
<1>1. users \in [Users -> User] /\ users[u] \in User
  BY DEF TypeOK
<1>2. [users[u] EXCEPT !.verified = TRUE] \in User
  BY <1>1, UserWrites
<1>3. users' = [users EXCEPT ![u] = [users[u] EXCEPT !.verified = TRUE]]
  BY <1>1
<1>4. users' \in [Users -> User]
  BY <1>1, <1>2, <1>3
<1>5. \A v \in Users \ {u} : users'[v] = users[v]
  BY <1>1, <1>3
<1>6. users'[u] = [users[u] EXCEPT !.verified = TRUE]
  BY <1>1, <1>3
<1> QED BY <1>1, <1>4, <1>5, <1>6, UserWrites

LEMMA SetOld ==
    ASSUME TypeOK, NEW u \in Users, users' = [users EXCEPT ![u].old = TRUE]
    PROVE  /\ users' \in [Users -> User]
           /\ \A v \in Users : /\ users'[v].status = users[v].status
                               /\ users'[v].email = users[v].email
                               /\ users'[v].verified = users[v].verified
<1>1. users \in [Users -> User] /\ users[u] \in User
  BY DEF TypeOK
<1>2. [users[u] EXCEPT !.old = TRUE] \in User
  BY <1>1, UserWrites
<1>3. users' = [users EXCEPT ![u] = [users[u] EXCEPT !.old = TRUE]]
  BY <1>1
<1>4. users' \in [Users -> User]
  BY <1>1, <1>2, <1>3
<1>5. \A v \in Users \ {u} : users'[v] = users[v]
  BY <1>1, <1>3
<1>6. users'[u] = [users[u] EXCEPT !.old = TRUE]
  BY <1>1, <1>3
<1> QED BY <1>1, <1>4, <1>5, <1>6, UserWrites

LEMMA AddUser ==
    ASSUME TypeOK, NEW u \in Users, NEW a \in Addresses,
           users' = [users EXCEPT ![u] = NewUser(a)]
    PROVE  /\ users' \in [Users -> User]
           /\ users'[u].status = "live"
           /\ users'[u].email = a
           /\ ~users'[u].verified
           /\ \A v \in Users \ {u} : users'[v] = users[v]
<1>1. users \in [Users -> User]
  BY DEF TypeOK
<1>2. NewUser(a) \in User
  BY DEF NewUser, User
<1>3. users' \in [Users -> User]
  BY <1>1, <1>2
<1>4. users'[u] = NewUser(a) /\ \A v \in Users \ {u} : users'[v] = users[v]
  BY <1>1
<1> QED BY <1>3, <1>4 DEF NewUser

LEMMA PurgeUsers ==
    ASSUME TypeOK, NEW p \in Purges, PurgeCommit(p)
    PROVE  /\ users' \in [Users -> User]
           /\ \A v \in Users :
                /\ Deletes(p, v) => users'[v].status = "purged"
                /\ ~Deletes(p, v) => users'[v].status = users[v].status
                /\ users'[v].email = users[v].email
                /\ users'[v].verified = users[v].verified
<1>1. users \in [Users -> User]
  BY DEF TypeOK
<1>2. \A v \in Users : users[v] \in User /\ [users[v] EXCEPT !.status = "purged"] \in User
  BY <1>1, UserWrites
<1>3. users' = [u \in Users |->
         IF Deletes(p, u) THEN [users[u] EXCEPT !.status = "purged"] ELSE users[u]]
  BY DEF PurgeCommit
<1>4. users' \in [Users -> User]
  BY <1>2, <1>3
<1>5. ASSUME NEW v \in Users
      PROVE  /\ Deletes(p, v) => users'[v].status = "purged"
             /\ ~Deletes(p, v) => users'[v].status = users[v].status
             /\ users'[v].email = users[v].email
             /\ users'[v].verified = users[v].verified
  <2>1. users[v] \in User
    BY <1>1
  <2>2. CASE Deletes(p, v)
    <3>1. users'[v] = [users[v] EXCEPT !.status = "purged"]
      BY <1>3, <2>2
    <3> QED BY <2>1, <2>2, <3>1, UserWrites
  <2>3. CASE ~Deletes(p, v)
    BY <1>3, <2>3
  <2> QED BY <2>2, <2>3
<1> QED BY <1>4, <1>5

LEMMA SetUsed ==
    ASSUME TypeOK, NEW l \in Links, links' = [links EXCEPT ![l].used = TRUE]
    PROVE  /\ links' \in [Links -> Link]
           /\ \A k \in Links : /\ links'[k].status = links[k].status
                               /\ links'[k].user = links[k].user
                               /\ links'[k].recent = links[k].recent
                               /\ links'[k].used <=> (k = l \/ links[k].used)
<1>1. links \in [Links -> Link] /\ links[l] \in Link
  BY DEF TypeOK
<1>2. [links[l] EXCEPT !.used = TRUE] \in Link
  BY <1>1, LinkWrites
<1>3. links' = [links EXCEPT ![l] = [links[l] EXCEPT !.used = TRUE]]
  BY <1>1
<1>4. links' \in [Links -> Link]
  BY <1>1, <1>2, <1>3
<1>5. \A k \in Links \ {l} : links'[k] = links[k]
  BY <1>1, <1>3
<1>6. links'[l] = [links[l] EXCEPT !.used = TRUE]
  BY <1>1, <1>3
<1> QED BY <1>1, <1>4, <1>5, <1>6, LinkWrites

LEMMA LinkTime ==
    ASSUME TypeOK, NEW l \in Links, CooldownPasses(l) \/ LinkExpires(l)
    PROVE  /\ links' \in [Links -> Link]
           /\ \A k \in Links : /\ links'[k].status = links[k].status
                               /\ links'[k].user = links[k].user
                               /\ links'[k].recent => links[k].recent
                               /\ links'[k].used = links[k].used
<1>1. links \in [Links -> Link] /\ links[l] \in Link
  BY DEF TypeOK
<1>2. /\ [links[l] EXCEPT !.recent = FALSE] \in Link
      /\ [links[l] EXCEPT !.expired = TRUE] \in Link
  BY <1>1, LinkWrites
<1>3. \/ links' = [links EXCEPT ![l] = [links[l] EXCEPT !.recent = FALSE]]
      \/ links' = [links EXCEPT ![l] = [links[l] EXCEPT !.expired = TRUE]]
  BY <1>1 DEF CooldownPasses, LinkExpires
<1>4. links' \in [Links -> Link]
  BY <1>1, <1>2, <1>3
<1>5. \A k \in Links \ {l} : links'[k] = links[k]
  BY <1>1, <1>3
<1>6. \/ links'[l] = [links[l] EXCEPT !.recent = FALSE]
      \/ links'[l] = [links[l] EXCEPT !.expired = TRUE]
  BY <1>1, <1>3
<1>7. /\ links'[l].status = links[l].status
      /\ links'[l].user = links[l].user
      /\ links'[l].recent => links[l].recent
      /\ links'[l].used = links[l].used
  <2>1. CASE links'[l] = [links[l] EXCEPT !.recent = FALSE]
    BY <1>1, <2>1, LinkWrites
  <2>2. CASE links'[l] = [links[l] EXCEPT !.expired = TRUE]
    BY <1>1, <2>2, LinkWrites
  <2> QED BY <1>6, <2>1, <2>2
<1> QED BY <1>4, <1>5, <1>7

LEMMA AddLink ==
    ASSUME TypeOK, NEW l \in Links, NEW u \in Users,
           links' = [links EXCEPT ![l] = NewLink(u)]
    PROVE  /\ links' \in [Links -> Link]
           /\ links'[l].status = "live"
           /\ links'[l].user = u
           /\ ~links'[l].used
           /\ \A k \in Links \ {l} : links'[k] = links[k]
<1>1. links \in [Links -> Link]
  BY DEF TypeOK
<1>2. NewLink(u) \in Link
  BY DEF NewLink, Link
<1>3. links' \in [Links -> Link]
  BY <1>1, <1>2
<1>4. links'[l] = NewLink(u) /\ \A k \in Links \ {l} : links'[k] = links[k]
  BY <1>1
<1> QED BY <1>3, <1>4 DEF NewLink

LEMMA PurgeLinks ==
    ASSUME TypeOK, NEW p \in Purges, PurgeCommit(p)
    PROVE  /\ links' \in [Links -> Link]
           /\ \A k \in Links :
                /\ links[k].status = "live" /\ links[k].user \in purging[p].deleted =>
                      links'[k].status = "purged"
                /\ ~(links[k].status = "live" /\ links[k].user \in purging[p].deleted) =>
                      links'[k].status = links[k].status
                /\ links'[k].user = links[k].user
                /\ links'[k].recent = links[k].recent
                /\ links'[k].used = links[k].used
<1> DEFINE Goes(k) == links[k].status = "live" /\ links[k].user \in purging[p].deleted
<1>1. links \in [Links -> Link]
  BY DEF TypeOK
<1>2. \A k \in Links : links[k] \in Link /\ [links[k] EXCEPT !.status = "purged"] \in Link
  BY <1>1, LinkWrites
<1>3. links' = [k \in Links |->
         IF Goes(k) THEN [links[k] EXCEPT !.status = "purged"] ELSE links[k]]
  BY DEF PurgeCommit
<1> HIDE DEF Goes
<1>4. links' \in [Links -> Link]
  BY <1>2, <1>3
<1>5. ASSUME NEW k \in Links
      PROVE  /\ Goes(k) => links'[k].status = "purged"
             /\ ~Goes(k) => links'[k].status = links[k].status
             /\ links'[k].user = links[k].user
             /\ links'[k].recent = links[k].recent
             /\ links'[k].used = links[k].used
  <2>1. links[k] \in Link
    BY <1>1
  <2>2. CASE Goes(k)
    <3>1. links'[k] = [links[k] EXCEPT !.status = "purged"]
      BY <1>3, <2>2
    <3> QED BY <2>1, <2>2, <3>1, LinkWrites
  <2>3. CASE ~Goes(k)
    BY <1>3, <2>3
  <2> QED BY <2>2, <2>3
<1> QED BY <1>4, <1>5 DEF Goes

LEMMA TypeStep == Typed /\ [Next]_vars => TypeOK'
<1> SUFFICES ASSUME Typed, [Next]_vars PROVE TypeOK'
  OBVIOUS
<1>t. TypeOK
  BY DEF Typed
<1>d. \A p \in Purges, u \in Users : Deletes(p, u) => users[u].status # "absent"
  BY DEF Typed, DeletesRows
<1> USE <1>t DEF TypeOK
<1>0. CASE UNCHANGED vars
  BY <1>0 DEF vars, history
<1>1. ASSUME NEW r \in Requests, NEW a \in Addresses, NEW b \in BOOLEAN,
             ReadAccount(r, a, b)
      PROVE  TypeOK'
  <2>1. began' \in [Requests -> [verified: BOOLEAN, warm: SUBSET Links]]
    BY <1>1 DEF ReadAccount
  <2>2. UNCHANGED <<users, links, purging, flooded>> /\ pc[r] = "idle"
    BY <1>1 DEF ReadAccount
  <2>3. CASE Finish(r, "accepted")
    BY <2>1, <2>2, <2>3 DEF Finish, NoContext, Context, Labels, Answers
  <2>4. CASE /\ Goto(r, "insert")
             /\ ctx' = [ctx EXCEPT ![r] = [NoContext EXCEPT !.email = a]]
             /\ answer' = [answer EXCEPT ![r] = "none"]
    BY <2>1, <2>2, <2>4 DEF Goto, NoContext, Context, Labels, Answers
  <2>5. ASSUME NEW u \in Users,
               Goto(r, "cooldown"),
               ctx' = [ctx EXCEPT ![r] = [NoContext EXCEPT !.user = u]],
               answer' = [answer EXCEPT ![r] = "none"]
        PROVE  TypeOK'
    BY <2>1, <2>2, <2>5 DEF Goto, NoContext, Context, Labels, Answers
  <2> QED BY <1>1, <2>3, <2>4, <2>5 DEF ReadAccount, AccountsOf
<1>2. ASSUME NEW r \in Requests, InsertUser(r) PROVE TypeOK'
  <2>1. PICK u \in Users : ctx' = [ctx EXCEPT ![r].user = u]
    BY <1>2 DEF InsertUser
  <2> DEFINE after == [ctx[r] EXCEPT !.user = u]
  <2>2. ctx[r] \in Context
    OBVIOUS
  <2>3. after \in Context /\ after.user = u /\ after.email = ctx[r].email
    BY <2>2 DEF Context
  <2>4. ctx' = [ctx EXCEPT ![r] = after]
    BY <2>1, <2>2
  <2> HIDE DEF after
  <2>5. /\ ctx' \in [Requests -> Context]
        /\ ctx'[r].user = u /\ ctx'[r].email = ctx[r].email
        /\ \A q \in Requests \ {r} : ctx'[q] = ctx[q]
    BY <2>3, <2>4
  <2>6. UNCHANGED <<users, links, purging, answer, history>> /\ Goto(r, "commit_user")
        /\ pc[r] = "insert"
    BY <1>2 DEF InsertUser
  <2> QED BY <2>5, <2>6 DEF Goto, Labels, history
<1>3. ASSUME NEW r \in Requests, NEW reply \in Answers, Finish(r, reply),
             UNCHANGED <<users, links, purging, began>>, flooded' \in SUBSET Users
      PROVE  TypeOK'
  BY <1>3 DEF Finish, NoContext, Context, Labels
<1>4. ASSUME NEW r \in Requests, CommitUser(r) PROVE TypeOK'
  <2>1. /\ ctx[r].user \in Users /\ ctx[r].email \in Addresses
    BY <1>4 DEF CommitUser
  <2>2. users' \in [Users -> User]
    BY <1>4, <2>1 DEF CommitUser, NewUser, User
  <2>3. \A u \in Users : users'[u].status # "absent" => users'[u].email \in Addresses
    BY <1>4, <2>1 DEF CommitUser, NewUser
  <2>4. links' \in [Links -> Link]
    BY <1>4, <2>1 DEF CommitUser, NewLink, Link
  <2>5. \A l \in Links : links'[l].status # "absent" => links'[l].user \in Users
    BY <1>4, <2>1 DEF CommitUser, NewLink
  <2>6. Finish(r, "accepted") /\ UNCHANGED <<purging, history>>
    BY <1>4 DEF CommitUser
  <2> QED BY <2>2, <2>3, <2>4, <2>5, <2>6
          DEF Finish, NoContext, Context, Labels, Answers, history
<1>5. ASSUME NEW r \in Requests,
             Goto(r, "issue") \/ Goto(r, "commit_link") \/ Goto(r, "write")
               \/ Goto(r, "commit_verified"),
             pc[r] \notin {"idle", "insert"},
             pc'[r] \in {"write", "commit_verified"} =>
                pc[r] \in {"load_user", "write", "commit_verified"},
             UNCHANGED <<users, links, ctx, purging, answer, history>>
      PROVE  TypeOK'
  BY <1>5 DEF Goto, Labels, history
<1>6. ASSUME NEW r \in Requests, CommitLink(r) PROVE TypeOK'
  <2>1. ctx[r].user \in Users
    BY <1>6 DEF CommitLink
  <2>2. links' \in [Links -> Link]
    BY <1>6, <2>1 DEF CommitLink, NewLink, Link
  <2>3. \A l \in Links : links'[l].status # "absent" => links'[l].user \in Users
    BY <1>6, <2>1 DEF CommitLink, NewLink
  <2>4. Finish(r, "accepted") /\ UNCHANGED <<users, purging, began>>
    BY <1>6 DEF CommitLink
  <2>5. flooded' \in SUBSET Users
    BY <1>6, <2>1 DEF CommitLink
  <2> QED BY <2>2, <2>3, <2>4, <2>5
          DEF Finish, NoContext, Context, Labels, Answers
<1>7. ASSUME NEW r \in Requests, NEW l \in Links, ReadLink(r, l) PROVE TypeOK'
  <2>1. links[l].user \in Users /\ links[l] \in Link
    BY <1>7 DEF ReadLink
  <2>2. began' \in [Requests -> [verified: BOOLEAN, warm: SUBSET Links]]
    BY <1>7, <2>1 DEF ReadLink, User
  <2>3. UNCHANGED <<users, links, purging, flooded>> /\ pc[r] = "idle"
    BY <1>7 DEF ReadLink
  <2>4. CASE Finish(r, "refused")
    BY <2>2, <2>3, <2>4 DEF Finish, NoContext, Context, Labels, Answers
  <2>5. CASE /\ Goto(r, "load_user")
             /\ ctx' = [ctx EXCEPT ![r] = [NoContext EXCEPT
                   !.link = l, !.user = links[l].user, !.used = links[l].used]]
             /\ answer' = [answer EXCEPT ![r] = "none"]
    BY <2>1, <2>2, <2>3, <2>5 DEF Goto, NoContext, Context, Labels, Answers, Link
  <2> QED BY <1>7, <2>4, <2>5 DEF ReadLink
<1>8. ASSUME NEW r \in Requests, CommitVerified(r) PROVE TypeOK'
  <2>1. ctx[r].user \in Users /\ ctx[r].link \in Links
    BY <1>8 DEF CommitVerified
  <2>2. /\ users' \in [Users -> User]
        /\ \A u \in Users : /\ users'[u].status = users[u].status
                            /\ users'[u].email = users[u].email
    BY <1>8, <2>1, SetVerified DEF CommitVerified
  <2>3. /\ links' \in [Links -> Link]
        /\ \A l \in Links : /\ links'[l].status = links[l].status
                            /\ links'[l].user = links[l].user
    BY <1>8, <2>1, SetUsed DEF CommitVerified
  <2>4. Finish(r, "verified") /\ UNCHANGED <<purging, history>>
    BY <1>8 DEF CommitVerified
  <2> QED BY <2>2, <2>3, <2>4 DEF Finish, NoContext, Context, Labels, Answers, history
<1>9. ASSUME NEW p \in Purges, PurgeStart(p) PROVE TypeOK'
  BY <1>9 DEF PurgeStart, history
<1>10. ASSUME NEW p \in Purges, NEW u \in Users, PurgeRow(p, u) PROVE TypeOK'
  <2>1. PICK d \in SUBSET Users, m \in SUBSET Users :
          purging' = [purging EXCEPT ![p].matched = m, ![p].deleted = d]
    BY <1>10 DEF PurgeRow
  <2> DEFINE Run == [active: BOOLEAN, matched: SUBSET Users, deleted: SUBSET Users]
             after == [purging[p] EXCEPT !.matched = m, !.deleted = d]
  <2>2. purging[p] \in Run /\ purging \in [Purges -> Run]
    OBVIOUS
  <2>3. after \in Run
    BY <2>2
  <2>4. purging' = [purging EXCEPT ![p] = after]
    BY <2>1, <2>2
  <2>5. purging' \in [Purges -> Run]
    BY <2>2, <2>3, <2>4
  <2> QED BY <1>10, <2>5 DEF PurgeRow, history
<1>11. ASSUME NEW p \in Purges, PurgeCommit(p) PROVE TypeOK'
  <2>1. /\ users' \in [Users -> User]
        /\ \A u \in Users : /\ users'[u].status # "absent" => users[u].status # "absent"
                            /\ users'[u].email = users[u].email
    BY <1>11, PurgeUsers, <1>d
  <2>2. /\ links' \in [Links -> Link]
        /\ \A l \in Links : /\ links[l].status = "absent" => links'[l].status = "absent"
                            /\ links'[l].user = links[l].user
    BY <1>11, PurgeLinks
  <2>3. purging' \in [Purges -> [active: BOOLEAN, matched: SUBSET Users, deleted: SUBSET Users]]
    BY <1>11 DEF PurgeCommit
  <2>4. UNCHANGED <<pc, ctx, answer, history>>
    BY <1>11 DEF PurgeCommit
  <2>5. \A u \in Users : users'[u].status # "absent" => users'[u].email \in Addresses
    <3> SUFFICES ASSUME NEW u \in Users, users'[u].status # "absent"
                 PROVE  users'[u].email \in Addresses
      OBVIOUS
    <3>1. users[u].status # "absent"
      BY <2>1
    <3> QED BY <2>1, <3>1
  <2>6. \A l \in Links : links'[l].status # "absent" => links'[l].user \in Users
    <3> SUFFICES ASSUME NEW l \in Links, links'[l].status # "absent"
                 PROVE  links'[l].user \in Users
      OBVIOUS
    <3>1. links[l].status # "absent"
      BY <1>11 DEF PurgeCommit
    <3> QED BY <2>2, <3>1
  <2> QED BY <2>1, <2>2, <2>3, <2>4, <2>5, <2>6 DEF history
<1>12. ASSUME NEW p \in Purges, PurgeLost(p) PROVE TypeOK'
  BY <1>12 DEF PurgeLost, history
<1>13. ASSUME NEW l \in Links, CooldownPasses(l) \/ LinkExpires(l) PROVE TypeOK'
  <2>1. /\ links' \in [Links -> Link]
        /\ \A k \in Links : /\ links'[k].status = links[k].status
                            /\ links'[k].user = links[k].user
    BY <1>13, LinkTime
  <2> QED BY <1>13, <2>1 DEF CooldownPasses, LinkExpires, history
<1>14. ASSUME NEW u \in Users, AccountAges(u) PROVE TypeOK'
  <2>1. /\ users' \in [Users -> User]
        /\ \A v \in Users : /\ users'[v].status = users[v].status
                            /\ users'[v].email = users[v].email
    BY <1>14, SetOld DEF AccountAges
  <2> QED BY <1>14, <2>1 DEF AccountAges, history
<1>15. ASSUME NEW r \in Requests, InsertConflict(r) \/ Rollback(r) PROVE TypeOK'
  BY <1>3, <1>15 DEF InsertConflict, Rollback, Answers, history
<1>16. ASSUME NEW r \in Requests,
              ReadCooldown(r) \/ InsertLink(r) \/ LoadUser(r) \/ WriteVerified(r)
       PROVE  TypeOK'
  <2>1. CASE ReadCooldown(r)
    BY <2>1, <1>3, <1>5 DEF ReadCooldown, Answers, history, Goto
  <2>2. CASE InsertLink(r)
    BY <2>2, <1>3, <1>5 DEF InsertLink, Answers, history, Goto
  <2>3. CASE LoadUser(r)
    BY <2>3, <1>3, <1>5 DEF LoadUser, Answers, history, Goto
  <2>4. CASE WriteVerified(r)
    BY <2>4, <1>3, <1>5 DEF WriteVerified, Answers, history, Goto
  <2> QED BY <1>16, <2>1, <2>2, <2>3, <2>4
<1> HIDE DEF TypeOK
<1> QED BY <1>0, <1>1, <1>2, <1>4, <1>6, <1>7, <1>8, <1>9, <1>10, <1>11, <1>12,
           <1>13, <1>14, <1>15, <1>16 DEF Next, Request, Purge, Time

-----------------------------------------------------------------------------
\* A step of one request leaves the others and the purges alone.
LEMMA RequestFrame ==
    ASSUME TypeOK, NEW r \in Requests, Request(r)
    PROVE  /\ \A q \in Requests \ {r} :
                /\ pc'[q] = pc[q] /\ ctx'[q] = ctx[q]
                /\ answer'[q] = answer[q] /\ began'[q] = began[q]
           /\ purging' = purging
<1> USE DEF TypeOK
<1>1. ASSUME NEW a \in Addresses, NEW b \in BOOLEAN, ReadAccount(r, a, b)
      PROVE  /\ \A q \in Requests \ {r} :
                  /\ pc'[q] = pc[q] /\ ctx'[q] = ctx[q]
                  /\ answer'[q] = answer[q] /\ began'[q] = began[q]
             /\ purging' = purging
  BY <1>1 DEF ReadAccount, Finish, Goto
<1>2. CASE InsertUser(r)
  BY <1>2 DEF InsertUser, Goto, history
<1>3. CASE InsertConflict(r) \/ CommitUser(r) \/ CommitLink(r) \/ CommitVerified(r) \/ Rollback(r)
  BY <1>3 DEF InsertConflict, CommitUser, CommitLink, CommitVerified, Rollback,
              Finish, history
<1>4. CASE ReadCooldown(r) \/ InsertLink(r) \/ LoadUser(r) \/ WriteVerified(r)
  BY <1>4 DEF ReadCooldown, InsertLink, LoadUser, WriteVerified, Finish, Goto, history
<1>5. ASSUME NEW l \in Links, ReadLink(r, l)
      PROVE  /\ \A q \in Requests \ {r} :
                  /\ pc'[q] = pc[q] /\ ctx'[q] = ctx[q]
                  /\ answer'[q] = answer[q] /\ began'[q] = began[q]
             /\ purging' = purging
  BY <1>5 DEF ReadLink, Finish, Goto
<1> QED BY <1>1, <1>2, <1>3, <1>4, <1>5 DEF Request

LEMMA OthersFrame ==
    ASSUME (\E p \in Purges : Purge(p)) \/ Time
    PROVE  UNCHANGED <<pc, ctx, answer, began, flooded>>
BY DEF Purge, PurgeStart, PurgeRow, PurgeCommit, PurgeLost, Time, CooldownPasses,
       LinkExpires, AccountAges, history

\* What an account may become, and by which step.
AccountSteps ==
    \A u \in Users :
        /\ users[u].status # "absent" => users'[u].status # "absent"
        /\ users[u].status = "absent" /\ users'[u].status # "absent" =>
              \E r \in Requests : CommitUser(r) /\ ctx[r].user = u
        /\ users[u].status = "purged" => users'[u].status = "purged"
        /\ Live(u) /\ users'[u].status # "live" =>
              \E p \in Purges : PurgeCommit(p) /\ Deletes(p, u)
        /\ users[u].status # "absent" =>
              users'[u].email = users[u].email /\ (users[u].verified => users'[u].verified)
        /\ users'[u].verified /\ ~users[u].verified =>
              \E r \in Requests : CommitVerified(r) /\ ctx[r].user = u

\* The same for a link.
LinkSteps ==
    \A l \in Links :
        /\ links[l].status # "absent" =>
              /\ links'[l].status # "absent"
              /\ links'[l].user = links[l].user
              /\ links'[l].recent => links[l].recent
              /\ links[l].used => links'[l].used
        /\ links[l].status = "absent" /\ links'[l].status # "absent" =>
              /\ links'[l].status = "live" /\ ~links'[l].used
              /\ \E r \in Requests : /\ CommitUser(r) \/ CommitLink(r)
                                     /\ links'[l].user = ctx[r].user
        /\ links[l].status # "live" /\ links'[l].status = "live" => links[l].status = "absent"
        /\ links[l].status = "live" /\ links'[l].status # "live" =>
              \E p \in Purges : PurgeCommit(p) /\ Deletes(p, links[l].user)
        /\ links'[l].used /\ ~links[l].used =>
              \E r \in Requests : CommitVerified(r) /\ ctx[r].link = l

LEMMA RowSteps == Typed /\ Reserved /\ [Next]_vars => AccountSteps /\ LinkSteps
<1> SUFFICES ASSUME Typed, Reserved, [Next]_vars PROVE AccountSteps /\ LinkSteps
  OBVIOUS
<1>t. TypeOK
  BY DEF Typed
<1>a. \A u \in Users : users[u].status \in {"absent", "live", "purged"}
  BY <1>t DEF TypeOK, User
<1>b. \A l \in Links : links[l].status \in {"absent", "live", "purged"}
  BY <1>t DEF TypeOK, Link
<1>u. ASSUME users' = users PROVE AccountSteps
  BY <1>u DEF AccountSteps, Live
<1>l. ASSUME links' = links PROVE LinkSteps
  BY <1>l DEF LinkSteps
<1>0. CASE UNCHANGED <<users, links>>
  BY <1>0, <1>u, <1>l
<1>1. ASSUME NEW r \in Requests, CommitUser(r) PROVE AccountSteps /\ LinkSteps
  <2>1. /\ ctx[r].user \in Users /\ ctx[r].email \in Addresses
        /\ users[ctx[r].user].status = "absent"
    BY <1>1, <1>t DEF CommitUser, TypeOK, Reserved
  <2>2. users' = [users EXCEPT ![ctx[r].user] = NewUser(ctx[r].email)]
    BY <1>1 DEF CommitUser
  <2>3. AccountSteps
    BY <1>1, <1>t, <2>1, <2>2, AddUser DEF AccountSteps, Live
  <2>4. PICK l \in Links : /\ links[l].status = "absent"
                           /\ links' = [links EXCEPT ![l] = NewLink(ctx[r].user)]
    BY <1>1 DEF CommitUser
  <2>5. LinkSteps
    BY <1>1, <1>t, <2>1, <2>4, AddLink DEF LinkSteps
  <2> QED BY <2>3, <2>5
<1>2. ASSUME NEW r \in Requests, CommitLink(r) PROVE AccountSteps /\ LinkSteps
  <2>1. ctx[r].user \in Users
    BY <1>2, <1>t DEF CommitLink, TypeOK
  <2>2. PICK l \in Links : /\ links[l].status = "absent"
                           /\ links' = [links EXCEPT ![l] = NewLink(ctx[r].user)]
    BY <1>2 DEF CommitLink
  <2>3. LinkSteps
    BY <1>2, <1>t, <2>1, <2>2, AddLink DEF LinkSteps
  <2> QED BY <1>2, <2>3, <1>u DEF CommitLink
<1>3. ASSUME NEW r \in Requests, CommitVerified(r) PROVE AccountSteps /\ LinkSteps
  <2>1. /\ ctx[r].user \in Users /\ ctx[r].link \in Links
    BY <1>3, <1>t DEF CommitVerified, TypeOK
  <2>2. AccountSteps
    BY <1>3, <1>t, <2>1, SetVerified DEF AccountSteps, Live, CommitVerified
  <2>3. LinkSteps
    BY <1>3, <1>t, <2>1, SetUsed DEF LinkSteps, CommitVerified
  <2> QED BY <2>2, <2>3
<1>4. ASSUME NEW p \in Purges, PurgeCommit(p) PROVE AccountSteps /\ LinkSteps
  <2>1. \A u \in Users : Deletes(p, u) => users[u].status # "absent"
    BY DEF Typed, DeletesRows
  <2>2. AccountSteps
    BY <1>4, <1>t, <1>a, <2>1, PurgeUsers DEF AccountSteps, Live
  <2>3. LinkSteps
    BY <1>4, <1>t, <1>b, PurgeLinks DEF LinkSteps, Deletes
  <2> QED BY <2>2, <2>3
<1>5. ASSUME NEW l \in Links, CooldownPasses(l) \/ LinkExpires(l)
      PROVE  AccountSteps /\ LinkSteps
  <2>1. LinkSteps
    BY <1>5, <1>t, LinkTime DEF LinkSteps
  <2> QED BY <1>5, <1>u, <2>1 DEF CooldownPasses, LinkExpires
<1>6. ASSUME NEW u \in Users, AccountAges(u) PROVE AccountSteps /\ LinkSteps
  <2>1. AccountSteps
    BY <1>6, <1>t, SetOld DEF AccountAges, AccountSteps, Live
  <2> QED BY <1>6, <1>l, <2>1 DEF AccountAges
<1>7. ASSUME NEW r \in Requests, Request(r),
             ~CommitUser(r), ~CommitLink(r), ~CommitVerified(r)
      PROVE  UNCHANGED <<users, links>>
  BY <1>7 DEF Request, ReadAccount, InsertUser, InsertConflict, ReadCooldown,
              InsertLink, ReadLink, LoadUser, WriteVerified, Rollback
<1>8. ASSUME NEW p \in Purges, Purge(p), ~PurgeCommit(p)
      PROVE  UNCHANGED <<users, links>>
  BY <1>8 DEF Purge, PurgeStart, PurgeRow, PurgeLost
<1>9. CASE UNCHANGED vars
  BY <1>0, <1>9 DEF vars
<1> QED BY <1>0, <1>1, <1>2, <1>3, <1>4, <1>5, <1>6, <1>7, <1>8, <1>9 DEF Next, Time
\* How a request comes to hold an account's index entry, or its row.
RequestSteps ==
    \A r \in Requests :
        /\ pc'[r] = "commit_user" =>
             \/ pc[r] = "commit_user" /\ ctx'[r] = ctx[r]
             \/ /\ InsertUser(r)
                /\ ctx'[r].email = ctx[r].email
                /\ ctx'[r].user \in Users
                /\ users[ctx'[r].user].status = "absent"
                /\ \A q \in Requests : ctx[q].user # ctx'[r].user
        /\ pc'[r] = "commit_link" =>
             /\ ctx'[r] = ctx[r]
             /\ pc[r] = "commit_link" \/ (InsertLink(r) /\ Live(ctx[r].user))
        /\ pc'[r] = "commit_verified" =>
             /\ ctx'[r] = ctx[r]
             /\ pc[r] = "commit_verified" \/ (WriteVerified(r) /\ Live(ctx[r].user))

LEMMA LockSteps == TypeOK /\ [Next]_vars => RequestSteps
<1> SUFFICES ASSUME TypeOK, [Next]_vars, NEW r \in Requests
             PROVE
        /\ pc'[r] = "commit_user" =>
             \/ pc[r] = "commit_user" /\ ctx'[r] = ctx[r]
             \/ /\ InsertUser(r)
                /\ ctx'[r].email = ctx[r].email
                /\ ctx'[r].user \in Users
                /\ users[ctx'[r].user].status = "absent"
                /\ \A q \in Requests : ctx[q].user # ctx'[r].user
        /\ pc'[r] = "commit_link" =>
             /\ ctx'[r] = ctx[r]
             /\ pc[r] = "commit_link" \/ (InsertLink(r) /\ Live(ctx[r].user))
        /\ pc'[r] = "commit_verified" =>
             /\ ctx'[r] = ctx[r]
             /\ pc[r] = "commit_verified" \/ (WriteVerified(r) /\ Live(ctx[r].user))
  BY DEF RequestSteps
<1>0. CASE pc'[r] = pc[r] /\ ctx'[r] = ctx[r]
  BY <1>0
<1> USE DEF TypeOK
<1>1. CASE InsertUser(r)
  <2>1. PICK u \in Users : /\ users[u].status = "absent"
                           /\ \A q \in Requests : ctx[q].user # u
                           /\ ctx' = [ctx EXCEPT ![r].user = u]
    BY <1>1 DEF InsertUser
  <2>2. pc'[r] = "commit_user"
    BY <1>1 DEF InsertUser, Goto
  <2>3. ctx[r] \in Context
    OBVIOUS
  <2>4. ctx'[r].user = u /\ ctx'[r].email = ctx[r].email
    BY <2>1, <2>3 DEF Context
  <2> QED BY <1>1, <2>1, <2>2, <2>4
<1>2. CASE ReadCooldown(r) \/ InsertLink(r) \/ LoadUser(r) \/ WriteVerified(r)
  BY <1>2 DEF ReadCooldown, InsertLink, LoadUser, WriteVerified, Finish, Goto
<1>3. CASE InsertConflict(r) \/ CommitUser(r) \/ CommitLink(r) \/ CommitVerified(r) \/ Rollback(r)
  BY <1>3 DEF InsertConflict, CommitUser, CommitLink, CommitVerified, Rollback, Finish
<1>4. ASSUME NEW a \in Addresses, NEW b \in BOOLEAN, ReadAccount(r, a, b)
      PROVE  pc'[r] \in {"idle", "insert", "cooldown"}
  BY <1>4 DEF ReadAccount, Finish, Goto
<1>5. ASSUME NEW l \in Links, ReadLink(r, l)
      PROVE  pc'[r] \in {"idle", "load_user"}
  BY <1>5 DEF ReadLink, Finish, Goto
<1>6. CASE Request(r)
  BY <1>1, <1>2, <1>3, <1>4, <1>5, <1>6 DEF Request
<1>7. CASE UNCHANGED vars
  BY <1>0, <1>7 DEF vars
<1>8. ASSUME NEW q \in Requests, q # r, Request(q) PROVE pc'[r] = pc[r] /\ ctx'[r] = ctx[r]
  BY <1>8, RequestFrame
<1>9. CASE (\E p \in Purges : Purge(p)) \/ Time
  BY <1>0, <1>9, OthersFrame
<1> QED BY <1>0, <1>6, <1>7, <1>8, <1>9 DEF Next

\* How an account comes to be in the set that a purge deletes.
LEMMA PurgeSteps ==
    ASSUME TypeOK, [Next]_vars, NEW p \in Purges, NEW u \in Users, Deletes(p, u)'
    PROVE  \/ /\ Deletes(p, u)
              /\ ~PurgeCommit(p)
           \/ /\ PurgeRow(p, u) /\ StillPurgeable(u)
<1> USE DEF TypeOK, Deletes
<1>0. CASE purging' = purging
  <2>1. ASSUME PurgeCommit(p) PROVE FALSE
    BY <1>0, <2>1 DEF PurgeCommit
  <2> QED BY <1>0, <2>1
<1>1. ASSUME NEW q \in Purges, PurgeStart(q)
      PROVE  Deletes(p, u) /\ ~PurgeCommit(p)
  <2>1. q # p /\ purging'[p] = purging[p]
    BY <1>1 DEF PurgeStart
  <2>2. ASSUME PurgeCommit(p) PROVE FALSE
    BY <2>1, <2>2 DEF PurgeCommit
  <2> QED BY <2>1, <2>2
<1>2. ASSUME NEW q \in Purges, NEW v \in Users, PurgeRow(q, v)
      PROVE  \/ Deletes(p, u) /\ ~PurgeCommit(p)
             \/ PurgeRow(p, u) /\ StillPurgeable(u)
  <2>1. CASE q # p
    <3>1. purging'[p] = purging[p]
      BY <1>2, <2>1 DEF PurgeRow
    <3>2. ASSUME PurgeCommit(p) PROVE FALSE
      BY <3>1, <3>2 DEF PurgeCommit
    <3> QED BY <3>1, <3>2
  <2>2. CASE q = p
    <3>1. purging'[p].deleted =
            IF StillPurgeable(v) THEN purging[p].deleted \cup {v} ELSE purging[p].deleted
      BY <1>2, <2>2 DEF PurgeRow
    <3>2. ASSUME PurgeCommit(p) PROVE FALSE
      BY <1>2, <2>2, <3>2 DEF PurgeCommit, PurgeRow
    <3> QED BY <1>2, <2>2, <3>1, <3>2
  <2> QED BY <2>1, <2>2
<1>3. ASSUME NEW q \in Purges, PurgeCommit(q) \/ PurgeLost(q)
      PROVE  Deletes(p, u) /\ ~PurgeCommit(p)
  <2>1. q # p /\ purging'[p] = purging[p]
    BY <1>3 DEF PurgeCommit, PurgeLost
  <2>2. ASSUME PurgeCommit(p) PROVE FALSE
    BY <2>1, <2>2 DEF PurgeCommit
  <2> QED BY <2>1, <2>2
<1>4. ASSUME NEW r \in Requests, Request(r) PROVE purging' = purging
  BY <1>4, RequestFrame
<1>5. CASE Time
  BY <1>0, <1>5 DEF Time, CooldownPasses, LinkExpires, AccountAges
<1>6. CASE UNCHANGED vars
  BY <1>0, <1>6 DEF vars
<1> QED BY <1>0, <1>1, <1>2, <1>3, <1>4, <1>5, <1>6 DEF Next, Purge

-----------------------------------------------------------------------------
LEMMA TypedStep == Typed /\ Reserved /\ [Next]_vars => Typed'
<1> SUFFICES ASSUME Typed, Reserved, [Next]_vars PROVE Typed'
  OBVIOUS
<1>1. TypeOK'
  BY TypeStep
<1>2. ASSUME NEW p \in Purges, NEW u \in Users, Deletes(p, u)'
      PROVE  users'[u].status # "absent"
  <2>1. users[u].status # "absent"
    BY <1>2, PurgeSteps DEF Typed, DeletesRows, StillPurgeable, Purgeable, Live
  <2> QED BY <2>1, RowSteps DEF AccountSteps
<1> QED BY <1>1, <1>2 DEF Typed, DeletesRows

\* Two registrations that found an address free: the second waits for the
\* first, and is in conflict once it has committed.
LEMMA ReservedStep == Typed /\ Reserved /\ [Next]_vars => Reserved'
<1> SUFFICES ASSUME Typed, Reserved, [Next]_vars PROVE Reserved'
  OBVIOUS
<1>t. TypeOK
  BY DEF Typed
<1>s. AccountSteps /\ RequestSteps
  BY <1>t, RowSteps, LockSteps
<1>c. ASSUME NEW r \in Requests, CommitUser(r)
      PROVE  /\ pc[r] = "commit_user" /\ pc'[r] = "idle"
             /\ users'[ctx[r].user].email = ctx[r].email
             /\ \A q \in Requests \ {r} : pc'[q] = pc[q] /\ ctx'[q] = ctx[q]
  <2>1. pc[r] = "commit_user" /\ pc'[r] = "idle"
    BY <1>c, <1>t DEF CommitUser, Finish, TypeOK
  <2>2. ctx[r].user \in Users /\ ctx[r].email \in Addresses
    BY <2>1, <1>t DEF TypeOK
  <2>3. users'[ctx[r].user].email = ctx[r].email
    BY <1>c, <1>t, <2>2, AddUser DEF CommitUser
  <2>4. \A q \in Requests \ {r} : pc'[q] = pc[q] /\ ctx'[q] = ctx[q]
    BY <1>c, <1>t, RequestFrame DEF Request
  <2> QED BY <2>1, <2>3, <2>4
<1>b. ASSUME NEW u \in Users, Live(u)'
      PROVE  \/ Live(u) /\ users'[u].email = users[u].email
             \/ \E r \in Requests : CommitUser(r) /\ ctx[r].user = u
  BY <1>b, <1>s, <1>t DEF AccountSteps, Live, TypeOK, User
<1>1. OneAccountPerAddress'
  <2> SUFFICES ASSUME NEW u \in Users, NEW v \in Users, Live(u)', Live(v)',
                      users'[u].email = users'[v].email, u # v
               PROVE  FALSE
    BY DEF OneAccountPerAddress
  <2>1. ASSUME NEW r \in Requests, CommitUser(r), NEW x \in Users, NEW y \in Users,
               ctx[r].user = x, Live(y)', users'[y].email = users'[x].email, x # y
        PROVE  FALSE
    <3>1. users'[y].email = ctx[r].email /\ pc[r] = "commit_user"
      BY <2>1, <1>c
    <3>2. ASSUME Live(y), users'[y].email = users[y].email PROVE FALSE
      BY <3>1, <3>2 DEF Reserved, AccountsOf
    <3>3. ASSUME NEW q \in Requests, CommitUser(q), ctx[q].user = y PROVE FALSE
      <4>1. q # r
        BY <2>1, <3>3
      <4>2. pc[q] = "commit_user" /\ users'[y].email = ctx[q].email
        BY <3>3, <1>c
      <4> QED BY <3>1, <4>1, <4>2 DEF Reserved
    <3> QED BY <2>1, <3>2, <3>3, <1>b
  <2> QED BY <2>1, <1>b DEF Reserved, OneAccountPerAddress
<1>2. ASSUME NEW r \in Requests, pc'[r] = "commit_user"
      PROVE  /\ users'[ctx'[r].user].status = "absent"
             /\ AccountsOf(ctx[r].email)' = {}
             /\ ctx'[r].email = ctx[r].email
  <2>0. /\ ctx'[r].email = ctx[r].email /\ ctx'[r].user \in Users
        /\ users[ctx'[r].user].status = "absent"
        /\ AccountsOf(ctx[r].email) = {}
    <3>1. CASE pc[r] = "commit_user" /\ ctx'[r] = ctx[r]
      BY <3>1, <1>t DEF Reserved, TypeOK
    <3>2. CASE InsertUser(r)
      BY <1>2, <3>2, <1>s, <1>t DEF RequestSteps, InsertUser, IndexFree
    <3> QED BY <1>2, <1>s, <3>1, <3>2 DEF RequestSteps
  <2>1. ASSUME NEW q \in Requests, CommitUser(q)
        PROVE  /\ ctx[q].user # ctx'[r].user
               /\ ctx[q].email # ctx[r].email
    <3>1. q # r /\ pc[q] = "commit_user" /\ pc[r] = "commit_user" /\ ctx'[r] = ctx[r]
      <4>1. q # r /\ pc[q] = "commit_user"
        BY <2>1, <1>c, <1>2
      <4>2. pc'[r] = pc[r] /\ ctx'[r] = ctx[r]
        BY <2>1, <1>c, <4>1
      <4> QED BY <4>1, <4>2, <1>2
    <3> QED BY <3>1 DEF Reserved
  <2>2. users'[ctx'[r].user].status = "absent"
    BY <2>0, <2>1, <1>s DEF AccountSteps
  <2>3. ASSUME NEW u \in Users, Live(u)', users'[u].email = ctx[r].email
        PROVE  FALSE
    <3>1. ASSUME Live(u), users'[u].email = users[u].email PROVE FALSE
      BY <2>0, <2>3, <3>1 DEF AccountsOf
    <3>2. ASSUME NEW q \in Requests, CommitUser(q), ctx[q].user = u PROVE FALSE
      BY <2>1, <2>3, <3>2, <1>c
    <3> QED BY <2>3, <3>1, <3>2, <1>b
  <2> QED BY <2>0, <2>2, <2>3 DEF AccountsOf
<1>3. ASSUME NEW r \in Requests, NEW q \in Requests, r # q,
             pc'[r] = "commit_user", pc'[q] = "commit_user"
      PROVE  ctx'[r].email # ctx'[q].email /\ ctx'[r].user # ctx'[q].user
  <2>1. ASSUME NEW x \in Requests, NEW y \in Requests, x # y, InsertUser(x),
               pc'[y] = "commit_user", ctx'[x].email = ctx[x].email,
               \A z \in Requests : ctx[z].user # ctx'[x].user
        PROVE  ctx'[x].email # ctx'[y].email /\ ctx'[x].user # ctx'[y].user
    <3>1. pc'[y] = pc[y] /\ ctx'[y] = ctx[y]
      BY <2>1, <1>t, RequestFrame DEF Request
    <3> QED BY <2>1, <3>1 DEF InsertUser
  <2>2. CASE /\ pc[r] = "commit_user" /\ ctx'[r] = ctx[r]
             /\ pc[q] = "commit_user" /\ ctx'[q] = ctx[q]
    BY <1>3, <2>2 DEF Reserved
  <2> QED BY <1>3, <2>1, <2>2, <1>s DEF RequestSteps
<1> QED
  <2>1. \A r \in Requests : (pc[r] = "commit_user")' =>
           /\ users'[ctx'[r].user].status = "absent"
           /\ AccountsOf(ctx[r].email)' = {}
    BY <1>2 DEF AccountsOf, Live
  <2> QED BY <1>1, <1>3, <2>1 DEF Reserved
\* A row lock is granted only on an account that is there, and not to a
\* request and a purge at once.
LEMMA LocksStep == Typed /\ Reserved /\ LocksHeld /\ [Next]_vars => LocksHeld'
<1> SUFFICES ASSUME Typed, Reserved, LocksHeld, [Next]_vars PROVE LocksHeld'
  OBVIOUS
<1>t. TypeOK
  BY DEF Typed
<1>s. AccountSteps /\ RequestSteps
  BY <1>t, RowSteps, LockSteps
\* Who holds a lock on u after the step held it before, or has got it now.
<1>g. ASSUME NEW r \in Requests, NEW u \in Users, Verifies(r, u)' \/ Shares(r, u)'
      PROVE  /\ Live(u)
             /\ \/ Verifies(r, u) \/ Shares(r, u)
                \/ /\ InsertLink(r) \/ WriteVerified(r)
                   /\ \A p \in Purges : ~Deletes(p, u)
  <2>1. /\ ctx'[r] = ctx[r] /\ ctx[r].user = u
        /\ \/ pc[r] \in {"commit_link", "commit_verified"}
           \/ (InsertLink(r) \/ WriteVerified(r)) /\ Live(u)
    BY <1>g, <1>s DEF RequestSteps, Verifies, Shares
  <2>2. CASE pc[r] \in {"commit_link", "commit_verified"}
    BY <2>1, <2>2 DEF LocksHeld, Verifies, Shares
  <2>3. CASE (InsertLink(r) \/ WriteVerified(r)) /\ Live(u)
    BY <2>1, <2>3 DEF InsertLink, WriteVerified
  <2> QED BY <2>1, <2>2, <2>3
<1>1. ASSUME NEW r \in Requests, NEW u \in Users, Verifies(r, u)' \/ Shares(r, u)'
      PROVE  Live(u)'
  <2>1. ASSUME NEW p \in Purges, PurgeCommit(p), Deletes(p, u) PROVE FALSE
    <3>1. pc' = pc /\ ctx' = ctx
      BY <2>1 DEF PurgeCommit
    <3> QED BY <1>1, <2>1, <3>1 DEF LocksHeld, Verifies, Shares
  <2> QED BY <1>1, <1>g, <1>s, <2>1 DEF AccountSteps, Live
<1>2. ASSUME NEW p \in Purges, NEW u \in Users, Deletes(p, u)'
      PROVE  /\ Live(u)' /\ ~users'[u].verified
             /\ \A r \in Requests : ~Verifies(r, u)' /\ ~Shares(r, u)'
             /\ \A q \in Purges : Deletes(q, u)' => p = q
  <2>1. CASE PurgeRow(p, u) /\ StillPurgeable(u)
    <3>1. users' = users /\ pc' = pc /\ ctx' = ctx
      BY <2>1 DEF PurgeRow
    <3>2. Live(u)' /\ ~users'[u].verified
      BY <2>1, <3>1 DEF StillPurgeable, Purgeable, Live
    <3>3. \A r \in Requests : ~Verifies(r, u)' /\ ~Shares(r, u)'
      BY <2>1, <3>1 DEF PurgeRow, Unlocked, Verifies, Shares
    <3>4. ASSUME NEW q \in Purges, Deletes(q, u)', q # p PROVE FALSE
      <4>1. purging'[q] = purging[q]
        BY <2>1, <3>4, <1>t DEF PurgeRow, TypeOK
      <4> QED BY <2>1, <3>4, <4>1 DEF PurgeRow, Unlocked, Deletes
    <3> QED BY <3>2, <3>3, <3>4
  <2>2. CASE Deletes(p, u) /\ ~PurgeCommit(p)
    <3>0. /\ Live(u) /\ ~users[u].verified
          /\ \A r \in Requests : ~Verifies(r, u) /\ ~Shares(r, u)
          /\ \A q \in Purges : Deletes(q, u) => p = q
      BY <2>2 DEF LocksHeld
    <3>1. Live(u)'
      BY <2>2, <3>0, <1>s DEF AccountSteps, Live
    <3>2. ~users'[u].verified
      <4>1. ASSUME NEW r \in Requests, CommitVerified(r), ctx[r].user = u PROVE FALSE
        BY <3>0, <4>1 DEF CommitVerified, Verifies
      <4> QED BY <3>0, <4>1, <1>s DEF AccountSteps
    <3>3. \A r \in Requests : ~Verifies(r, u)' /\ ~Shares(r, u)'
      BY <1>g, <2>2, <3>0
    <3>4. ASSUME NEW q \in Purges, Deletes(q, u)' PROVE p = q
      <4>1. CASE Deletes(q, u)
        BY <3>0, <4>1
      <4>2. CASE PurgeRow(q, u)
        BY <2>2, <4>2 DEF PurgeRow, Unlocked
      <4> QED BY <1>t, <3>4, <4>1, <4>2, PurgeSteps
    <3> QED BY <3>1, <3>2, <3>3, <3>4
  <2> QED BY <1>t, <1>2, <2>1, <2>2, PurgeSteps
<1> QED BY <1>1, <1>2 DEF LocksHeld

-----------------------------------------------------------------------------
\* A redemption keeps the link and the account that it has read.
LEMMA RedemptionSteps ==
    ASSUME TypeOK, [Next]_vars, NEW r \in Requests,
           pc'[r] \in {"load_user", "write", "commit_verified"}
    PROVE  \/ /\ pc[r] \in {"load_user", "write", "commit_verified"}
              /\ ctx'[r] = ctx[r] /\ began'[r] = began[r]
              /\ pc'[r] = "load_user" => pc[r] = "load_user"
              /\ pc'[r] # "load_user" /\ pc[r] = "load_user" => Redeemable(r)
           \/ /\ pc'[r] = "load_user"
              /\ \E l \in Links :
                   /\ links[l].status # "absent"
                   /\ ctx'[r].link = l /\ ctx'[r].user = links[l].user
                   /\ began'[r].verified = users[links[l].user].verified
              /\ UNCHANGED <<users, links>>
<1> USE DEF TypeOK
<1> DEFINE Goal ==
           \/ /\ pc[r] \in {"load_user", "write", "commit_verified"}
              /\ ctx'[r] = ctx[r] /\ began'[r] = began[r]
              /\ pc'[r] = "load_user" => pc[r] = "load_user"
              /\ pc'[r] # "load_user" /\ pc[r] = "load_user" => Redeemable(r)
           \/ /\ pc'[r] = "load_user"
              /\ \E l \in Links :
                   /\ links[l].status # "absent"
                   /\ ctx'[r].link = l /\ ctx'[r].user = links[l].user
                   /\ began'[r].verified = users[links[l].user].verified
              /\ UNCHANGED <<users, links>>
<1>0. ASSUME pc'[r] = pc[r], ctx'[r] = ctx[r], began'[r] = began[r] PROVE Goal
  BY <1>0
<1>1. ASSUME NEW q \in Requests, q # r, Request(q) PROVE Goal
  BY <1>0, <1>1, RequestFrame
<1>2. ASSUME NEW a \in Addresses, NEW b \in BOOLEAN, ReadAccount(r, a, b) PROVE FALSE
  BY <1>2 DEF ReadAccount, Finish, Goto
<1>3. ASSUME InsertUser(r) \/ InsertConflict(r) \/ CommitUser(r) \/ CommitLink(r)
               \/ CommitVerified(r) \/ Rollback(r) \/ ReadCooldown(r) \/ InsertLink(r)
      PROVE  FALSE
  BY <1>3 DEF InsertUser, InsertConflict, CommitUser, CommitLink, CommitVerified,
              Rollback, ReadCooldown, InsertLink, Finish, Goto
<1>4. ASSUME LoadUser(r) \/ WriteVerified(r) PROVE Goal
  BY <1>4 DEF LoadUser, WriteVerified, Finish, Goto, history
<1>5. ASSUME NEW l \in Links, ReadLink(r, l) PROVE Goal
  <2>1. /\ pc'[r] = "load_user"
        /\ ctx' = [ctx EXCEPT ![r] = [NoContext EXCEPT
              !.link = l, !.user = links[l].user, !.used = links[l].used]]
        /\ links[l].status # "absent" /\ UNCHANGED <<users, links>>
    BY <1>5 DEF ReadLink, Finish, Goto
  <2>2. ctx'[r].link = l /\ ctx'[r].user = links[l].user
    BY <2>1 DEF NoContext
  <2>3. began'[r].verified = users[links[l].user].verified
    BY <1>5 DEF ReadLink
  <2> QED BY <2>1, <2>2, <2>3
<1>6. CASE (\E p \in Purges : Purge(p)) \/ Time
  BY <1>0, <1>6, OthersFrame
<1>7. CASE UNCHANGED vars
  BY <1>0, <1>7 DEF vars, history
<1> HIDE DEF TypeOK
<1>8. CASE Request(r)
  BY <1>2, <1>3, <1>4, <1>5, <1>8 DEF Request
<1>9. Goal
  BY <1>1, <1>6, <1>7, <1>8 DEF Next
<1> QED BY <1>9

LEMMA LinkedStep ==
    Typed /\ Reserved /\ LocksHeld /\ Linked /\ [Next]_vars => Linked'
<1> SUFFICES ASSUME Typed, Reserved, LocksHeld, Linked, [Next]_vars PROVE Linked'
  OBVIOUS
<1>t. TypeOK /\ TypeOK'
  BY TypeStep DEF Typed
<1>s. AccountSteps /\ LinkSteps
  BY RowSteps
\* The account of a link that comes into being is there, and has not been
\* redeemed by it.
<1>n. ASSUME NEW l \in Links, links[l].status = "absent", links'[l].status # "absent"
      PROVE  Live(links[l].user)'
  <2>1. PICK r \in Requests : /\ CommitUser(r) \/ CommitLink(r)
                              /\ links'[l].user = ctx[r].user
    BY <1>n, <1>s DEF LinkSteps
  <2>2. CASE CommitUser(r)
    <3>1. ctx[r].user \in Users /\ ctx[r].email \in Addresses
      BY <2>2, <1>t DEF CommitUser, TypeOK
    <3> QED BY <2>1, <2>2, <3>1, <1>t, AddUser DEF CommitUser, Live
  <2>3. CASE CommitLink(r)
    <3>1. ctx[r].user \in Users /\ Shares(r, ctx[r].user) /\ users' = users
      BY <2>3, <1>t DEF CommitLink, Shares, TypeOK
    <3> QED BY <2>1, <3>1 DEF LocksHeld, Live
  <2> QED BY <2>1, <2>2, <2>3
<1>1. LinkWithAccount'
  <2>1. ASSUME NEW u \in Users, Live(u)'
        PROVE  \E l \in Links : links'[l].status = "live" /\ links'[l].user = u
    <3>1. CASE Live(u)
      <4>1. PICK l \in Links : links[l].status = "live" /\ links[l].user = u
        BY <3>1 DEF Linked, LinkWithAccount
      <4>2. ASSUME NEW p \in Purges, PurgeCommit(p), Deletes(p, u) PROVE FALSE
        BY <2>1, <4>2, <1>t, PurgeUsers DEF Live
      <4>3. links'[l].status = "live" /\ links'[l].user = u
        BY <4>1, <4>2, <1>s DEF LinkSteps
      <4> QED BY <4>3
    <3>2. CASE ~Live(u)
      <4>1. users[u].status = "absent"
        BY <2>1, <3>2, <1>s, <1>t DEF AccountSteps, Live, TypeOK, User
      <4>2. PICK r \in Requests : CommitUser(r) /\ ctx[r].user = u
        BY <2>1, <4>1, <1>s DEF AccountSteps, Live
      <4>3. PICK l \in Links : links' = [links EXCEPT ![l] = NewLink(u)]
        BY <4>2 DEF CommitUser
      <4> QED BY <4>3, <1>t, AddLink
    <3> QED BY <3>1, <3>2
  <2>2. ASSUME NEW l \in Links, links'[l].status = "live"
        PROVE  Live(links[l].user)'
    <3>1. CASE links[l].status = "live"
      <4>1. Live(links[l].user) /\ links[l].user \in Users /\ links'[l].user = links[l].user
        BY <3>1, <1>t, <1>s DEF Linked, LinkWithAccount, TypeOK, LinkSteps
      <4>2. ASSUME NEW p \in Purges, PurgeCommit(p), Deletes(p, links[l].user) PROVE FALSE
        BY <2>2, <3>1, <4>2, <1>t, PurgeLinks DEF Deletes
      <4> QED BY <4>1, <4>2, <1>s DEF AccountSteps, Live
    <3>2. CASE links[l].status # "live"
      BY <2>2, <3>2, <1>n, <1>s DEF LinkSteps
    <3> QED BY <3>1, <3>2
  <2> QED BY <2>1, <2>2 DEF LinkWithAccount, Live
<1>2. \A l \in Links :
        /\ links'[l].status = "absent" => ~links'[l].used
        /\ links'[l].status # "absent" => users'[links'[l].user].status # "absent"
  <2> SUFFICES ASSUME NEW l \in Links
               PROVE  /\ links'[l].status = "absent" => ~links'[l].used
                      /\ links'[l].status # "absent" => users'[links'[l].user].status # "absent"
    OBVIOUS
  <2>1. CASE links[l].status # "absent"
    <3>1. links[l].user \in Users /\ users[links[l].user].status # "absent"
      BY <2>1, <1>t DEF Linked, TypeOK
    <3> QED BY <2>1, <3>1, <1>s DEF AccountSteps, LinkSteps
  <2>2. CASE links[l].status = "absent" /\ links'[l].status # "absent"
    BY <2>2, <1>n DEF Live
  <2>3. CASE links[l].status = "absent" /\ links'[l].status = "absent"
    <3>1. ASSUME NEW r \in Requests, CommitVerified(r), ctx[r].link = l PROVE FALSE
      BY <2>3, <3>1 DEF CommitVerified, Linked
    <3> QED BY <2>3, <3>1, <1>s DEF Linked, LinkSteps
  <2> QED BY <2>1, <2>2, <2>3
<1>3. ASSUME NEW r \in Requests, pc'[r] \in {"load_user", "write", "commit_verified"}
      PROVE  /\ links'[ctx'[r].link].status # "absent"
             /\ links'[ctx'[r].link].user = ctx'[r].user
  <2>1. CASE /\ pc[r] \in {"load_user", "write", "commit_verified"}
             /\ ctx'[r] = ctx[r]
    <3>1. /\ ctx[r].link \in Links
          /\ links[ctx[r].link].status # "absent"
          /\ links[ctx[r].link].user = ctx[r].user
      BY <2>1, <1>t DEF Linked, TypeOK
    <3> QED BY <2>1, <3>1, <1>s DEF LinkSteps
  <2>2. CASE /\ \E l \in Links : /\ links[l].status # "absent"
                                 /\ ctx'[r].link = l /\ ctx'[r].user = links[l].user
             /\ UNCHANGED <<users, links>>
    BY <2>2
  <2> QED BY <1>3, <1>t, <2>1, <2>2, RedemptionSteps
\* The used link of a verified account, and the account of a used link.
<1>4. VerifiedByItsLink'
  <2>1. ASSUME NEW u \in Users, users'[u].verified
        PROVE  \E l \in Links : links'[l].user = u /\ links'[l].used
    <3>1. CASE users[u].verified
      <4>1. PICK l \in Links : links[l].user = u /\ links[l].used
        BY <3>1 DEF Linked, VerifiedByItsLink
      <4> QED BY <4>1, <1>s DEF Linked, LinkSteps
    <3>2. CASE ~users[u].verified
      <4>1. PICK r \in Requests : CommitVerified(r) /\ ctx[r].user = u
        BY <2>1, <3>2, <1>s DEF AccountSteps
      <4>2. /\ ctx[r].link \in Links /\ links[ctx[r].link].user = u
            /\ links[ctx[r].link].status # "absent"
        BY <4>1, <1>t DEF CommitVerified, Linked, TypeOK
      <4>3. links'[ctx[r].link].used
        BY <4>1, <4>2, <1>t, SetUsed DEF CommitVerified
      <4> QED BY <4>2, <4>3, <1>s DEF LinkSteps
    <3> QED BY <3>1, <3>2
  <2>2. ASSUME NEW u \in Users, NEW l \in Links, links'[l].user = u, links'[l].used
        PROVE  users'[u].verified
    <3>1. CASE links[l].used
      <4>1. links[l].status # "absent" /\ links[l].user = u
        BY <2>2, <3>1, <1>s DEF Linked, LinkSteps
      <4>2. users[u].verified /\ users[u].status # "absent"
        BY <3>1, <4>1 DEF Linked, VerifiedByItsLink
      <4> QED BY <4>2, <1>s DEF AccountSteps
    <3>2. CASE ~links[l].used
      <4>1. PICK r \in Requests : CommitVerified(r) /\ ctx[r].link = l
        BY <2>2, <3>2, <1>s DEF LinkSteps
      <4>2. /\ links[l].status # "absent" /\ links[l].user = ctx[r].user
            /\ ctx[r].user \in Users
        BY <4>1, <1>t DEF CommitVerified, Linked, TypeOK
      <4>3. ctx[r].user = u
        BY <2>2, <4>2, <1>s DEF LinkSteps
      <4> QED BY <4>1, <4>2, <4>3, <1>t, SetVerified DEF CommitVerified
    <3> QED BY <3>1, <3>2
  <2>3. ASSUME NEW u \in Users PROVE users'[u].verified \in BOOLEAN
    BY <1>t DEF TypeOK, User
  <2> QED BY <2>1, <2>2, <2>3 DEF VerifiedByItsLink
<1> QED BY <1>1, <1>2, <1>3, <1>4 DEF Linked
-----------------------------------------------------------------------------
\* What a request was answered, and what it remembers of its start.
LEMMA AnswerSteps ==
    ASSUME TypeOK, [Next]_vars, NEW r \in Requests
    PROVE  \/ answer'[r] = answer[r] /\ began'[r] = began[r]
           \/ answer'[r] # "verified"
           \/ CommitVerified(r) /\ began'[r] = began[r]
<1> USE DEF TypeOK
<1> DEFINE Goal == \/ answer'[r] = answer[r] /\ began'[r] = began[r]
                   \/ answer'[r] # "verified"
                   \/ CommitVerified(r) /\ began'[r] = began[r]
<1>1. ASSUME NEW q \in Requests, q # r, Request(q) PROVE Goal
  BY <1>1, RequestFrame
<1>2. ASSUME NEW a \in Addresses, NEW b \in BOOLEAN, ReadAccount(r, a, b) PROVE Goal
  BY <1>2 DEF ReadAccount, Finish
<1>3. CASE InsertUser(r)
  BY <1>3 DEF InsertUser, history
<1>4. CASE InsertConflict(r) \/ CommitUser(r) \/ CommitLink(r) \/ Rollback(r)
  BY <1>4 DEF InsertConflict, CommitUser, CommitLink, Rollback, Finish
<1>5. CASE ReadCooldown(r) \/ InsertLink(r) \/ LoadUser(r) \/ WriteVerified(r)
  BY <1>5 DEF ReadCooldown, InsertLink, LoadUser, WriteVerified, Finish, history
<1>6. ASSUME NEW l \in Links, ReadLink(r, l) PROVE Goal
  BY <1>6 DEF ReadLink, Finish
<1>7. CASE CommitVerified(r)
  BY <1>7 DEF CommitVerified, history
<1> HIDE DEF TypeOK
<1>8. CASE Request(r)
  BY <1>2, <1>3, <1>4, <1>5, <1>6, <1>7, <1>8 DEF Request
<1>9. CASE (\E p \in Purges : Purge(p)) \/ Time
  BY <1>9, OthersFrame
<1>10. CASE UNCHANGED vars
  BY <1>10 DEF vars, history
<1> QED BY <1>1, <1>8, <1>9, <1>10 DEF Next

\* A request that is about to mail has found no link in its cooldown.
LEMMA MailSteps ==
    ASSUME TypeOK, [Next]_vars, NEW r \in Requests
    PROVE  /\ \/ began'[r] = began[r]
              \/ /\ \A l \in began'[r].warm : links[l].status # "absent"
                 /\ pc'[r] \notin {"issue", "commit_link"}
           /\ pc'[r] \in {"issue", "commit_link"} =>
                /\ ctx'[r] = ctx[r]
                /\ \/ pc[r] \in {"issue", "commit_link"}
                   \/ Eligible(ctx[r].user)
<1> USE DEF TypeOK
<1> DEFINE Goal ==
           /\ \/ began'[r] = began[r]
              \/ /\ \A l \in began'[r].warm : links[l].status # "absent"
                 /\ pc'[r] \notin {"issue", "commit_link"}
           /\ pc'[r] \in {"issue", "commit_link"} =>
                /\ ctx'[r] = ctx[r]
                /\ \/ pc[r] \in {"issue", "commit_link"}
                   \/ Eligible(ctx[r].user)
<1>1. ASSUME NEW q \in Requests, q # r, Request(q) PROVE Goal
  BY <1>1, RequestFrame
<1>2. ASSUME NEW a \in Addresses, NEW b \in BOOLEAN, ReadAccount(r, a, b) PROVE Goal
  <2>1. pc'[r] \in {"idle", "insert", "cooldown"}
    BY <1>2 DEF ReadAccount, Finish, Goto
  <2>2. began'[r].warm = {l \in Links : links[l].status = "live" /\ links[l].recent}
    BY <1>2 DEF ReadAccount
  <2> QED BY <2>1, <2>2
<1>3. CASE InsertUser(r)
  BY <1>3 DEF InsertUser, Goto, history
<1>4. CASE InsertConflict(r) \/ CommitUser(r) \/ CommitLink(r) \/ CommitVerified(r) \/ Rollback(r)
  BY <1>4 DEF InsertConflict, CommitUser, CommitLink, CommitVerified, Rollback,
              Finish, history
<1>5. CASE ReadCooldown(r) \/ InsertLink(r) \/ LoadUser(r) \/ WriteVerified(r)
  BY <1>5 DEF ReadCooldown, InsertLink, LoadUser, WriteVerified, Finish, Goto, history
<1>6. ASSUME NEW l \in Links, ReadLink(r, l) PROVE Goal
  <2>1. pc'[r] \in {"idle", "load_user"} /\ began'[r].warm = {}
    BY <1>6 DEF ReadLink, Finish, Goto
  <2> QED BY <2>1
<1> HIDE DEF TypeOK
<1>7. CASE Request(r)
  BY <1>2, <1>3, <1>4, <1>5, <1>6, <1>7 DEF Request
<1>8. CASE (\E p \in Purges : Purge(p)) \/ Time
  BY <1>8, OthersFrame
<1>9. CASE UNCHANGED vars
  BY <1>9 DEF vars, history
<1> QED BY <1>1, <1>7, <1>8, <1>9 DEF Next

LEMMA RememberedStep ==
    Typed /\ Reserved /\ Linked /\ Remembered /\ [Next]_vars => Remembered'
<1> SUFFICES ASSUME Typed, Reserved, Linked, Remembered, [Next]_vars PROVE Remembered'
  OBVIOUS
<1>t. TypeOK /\ TypeOK'
  BY TypeStep DEF Typed
<1>s. AccountSteps /\ LinkSteps
  BY RowSteps
<1>1. LateRedemptionRefused'
  <2> SUFFICES ASSUME NEW r \in Requests, answer'[r] = "verified"
               PROVE  ~began'[r].verified
    BY DEF LateRedemptionRefused
  <2>1. CASE answer'[r] = answer[r] /\ began'[r] = began[r]
    BY <2>1 DEF Remembered, LateRedemptionRefused
  <2>2. CASE CommitVerified(r) /\ began'[r] = began[r]
    BY <2>2 DEF Remembered, CommitVerified
  <2> QED BY <1>t, <2>1, <2>2, AnswerSteps
<1>2. CooldownHeld'
  <2>1. ASSUME NEW r \in Requests, CommitLink(r) PROVE flooded' = flooded
    BY <2>1 DEF CommitLink, Remembered
  <2>2. ASSUME NEW r \in Requests, Request(r), ~CommitLink(r) PROVE flooded' = flooded
    BY <2>2 DEF Request, ReadAccount, InsertUser, InsertConflict, CommitUser,
                ReadCooldown, InsertLink, ReadLink, LoadUser, WriteVerified,
                CommitVerified, Rollback, history
  <2>3. flooded' = flooded
    BY <2>1, <2>2, OthersFrame DEF Next, vars, history
  <2> QED BY <2>3 DEF Remembered, CooldownHeld
<1>3. ASSUME NEW r \in Requests, pc'[r] \in {"load_user", "write", "commit_verified"}
      PROVE  /\ pc'[r] = "load_user" /\ began'[r].verified => users'[ctx'[r].user].verified
             /\ pc'[r] \in {"write", "commit_verified"} => ~began'[r].verified
  <2>1. CASE /\ pc[r] \in {"load_user", "write", "commit_verified"}
             /\ ctx'[r] = ctx[r] /\ began'[r] = began[r]
             /\ pc'[r] = "load_user" => pc[r] = "load_user"
             /\ pc'[r] # "load_user" /\ pc[r] = "load_user" => Redeemable(r)
    <3>1. /\ ctx[r].user \in Users /\ ctx[r].link \in Links
          /\ links[ctx[r].link].status # "absent"
          /\ links[ctx[r].link].user = ctx[r].user
      BY <2>1, <1>t DEF TypeOK, Linked
    <3>2. users[ctx[r].user].status # "absent"
      BY <3>1 DEF Linked
    <3>3. users[ctx[r].user].verified => users'[ctx[r].user].verified
      BY <3>1, <3>2, <1>s DEF AccountSteps
    <3>4. pc'[r] \in {"write", "commit_verified"} => ~began'[r].verified
      BY <2>1 DEF Redeemable, Remembered
    <3>5. pc'[r] = "load_user" /\ began'[r].verified => users'[ctx'[r].user].verified
      BY <2>1, <3>3 DEF Remembered
    <3> QED BY <3>4, <3>5
  <2>2. CASE /\ pc'[r] = "load_user"
             /\ \E l \in Links :
                  /\ links[l].status # "absent"
                  /\ ctx'[r].link = l /\ ctx'[r].user = links[l].user
                  /\ began'[r].verified = users[links[l].user].verified
             /\ UNCHANGED <<users, links>>
    BY <2>2
  <2> QED BY <1>t, <1>3, <2>1, <2>2, RedemptionSteps
<1>4. ASSUME NEW r \in Requests, NEW l \in began'[r].warm
      PROVE  links'[l].status # "absent"
  <2>1. l \in Links
    BY <1>t, <1>4 DEF TypeOK
  <2>2. links[l].status # "absent"
    BY <1>t, <1>4, MailSteps DEF Remembered
  <2> QED BY <2>1, <2>2, <1>s DEF LinkSteps
<1>5. ASSUME NEW r \in Requests, pc'[r] \in {"issue", "commit_link"}
      PROVE  ~Floods(r)'
  <2>1. began'[r] = began[r] /\ ctx'[r] = ctx[r]
    BY <1>t, <1>5, MailSteps
  <2>2. ASSUME NEW l \in began[r].warm,
               links'[l].status = "live", links'[l].recent,
               links'[l].user = ctx[r].user
        PROVE  FALSE
    <3>1. l \in Links /\ links[l].status # "absent"
      BY <1>t, <2>2 DEF TypeOK, Remembered
    <3>2. /\ links[l].status = "live" /\ links[l].recent
          /\ links[l].user = ctx[r].user
      BY <2>2, <3>1, <1>s DEF LinkSteps
    <3>3. CASE pc[r] \in {"issue", "commit_link"}
      BY <2>2, <3>2, <3>3 DEF Remembered, Floods
    <3>4. CASE Eligible(ctx[r].user)
      BY <3>1, <3>2, <3>4 DEF Eligible
    <3> QED BY <1>t, <1>5, <3>3, <3>4, MailSteps
  <2> QED BY <2>1, <2>2 DEF Floods
<1>6. \A r \in Requests : pc'[r] = "load_user" /\ began'[r].verified => users'[ctx'[r].user].verified
  BY <1>3
<1>7. \A r \in Requests : pc'[r] \in {"write", "commit_verified"} => ~began'[r].verified
  BY <1>3
<1> QED BY <1>1, <1>2, <1>4, <1>5, <1>6, <1>7 DEF Remembered

-----------------------------------------------------------------------------
LEMMA InvInit == Init => Inv
<1> SUFFICES ASSUME Init PROVE Inv
  OBVIOUS
<1>1. TypeOK
  BY TypeInit
<1>2. /\ \A u \in Users : ~Live(u) /\ ~users[u].verified
      /\ \A l \in Links : links[l].status = "absent" /\ ~links[l].used
      /\ \A r \in Requests : pc[r] = "idle" /\ answer[r] = "none" /\ began[r].warm = {}
      /\ \A p \in Purges, u \in Users : ~Deletes(p, u)
      /\ flooded = {}
  BY DEF Init, Live, Deletes
<1>3. Typed
  BY <1>1, <1>2 DEF Typed, DeletesRows
<1>4. Reserved
  BY <1>2 DEF Reserved, OneAccountPerAddress
<1>5. LocksHeld
  BY <1>2 DEF LocksHeld, Verifies, Shares
<1>6. Linked
  BY <1>2 DEF Linked, LinkWithAccount, VerifiedByItsLink
<1>7. Remembered
  BY <1>2 DEF Remembered, LateRedemptionRefused, CooldownHeld
<1> QED BY <1>3, <1>4, <1>5, <1>6, <1>7 DEF Inv

LEMMA InvStep == Inv /\ [Next]_vars => Inv'
BY TypedStep, ReservedStep, LocksStep, LinkedStep, RememberedStep DEF Inv

LEMMA InvAlways == Spec => []Inv
BY InvInit, InvStep, PTL DEF Spec

\* Every reachable state is well typed.
THEOREM TypeCorrect == Spec => []TypeOK
<1>1. Inv => TypeOK
  BY DEF Inv, Typed
<1> QED BY <1>1, InvAlways, PTL

\* Two registrations that both found an address free leave one live account.
THEOREM OneAccountAlways == Spec => []OneAccountPerAddress
<1>1. Inv => OneAccountPerAddress
  BY DEF Inv, Reserved
<1> QED BY <1>1, InvAlways, PTL

\* No account without a link, no link without its account, whatever the purge
\* deletes and whoever mails a link meanwhile.
THEOREM LinkWithAccountAlways == Spec => []LinkWithAccount
<1>1. Inv => LinkWithAccount
  BY DEF Inv, Linked
<1> QED BY <1>1, InvAlways, PTL

\* An account is verified exactly when one of its links is used.
THEOREM VerifiedByItsLinkAlways == Spec => []VerifiedByItsLink
<1>1. Inv => VerifiedByItsLink
  BY DEF Inv, Linked
<1> QED BY <1>1, InvAlways, PTL

\* A redemption that begins after the account was verified is refused.
THEOREM LateRedemptionAlwaysRefused == Spec => []LateRedemptionRefused
<1>1. Inv => LateRedemptionRefused
  BY DEF Inv, Remembered
<1> QED BY <1>1, InvAlways, PTL

\* No request mails within a cooldown that had begun before it.
THEOREM CooldownAlwaysHeld == Spec => []CooldownHeld
<1>1. Inv => CooldownHeld
  BY DEF Inv, Remembered
<1> QED BY <1>1, InvAlways, PTL

\* The purge never removes a verified account, whenever it was verified.
THEOREM VerifiedForever == Spec => VerifiedNeverPurged
<1>1. Inv /\ [Next]_vars =>
        [\A u \in Users : Live(u) /\ users[u].verified => users'[u].status = "live"]_vars
  <2> SUFFICES ASSUME Inv, [Next]_vars, NEW u \in Users, Live(u), users[u].verified
               PROVE  users'[u].status = "live"
    OBVIOUS
  <2>1. ASSUME NEW p \in Purges, Deletes(p, u) PROVE FALSE
    BY <2>1 DEF Inv, LocksHeld
  <2>2. AccountSteps
    BY RowSteps DEF Inv
  <2> QED BY <2>1, <2>2 DEF AccountSteps
<1> QED BY <1>1, InvAlways, PTL DEF Spec, VerifiedNeverPurged
-----------------------------------------------------------------------------
(* Refinement: every step of a request, of a purge or of time is a step of  *)
(* AddressBook, or changes nothing that it has.                             *)

\* A link that is gone went with its account.
GoneTogether == \A l \in Links : links[l].status = "purged" => ~Live(links[l].user)

BookInv == Inv /\ GoneTogether

LEMMA GoneTogetherStep == BookInv /\ [Next]_vars => GoneTogether'
<1> SUFFICES ASSUME BookInv, [Next]_vars, NEW l \in Links, links'[l].status = "purged"
             PROVE  ~Live(links[l].user)'
  BY DEF GoneTogether, Live
<1>t. TypeOK /\ AccountSteps /\ LinkSteps
  BY RowSteps DEF BookInv, Inv, Typed
<1>1. CASE links[l].status = "purged"
  <2>1. /\ links[l].user \in Users /\ links'[l].user = links[l].user
        /\ users[links[l].user].status # "absent" /\ ~Live(links[l].user)
    BY <1>1, <1>t DEF BookInv, GoneTogether, Inv, Linked, TypeOK, LinkSteps
  <2>2. users[links[l].user].status = "purged"
    BY <2>1, <1>t DEF TypeOK, User, Live
  <2> QED BY <2>1, <2>2, <1>t DEF AccountSteps, Live
<1>2. CASE links[l].status = "live"
  <2>1. links[l].user \in Users /\ links'[l].user = links[l].user
    BY <1>2, <1>t DEF TypeOK, LinkSteps
  <2>2. PICK p \in Purges : PurgeCommit(p) /\ Deletes(p, links[l].user)
    BY <1>2, <1>t DEF LinkSteps
  <2> QED BY <2>1, <2>2, <1>t, PurgeUsers DEF Live
<1>3. CASE links[l].status = "absent"
  BY <1>3, <1>t DEF LinkSteps
<1> QED BY <1>1, <1>2, <1>3, <1>t DEF TypeOK, Link

LEMMA BookInvAlways == Spec => []BookInv
<1>1. Init => BookInv
  BY InvInit DEF Init, BookInv, GoneTogether
<1>2. BookInv /\ [Next]_vars => BookInv'
  BY InvStep, GoneTogetherStep DEF BookInv
<1> QED BY <1>1, <1>2, PTL DEF Spec

\* What AddressBook sees of a row.
LEMMA AccountSeen ==
    ASSUME NEW u \in Users, TypeOK
    PROVE  /\ users[u].status = "absent" <=> AccountOf(u).status = "absent"
           /\ Live(u) /\ ~users[u].verified <=> AccountOf(u).status = "unverified"
           /\ Live(u) <=> AccountOf(u).status \in {"unverified", "verified"}
           /\ AccountOf(u).address = users[u].email
<1> DEFINE s == AccountOf(u).status
<1>1. users[u].status \in {"absent", "live", "purged"}
  BY DEF TypeOK, User
<1>2. AccountOf(u).address = users[u].email
  BY DEF AccountOf, Live
<1>3. ~Live(u) => s = users[u].status
  BY DEF AccountOf, Live
<1>4. Live(u) /\ users[u].verified => s = "verified"
  BY DEF AccountOf, Live
<1>5. Live(u) /\ ~users[u].verified => s = "unverified"
  BY DEF AccountOf, Live
<1> HIDE DEF s
<1>6. /\ users[u].status = "absent" <=> s = "absent"
      /\ Live(u) /\ ~users[u].verified <=> s = "unverified"
      /\ Live(u) <=> s \in {"unverified", "verified"}
  BY <1>1, <1>3, <1>4, <1>5 DEF Live
<1> QED BY <1>2, <1>6 DEF s

LEMMA AccountKept ==
    ASSUME NEW u \in Users, users'[u].status = users[u].status,
           users'[u].email = users[u].email, users'[u].verified <=> users[u].verified
    PROVE  AccountOf(u)' = AccountOf(u)
BY DEF AccountOf, Live

LEMMA LinkKept ==
    ASSUME NEW l \in Links, links'[l].status = links[l].status,
           links'[l].user = links[l].user, links'[l].used <=> links[l].used
    PROVE  LinkOf(l)' = LinkOf(l)
BY DEF LinkOf

\* A link row that a transaction adds.
LEMMA AddLinkSeen ==
    ASSUME TypeOK, NEW l \in Links, NEW u \in Users, links[l].status = "absent",
           links' = [links EXCEPT ![l] = NewLink(u)]
    PROVE  /\ LinksSeen[l].state = "absent"
           /\ LinksSeen' = [LinksSeen EXCEPT ![l] = Book!New(u)]
<1>1. LinkOf(l)' = Book!New(u)
  BY AddLink DEF LinkOf, Book!New
<1>2. \A k \in Links \ {l} : LinkOf(k)' = LinkOf(k)
  BY AddLink, LinkKept
<1>3. LinkOf(l).state = "absent"
  BY DEF LinkOf
<1>4. LinksSeen' = [LinksSeen EXCEPT ![l] = Book!New(u)]
  BY <1>1, <1>2 DEF LinksSeen
<1> QED BY <1>3, <1>4 DEF LinksSeen

LEMMA CommitUserRegisters ==
    ASSUME BookInv, NEW r \in Requests, CommitUser(r)
    PROVE  Book!Next
<1>t. TypeOK
  BY DEF BookInv, Inv, Typed
<1>1. PICK u \in Users, a \in Addresses : u = ctx[r].user /\ a = ctx[r].email
  BY <1>t DEF CommitUser, TypeOK
<1>2. users[u].status = "absent" /\ AccountsOf(a) = {}
  BY <1>1 DEF CommitUser, BookInv, Inv, Reserved
<1>3. users' = [users EXCEPT ![u] = NewUser(a)]
  BY <1>1 DEF CommitUser
<1>4. PICK l \in Links : links[l].status = "absent" /\ links' = [links EXCEPT ![l] = NewLink(u)]
  BY <1>1 DEF CommitUser
<1>5. AccountsSeen[u].status = "absent"
  BY <1>2, <1>t, AccountSeen DEF AccountsSeen
<1>6. ~Book!Taken(a)
  BY <1>2, <1>t, AccountSeen DEF Book!Taken, Book!Present, AccountsSeen, AccountsOf
<1>7. AccountsSeen' = [AccountsSeen EXCEPT ![u] = [status |-> "unverified", address |-> a]]
  <2>1. AccountOf(u)' = [status |-> "unverified", address |-> a]
    BY <1>3, <1>t, AddUser DEF AccountOf, Live
  <2>2. \A v \in Users \ {u} : AccountOf(v)' = AccountOf(v)
    BY <1>3, <1>t, AddUser, AccountKept
  <2> QED BY <2>1, <2>2 DEF AccountsSeen
<1>8. Book!Register(u, a, l)
  BY <1>4, <1>5, <1>6, <1>7, <1>t, AddLinkSeen DEF Book!Register
<1> QED BY <1>8 DEF Book!Next

LEMMA CommitLinkMails ==
    ASSUME BookInv, NEW r \in Requests, CommitLink(r)
    PROVE  Book!Next
<1>t. TypeOK
  BY DEF BookInv, Inv, Typed
<1>1. PICK u \in Users : u = ctx[r].user
  BY <1>t DEF CommitLink, TypeOK
<1>2. Live(u)
  BY <1>1 DEF CommitLink, BookInv, Inv, LocksHeld, Shares
<1>3. PICK l \in Links : links[l].status = "absent" /\ links' = [links EXCEPT ![l] = NewLink(u)]
  BY <1>1 DEF CommitLink
<1>4. Book!Present(u)
  BY <1>2, <1>t, AccountSeen DEF Book!Present, AccountsSeen
<1>5. AccountsSeen' = AccountsSeen
  BY DEF CommitLink, AccountsSeen, AccountOf, Live
<1>6. Book!Mail(u, l)
  BY <1>3, <1>4, <1>5, <1>t, AddLinkSeen DEF Book!Mail
<1> QED BY <1>6 DEF Book!Next

\* The lock on the account, and that its links go with it, keep the link that
\* was read without a lock.
LEMMA CommitVerifiedRedeems ==
    ASSUME BookInv, NEW r \in Requests, CommitVerified(r)
    PROVE  Book!Next
<1>t. TypeOK
  BY DEF BookInv, Inv, Typed
<1>1. PICK u \in Users, l \in Links : u = ctx[r].user /\ l = ctx[r].link
  BY <1>t DEF CommitVerified, TypeOK
<1>2. Live(u)
  BY <1>1 DEF CommitVerified, BookInv, Inv, LocksHeld, Verifies
<1>3. links[l].user = u /\ links[l].status = "live"
  <2>1. links[l].user = u /\ links[l].status # "absent"
    BY <1>1 DEF CommitVerified, BookInv, Inv, Linked
  <2>2. links[l].status # "purged"
    BY <1>2, <2>1 DEF BookInv, GoneTogether
  <2> QED BY <2>1, <2>2, <1>t DEF TypeOK, Link
<1>4. LinksSeen[l].user = u /\ LinksSeen[l].state \in {"usable", "used"}
  BY <1>3 DEF LinksSeen, LinkOf
<1>5. Book!Present(u)
  BY <1>2, <1>t, AccountSeen DEF Book!Present, AccountsSeen
<1>6. AccountsSeen' = [AccountsSeen EXCEPT ![u].status = "verified"]
  <2>0. users' = [users EXCEPT ![u].verified = TRUE]
    BY <1>1 DEF CommitVerified
  <2>1. AccountOf(u)' = [AccountOf(u) EXCEPT !.status = "verified"]
    <3>1. users'[u].status = "live" /\ users'[u].verified /\ users'[u].email = users[u].email
      BY <2>0, <1>2, <1>t, SetVerified DEF Live
    <3> QED BY <3>1 DEF AccountOf, Live
  <2>2. \A v \in Users \ {u} : AccountOf(v)' = AccountOf(v)
    BY <2>0, <1>t, SetVerified, AccountKept
  <2> QED BY <2>1, <2>2 DEF AccountsSeen
<1>7. LinksSeen' = [LinksSeen EXCEPT ![l].state = "used"]
  <2>0. links' = [links EXCEPT ![l].used = TRUE]
    BY <1>1 DEF CommitVerified
  <2>1. LinkOf(l)' = [LinkOf(l) EXCEPT !.state = "used"]
    <3>1. links'[l].status = "live" /\ links'[l].used /\ links'[l].user = links[l].user
      BY <2>0, <1>3, <1>t, SetUsed
    <3> QED BY <3>1 DEF LinkOf
  <2>2. \A k \in Links \ {l} : LinkOf(k)' = LinkOf(k)
    BY <2>0, <1>t, SetUsed, LinkKept
  <2> QED BY <2>1, <2>2 DEF LinksSeen
<1>8. Book!Redeem(l)
  BY <1>4, <1>5, <1>6, <1>7 DEF Book!Redeem
<1> QED BY <1>8 DEF Book!Next

\* Rows deleted one after the other, each looked at again under its lock, go
\* as if at once.
LEMMA PurgeCommitPurges ==
    ASSUME BookInv, NEW p \in Purges, PurgeCommit(p)
    PROVE  Book!Next
<1>t. TypeOK
  BY DEF BookInv, Inv, Typed
<1>1. PICK gone \in SUBSET Users : gone = purging[p].deleted
  BY <1>t DEF TypeOK
<1>2. \A u \in Users : u \in gone <=> Deletes(p, u)
  BY <1>1 DEF Deletes
<1>3. \A u \in gone : AccountsSeen[u].status = "unverified"
  BY <1>2, <1>t, AccountSeen DEF BookInv, Inv, LocksHeld, AccountsSeen
<1>4. AccountsSeen' = [u \in Users |->
         IF u \in gone THEN [AccountsSeen[u] EXCEPT !.status = "purged"] ELSE AccountsSeen[u]]
  <2>1. ASSUME NEW u \in Users
        PROVE  AccountOf(u)' = IF u \in gone THEN [AccountOf(u) EXCEPT !.status = "purged"]
                                             ELSE AccountOf(u)
    <3>1. CASE u \in gone
      <4>1. users'[u].status = "purged" /\ users'[u].email = users[u].email
        BY <3>1, <1>2, <1>t, PurgeUsers
      <4>2. AccountOf(u)' = [status |-> "purged", address |-> users[u].email]
        BY <4>1 DEF AccountOf, Live
      <4>3. [AccountOf(u) EXCEPT !.status = "purged"]
              = [status |-> "purged", address |-> users[u].email]
        BY DEF AccountOf, Live
      <4> QED BY <3>1, <4>2, <4>3
    <3>2. CASE u \notin gone
      BY <3>2, <1>2, <1>t, PurgeUsers, AccountKept
    <3> QED BY <3>1, <3>2
  <2> QED BY <2>1 DEF AccountsSeen
<1>5. LinksSeen' = [k \in Links |->
         IF LinksSeen[k].state = "usable" /\ LinksSeen[k].user \in gone
         THEN [LinksSeen[k] EXCEPT !.state = "purged"] ELSE LinksSeen[k]]
  <2>1. ASSUME NEW k \in Links
        PROVE  LinkOf(k)' = IF LinkOf(k).state = "usable" /\ LinkOf(k).user \in gone
                            THEN [LinkOf(k) EXCEPT !.state = "purged"] ELSE LinkOf(k)
    <3>1. CASE links[k].status = "live" /\ links[k].user \in gone
      <4>1. links'[k].status = "purged" /\ links'[k].user = links[k].user
        BY <3>1, <1>1, <1>t, PurgeLinks
      <4>2. ~users[links[k].user].verified
        BY <3>1, <1>2 DEF BookInv, Inv, LocksHeld
      <4>3. ~links[k].used
        BY <3>1, <4>2 DEF BookInv, Inv, Linked, VerifiedByItsLink
      <4>4. LinkOf(k)' = [state |-> "purged", user |-> links[k].user]
        BY <4>1 DEF LinkOf
      <4>5. LinkOf(k) = [state |-> "usable", user |-> links[k].user]
        BY <3>1, <4>3 DEF LinkOf
      <4> QED BY <3>1, <4>4, <4>5
    <3>2. CASE ~(links[k].status = "live" /\ links[k].user \in gone)
      <4>1. LinkOf(k)' = LinkOf(k)
        BY <3>2, <1>1, <1>t, PurgeLinks, LinkKept
      <4>2. ~(LinkOf(k).state = "usable" /\ LinkOf(k).user \in gone)
        BY <3>2, <1>t DEF LinkOf, TypeOK, Link
      <4> QED BY <4>1, <4>2
    <3> QED BY <3>1, <3>2
  <2> QED BY <2>1 DEF LinksSeen
<1>6. Book!Purge(gone)
  BY <1>3, <1>4, <1>5 DEF Book!Purge
<1> QED BY <1>6 DEF Book!Next

\* What neither statement touches, AddressBook does not see.
LEMMA RowsUnseen ==
    ASSUME UNCHANGED <<users, links>>
    PROVE  UNCHANGED Book!vars
BY DEF Book!vars, AccountsSeen, LinksSeen, AccountOf, Live, LinkOf

\* Time changes only what is left out.
LEMMA TimeUnseen ==
    ASSUME TypeOK, Time
    PROVE  UNCHANGED Book!vars
<1>1. ASSUME NEW l \in Links, CooldownPasses(l) \/ LinkExpires(l)
      PROVE  UNCHANGED Book!vars
  <2>1. \A k \in Links : LinkOf(k)' = LinkOf(k)
    BY <1>1, LinkTime, LinkKept
  <2>2. AccountsSeen' = AccountsSeen
    BY <1>1 DEF CooldownPasses, LinkExpires, AccountsSeen, AccountOf, Live
  <2> QED BY <2>1, <2>2 DEF Book!vars, LinksSeen
<1>2. ASSUME NEW u \in Users, AccountAges(u)
      PROVE  UNCHANGED Book!vars
  <2>1. \A v \in Users : AccountOf(v)' = AccountOf(v)
    BY <1>2, SetOld, AccountKept DEF AccountAges
  <2>2. LinksSeen' = LinksSeen
    BY <1>2 DEF AccountAges, LinksSeen, LinkOf
  <2> QED BY <2>1, <2>2 DEF Book!vars, AccountsSeen
<1> QED BY <1>1, <1>2 DEF Time

LEMMA BookStep == BookInv /\ [Next]_vars => [Book!Next]_(Book!vars)
<1> SUFFICES ASSUME BookInv, [Next]_vars PROVE Book!Next \/ UNCHANGED Book!vars
  OBVIOUS
<1>t. TypeOK
  BY DEF BookInv, Inv, Typed
<1>1. ASSUME NEW r \in Requests, Request(r) PROVE Book!Next \/ UNCHANGED Book!vars
  <2>1. CASE CommitUser(r) \/ CommitLink(r) \/ CommitVerified(r)
    BY <2>1, CommitUserRegisters, CommitLinkMails, CommitVerifiedRedeems
  <2>2. CASE ~(CommitUser(r) \/ CommitLink(r) \/ CommitVerified(r))
    <3>1. UNCHANGED <<users, links>>
      BY <1>1, <2>2 DEF Request, ReadAccount, InsertUser, InsertConflict, ReadCooldown,
                InsertLink, ReadLink, LoadUser, WriteVerified, Rollback
    <3> QED BY <3>1, RowsUnseen
  <2> QED BY <2>1, <2>2
<1>2. ASSUME NEW p \in Purges, Purge(p) PROVE Book!Next \/ UNCHANGED Book!vars
  <2>1. CASE PurgeCommit(p)
    BY <2>1, PurgeCommitPurges
  <2>2. CASE ~PurgeCommit(p)
    <3>1. UNCHANGED <<users, links>>
      BY <1>2, <2>2 DEF Purge, PurgeStart, PurgeRow, PurgeLost
    <3> QED BY <3>1, RowsUnseen
  <2> QED BY <2>1, <2>2
<1>3. CASE Time
  BY <1>3, <1>t, TimeUnseen
<1>4. CASE UNCHANGED vars
  <2>1. UNCHANGED <<users, links>>
    BY <1>4 DEF vars
  <2> QED BY <2>1, RowsUnseen
<1> QED BY <1>1, <1>2, <1>3, <1>4 DEF Next

LEMMA BookInit == Init => Book!Init
BY DEF Init, Book!Init, AccountsSeen, LinksSeen, AccountOf, Live, LinkOf

\* Registration, resend, redemption and purge, interleaved at every unlocked
\* read and lock wait, write the rows that the same operations would write as
\* single steps (register_user.py:39, resend_verification.py:33,
\* verify_email.py:21, repositories.py:271).
THEOREM BookRefinement == Spec => ImplementsAddressBook
<1>1. Init => Book!Init
  BY BookInit
<1>2. BookInv /\ [Next]_vars => [Book!Next]_(Book!vars)
  BY BookStep
<1> QED BY <1>1, <1>2, BookInvAlways, PTL DEF Spec, ImplementsAddressBook, Book!Spec
=============================================================================
