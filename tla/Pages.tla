-------------------------------- MODULE Pages --------------------------------
(***************************************************************************)
(* The four lists that are read page by page: the settings and the          *)
(* reference data (categories, materials, colours) in ascending order, the  *)
(* notifications of a user and the accounts with the newest first. An       *)
(* instance is about one of them; Init chooses which.                       *)
(*                                                                          *)
(* A client walks the list: it asks for the first page, then for the one    *)
(* after the cursor that came with the last, with a limit of its choice and *)
(* one filter throughout. Each page is one query, and between two of them   *)
(* rows are added, changed and deleted.                                     *)
(*                                                                          *)
(* Of a row is kept: its sort key (a key, a name, a creation time); `mine`, *)
(* a fact about it that never changes (it has the prefix, it is the user's  *)
(* own, its address contains the search term); `flag`, which its list       *)
(* filters on (it has the type; it is read; it is archived; it is active);  *)
(* and `verified`, of accounts only.                                        *)
(*                                                                          *)
(* History: `served` counts how often a row came in a page of the walk,     *)
(* `stable` are the rows that were in the list, at the same place of it,    *)
(* ever since the walk began, `moved` those whose sort key has changed.     *)
(***************************************************************************)
EXTENDS Integers, FiniteSets

CONSTANTS
    Ids,            \* ids of rows, in the order of the database
    Keys,           \* sort keys, in the order of the database
    Limits,         \* page sizes
    Searches,       \* whether the accounts are walked with a search term, without
    Nil             \* no cursor, no filter

ASSUME PagesAssumption ==
    /\ Ids \subseteq Int
    /\ Keys \subseteq Int /\ Keys # {}
    /\ Limits \subseteq Nat \ {0}
    /\ Searches \subseteq BOOLEAN
    /\ Nil \notin BOOLEAN
    /\ Nil \notin [key : Keys, id : Ids]

VARIABLES
    list, filter,   \* the list, and the filter of the walk
    rows,
    cursor,         \* the next_cursor of the last page
    done,           \* the last page had none
    served, stable, moved   \* history

walk == <<list, filter>>
vars == <<walk, rows, cursor, done, served, stable, moved>>

Lists == {"settings", "notifications", "reference", "users"}

Filter == [mine : BOOLEAN, flag : BOOLEAN \cup {Nil}, verified : BOOLEAN \cup {Nil}]

Row == [status : {"absent", "present", "gone"}, key : Keys,
        mine : BOOLEAN, flag : BOOLEAN, verified : BOOLEAN]

\* A row that is not there, yet or any more.
NoRow(status) == [status |-> status, key |-> CHOOSE k \in Keys : TRUE,
                  mine |-> FALSE, flag |-> FALSE, verified |-> FALSE]

-----------------------------------------------------------------------------
\* The WHERE clause of each list_page.

SettingsWhere(row) ==
    /\ filter.mine => row.mine
    /\ filter.flag # Nil => row.flag = filter.flag

NotificationsWhere(row) ==
    /\ row.mine
    /\ filter.flag # Nil => row.flag = filter.flag

ReferenceWhere(row) == filter.flag # Nil => ~row.flag

UsersWhere(row) ==
    /\ filter.verified # Nil => row.verified = filter.verified
    /\ filter.flag # Nil => row.flag = filter.flag
    /\ filter.mine => row.mine

Matches(row) ==
    /\ row.status = "present"
    /\ \/ list = "settings" /\ SettingsWhere(row)
       \/ list = "notifications" /\ NotificationsWhere(row)
       \/ list = "reference" /\ ReferenceWhere(row)
       \/ list = "users" /\ UsersWhere(row)

\* The filters that the query parameters of each list can express.

SettingsFilters == [mine : BOOLEAN, flag : {Nil, TRUE}, verified : {Nil}]

NotificationsFilters == [mine : {TRUE}, flag : BOOLEAN \cup {Nil}, verified : {Nil}]

\* include_deleted, or only those that are not archived
ReferenceFilters == [mine : {FALSE}, flag : {Nil, FALSE}, verified : {Nil}]

UsersFilters == [mine : Searches, flag : BOOLEAN \cup {Nil}, verified : BOOLEAN \cup {Nil}]

-----------------------------------------------------------------------------
Place(i) == [key |-> rows[i].key, id |-> i]

Lexically(p, q) == p.key < q.key \/ (p.key = q.key /\ p.id < q.id)

\* ORDER BY: does p come before q in the list? `key` is unique in the
\* settings, so that the id decides nothing there.
Precedes(p, q) ==
    \/ list = "settings" /\ p.key < q.key
    \/ list = "reference" /\ Lexically(p, q)
    \/ list \in {"notifications", "users"} /\ Lexically(q, p)

\* Fault: the comparison leaves the id out.
BeyondByKey(p) ==
    \/ cursor = Nil
    \/ list \in {"settings", "reference"} /\ cursor.key < p.key
    \/ list \in {"notifications", "users"} /\ p.key < cursor.key

\* Fault: the comparison includes the place of the cursor.
BeyondOrAt(p) == cursor = Nil \/ Precedes(cursor, p) \/ p = cursor

\* `after`: the row-value comparison with the cursor.
Beyond(p) == cursor = Nil \/ Precedes(cursor, p)

Found == {i \in Ids : Matches(rows[i]) /\ Beyond(Place(i))}

\* Fault: the cursor is the sort key alone.
EncodeKey(i) == [key |-> rows[i].key]

\* _encode_cursor, and what _decode_cursor makes of it
EncodeCursor(i) == Place(i)

\* page[-1]
CursorRow(i, page) ==
    /\ i \in page
    /\ \A j \in page \ {i} : Precedes(Place(j), Place(i))

\* Fault: every page comes with a cursor.
LastPageNever(page) == FALSE

\* has_more is false: the query, which asks for one row more than the page
\* may have, found none.
LastPage(page) == page = Found

\* The first `limit` rows found.
NextPage(limit, page) ==
    /\ ~done
    /\ Cardinality(page) <= limit
    /\ page # Found => Cardinality(page) = limit
    /\ \A i \in page, j \in Found \ page : Precedes(Place(i), Place(j))
    /\ \/ /\ ~LastPage(page)
          /\ \E i \in Found : CursorRow(i, page) /\ cursor' = EncodeCursor(i)
          /\ UNCHANGED done
       \/ /\ LastPage(page)
          /\ done' = TRUE
          /\ UNCHANGED cursor
    /\ served' = [i \in Ids |-> IF i \in page THEN served[i] + 1 ELSE served[i]]
    /\ UNCHANGED <<walk, rows, stable, moved>>

-----------------------------------------------------------------------------
\* A row becomes what `row` says. The writers matter as long as the walk lasts.
Write(i, row) ==
    /\ ~done
    /\ rows' = [rows EXCEPT ![i] = row]
    /\ stable' = IF Matches(row) /\ row.key = rows[i].key THEN stable ELSE stable \ {i}
    /\ moved' = IF rows[i].status = row.status /\ row.key # rows[i].key
                THEN moved \cup {i} ELSE moved
    /\ UNCHANGED <<walk, cursor, done, served>>

\* create_notification. created_at is the time at which the transaction
\* began, so a row may come to be behind rows that have been read.
CreateNotification(i, key, mine) ==
    /\ list = "notifications"
    /\ rows[i].status = "absent"
    /\ Write(i, [status |-> "present", key |-> key, mine |-> mine, flag |-> FALSE,
                 verified |-> FALSE])

\* set_read_state
SetReadState(i, read) ==
    /\ list = "notifications"
    /\ rows[i].status = "present"
    /\ Write(i, [rows[i] EXCEPT !.flag = read])

CreateValue(i, name) ==
    /\ list = "reference"
    /\ rows[i].status = "absent"
    /\ Write(i, [status |-> "present", key |-> name, mine |-> FALSE, flag |-> FALSE,
                 verified |-> FALSE])

RenameValue(i, name) ==
    /\ list = "reference"
    /\ rows[i].status = "present"
    /\ ~rows[i].flag
    /\ Write(i, [rows[i] EXCEPT !.key = name])

ArchiveValue(i) ==
    /\ list = "reference"
    /\ rows[i].status = "present"
    /\ ~rows[i].flag
    /\ Write(i, [rows[i] EXCEPT !.flag = TRUE])

\* An account is registered. Of created_at the same is true as above.
Register(i, key, mine) ==
    /\ list = "users"
    /\ rows[i].status = "absent"
    /\ Write(i, [status |-> "present", key |-> key, mine |-> mine, flag |-> TRUE,
                 verified |-> FALSE])

Verify(i) ==
    /\ list = "users"
    /\ rows[i].status = "present"
    /\ ~rows[i].verified
    /\ Write(i, [rows[i] EXCEPT !.verified = TRUE])

SetActive(i, active) ==
    /\ list = "users"
    /\ rows[i].status = "present"
    /\ Write(i, [rows[i] EXCEPT !.flag = active])

\* The purge of unverified accounts deletes one.
Purge(i) ==
    /\ list = "users"
    /\ rows[i].status = "present"
    /\ ~rows[i].verified
    /\ Write(i, NoRow("gone"))

-----------------------------------------------------------------------------
\* A population of each list before the walk. The settings are those of the
\* registry, each with a key of its own.
Population(row) ==
    \/ row = NoRow("absent")
    \/ /\ row.status = "present"
       /\ list = "reference" => ~row.mine
       /\ list = "users" => row.mine \in Searches
       /\ list # "users" => ~row.verified

Init ==
    /\ \/ list = "settings" /\ filter \in SettingsFilters
       \/ list = "notifications" /\ filter \in NotificationsFilters
       \/ list = "reference" /\ filter \in ReferenceFilters
       \/ list = "users" /\ filter \in UsersFilters
    /\ rows \in [Ids -> {row \in Row : Population(row)}]
    /\ list = "settings" => \A i, j \in Ids :
         rows[i].status = "present" /\ rows[j].status = "present" /\ rows[i].key = rows[j].key
            => i = j
    /\ cursor = Nil
    /\ done = FALSE
    /\ served = [i \in Ids |-> 0]
    /\ stable = {i \in Ids : Matches(rows[i])}
    /\ moved = {}

Walk == \E limit \in Limits, page \in SUBSET Found : NextPage(limit, page)

Writer ==
    \E i \in Ids :
        \/ \E key \in Keys, mine \in BOOLEAN : CreateNotification(i, key, mine)
        \/ \E read \in BOOLEAN : SetReadState(i, read)
        \/ \E name \in Keys : CreateValue(i, name) \/ RenameValue(i, name)
        \/ ArchiveValue(i)
        \/ \E key \in Keys, mine \in Searches : Register(i, key, mine)
        \/ Verify(i)
        \/ \E active \in BOOLEAN : SetActive(i, active)
        \/ Purge(i)

Next == Walk \/ Writer

\* The client asks for the next page as long as there is one.
Spec == Init /\ [][Next]_vars /\ WF_vars(Walk)

-----------------------------------------------------------------------------
\* Properties

\* Every variable has its type.
TypeOK ==
    /\ list \in Lists
    /\ filter \in Filter
    /\ rows \in [Ids -> Row]
    /\ cursor \in [key : Keys, id : Ids] \cup {Nil}
    /\ done \in BOOLEAN
    /\ served \in [Ids -> Nat]
    /\ stable \subseteq Ids
    /\ moved \subseteq Ids

\* A row that was in the list, at one place, from the beginning of the walk
\* is in exactly one of its pages, whatever was written meanwhile and however
\* many rows share its sort key (engagement repositories.py:97).
StableServedOnce ==
    \A i \in stable : served[i] <= 1 /\ (done => served[i] = 1)

\* No row is in two pages, not even one that left the list and came back,
\* unless an administrator renamed it in between.
TwiceOnlyIfMoved == \A i \in Ids \ moved : served[i] <= 1

\* However often rows are added and renamed ahead of it, a walk comes to an
\* end (notifications.py:101).
WalkEnds == <>done
=============================================================================
