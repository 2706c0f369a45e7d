----------------------------- MODULE PagesProofs -----------------------------
(***************************************************************************)
(* The safety of the paged lists, for every number of rows, every order and *)
(* every page size. A row counts as passed once the cursor is at it or      *)
(* beyond it. The invariant relates passing to being served: of a row that  *)
(* was stable they are the same, of a row that was not moved the one        *)
(* follows from the other. Places are only compared, never counted, so what *)
(* is needed of the order is that it is strict.                             *)
(***************************************************************************)
EXTENDS Pages, TLAPS

Places == [key : Keys, id : Ids]

Passed(i) == done \/ ~Beyond(Place(i))

StableInv ==
    \A i \in stable : Matches(rows[i]) /\ served[i] = IF Passed(i) THEN 1 ELSE 0

ServedInv ==
    \A i \in Ids :
        /\ rows[i].status = "absent" => served[i] = 0
        /\ i \notin moved =>
             /\ served[i] <= 1
             /\ served[i] = 1 => Passed(i) \/ rows[i].status = "gone"

IInv == TypeOK /\ StableInv /\ ServedInv

-----------------------------------------------------------------------------
\* The order of a list is strict (platform, engagement, catalog and identity
\* repositories.py: order_by).
LEMMA Strict ==
    ASSUME NEW p \in Places, NEW q \in Places, Precedes(p, q)
    PROVE  ~Precedes(q, p) /\ p # q
<1>1. /\ p.key \in Int /\ p.id \in Int
      /\ q.key \in Int /\ q.id \in Int
  BY PagesAssumption DEF Places
<1> QED
  BY <1>1 DEF Precedes, Lexically

\* ... and transitive.
LEMMA Transitive ==
    ASSUME NEW p \in Places, NEW q \in Places, NEW r \in Places,
           Precedes(p, q), Precedes(q, r)
    PROVE  Precedes(p, r)
<1>1. /\ p.key \in Int /\ p.id \in Int
      /\ q.key \in Int /\ q.id \in Int
      /\ r.key \in Int /\ r.id \in Int
  BY PagesAssumption DEF Places
<1> QED
  BY <1>1 DEF Precedes, Lexically

LEMMA PlaceTyped ==
    ASSUME TypeOK, NEW i \in Ids
    PROVE  Place(i) \in Places
BY DEF TypeOK, Row, Place, Places

LEMMA NoRowTyped ==
    ASSUME NEW status \in {"absent", "gone"}
    PROVE  NoRow(status) \in Row /\ NoRow(status).status = status
<1>1. (CHOOSE k \in Keys : TRUE) \in Keys
  BY PagesAssumption
<1> QED
  BY <1>1 DEF NoRow, Row

-----------------------------------------------------------------------------
LEMMA InitIInv == Init => IInv
<1> SUFFICES ASSUME Init PROVE IInv
  OBVIOUS
<1>1. TypeOK
  <2>1. list \in Lists /\ filter \in Filter
    BY PagesAssumption DEF Init, Lists, Filter, SettingsFilters, NotificationsFilters,
       ReferenceFilters, UsersFilters
  <2>2. rows \in [Ids -> Row]
    BY DEF Init
  <2> QED
    BY <2>1, <2>2 DEF Init, TypeOK
<1>2. StableInv
  BY DEF Init, StableInv, Passed, Beyond
<1>3. ServedInv
  BY DEF Init, ServedInv
<1> QED
  BY <1>1, <1>2, <1>3 DEF IInv

LEMMA PagePreserves ==
    ASSUME IInv, NEW limit \in Limits, NEW page \in SUBSET Found, NextPage(limit, page)
    PROVE  IInv'
<1>1. rows' = rows /\ list' = list /\ filter' = filter /\ stable' = stable /\ moved' = moved
  BY DEF NextPage, walk
<1>2. served' = [i \in Ids |-> IF i \in page THEN served[i] + 1 ELSE served[i]]
  BY DEF NextPage
<1>3. TypeOK
  BY DEF IInv
<1>4. \A i \in Ids : Place(i)' = Place(i) /\ Place(i) \in Places
  BY <1>1, <1>3, PlaceTyped DEF Place
<1>5. \A i \in page : i \in Ids /\ Matches(rows[i]) /\ Beyond(Place(i)) /\ ~done
  BY DEF Found, NextPage
<1>6. TypeOK'
  <2>1. cursor' \in Places \cup {Nil} /\ done' \in BOOLEAN
    BY <1>3, <1>4 DEF NextPage, EncodeCursor, TypeOK, Places, Found
  <2>2. served' \in [Ids -> Nat]
    BY <1>2, <1>3 DEF TypeOK
  <2> QED
    BY <1>1, <1>3, <2>1, <2>2 DEF TypeOK, Places
<1>7. \A i \in Ids : Passed(i)' <=> (Passed(i) \/ i \in page
                                     \/ (~Matches(rows[i]) /\ Passed(i)'))
  <2>1. CASE LastPage(page)
    <3>1. done' /\ page = Found
      BY <2>1 DEF NextPage, LastPage
    <3>2. \A i \in Ids : Matches(rows[i]) => Passed(i) \/ i \in page
      BY <3>1 DEF Found, Passed
    <3> QED
      BY <3>1, <3>2 DEF Passed
  <2>2. CASE ~LastPage(page)
    <3>1. PICK l \in Found : CursorRow(l, page) /\ cursor' = EncodeCursor(l)
      BY <2>2 DEF NextPage
    <3>2. /\ l \in page /\ l \in Ids
          /\ cursor' = Place(l)
          /\ Beyond(Place(l))
          /\ ~done /\ ~done'
          /\ Place(l) \in Places
          /\ Place(l) # Nil
          /\ \A j \in page \ {l} : Precedes(Place(j), Place(l))
      BY <2>2, <3>1, <1>4, <1>5, PagesAssumption DEF CursorRow, EncodeCursor, NextPage, Places
    <3>3. \A p \in Places : Beyond(p)' <=> Precedes(Place(l), p)
      BY <1>1, <3>2 DEF Beyond, Precedes
    <3>4. \A i \in page : Passed(i)'
      <4> SUFFICES ASSUME NEW i \in page PROVE ~Precedes(Place(l), Place(i))
        BY <1>4, <1>5, <3>3 DEF Passed
      <4> QED
        BY <1>4, <1>5, <3>2, Strict
    <3>5. \A i \in Ids : Passed(i) => Passed(i)'
      <4> SUFFICES ASSUME NEW i \in Ids, ~Beyond(Place(i)), Precedes(Place(l), Place(i))
                   PROVE FALSE
        BY <1>4, <3>2, <3>3 DEF Passed
      <4>1. cursor \in Places /\ Precedes(cursor, Place(l))
        BY <1>3, <3>2 DEF Beyond, TypeOK, Places
      <4>2. Precedes(cursor, Place(i))
        BY <1>4, <3>2, <4>1, Transitive
      <4> QED
        BY <4>2 DEF Beyond
    <3>6. \A i \in Ids : Matches(rows[i]) /\ ~Passed(i) /\ i \notin page => ~Passed(i)'
      <4> SUFFICES ASSUME NEW i \in Found \ page PROVE ~Passed(i)'
        BY DEF Found, Passed
      <4>1. Precedes(Place(l), Place(i))
        BY <3>2 DEF NextPage
      <4> QED
        BY <1>4, <3>2, <3>3, <4>1 DEF Passed, Found
    <3> QED
      BY <3>4, <3>5, <3>6
  <2> QED
    BY <2>1, <2>2
<1>8. \A i \in page : ~Passed(i)
  BY <1>5 DEF Passed
<1>9. StableInv'
  <2> SUFFICES ASSUME NEW i \in stable
               PROVE (Matches(rows[i]) /\ served[i] = IF Passed(i) THEN 1 ELSE 0)'
    BY <1>1 DEF StableInv
  <2>1. i \in Ids /\ Matches(rows[i]) /\ served[i] = IF Passed(i) THEN 1 ELSE 0
    BY <1>3 DEF IInv, StableInv, TypeOK
  <2>2. Matches(rows[i])'
    BY <1>1, <2>1 DEF Matches, SettingsWhere, NotificationsWhere, ReferenceWhere, UsersWhere
  <2>3. Passed(i)' <=> Passed(i) \/ i \in page
    BY <1>7, <2>1
  <2>4. CASE i \in page
    BY <1>2, <1>8, <2>1, <2>2, <2>3, <2>4
  <2>5. CASE i \notin page
    BY <1>2, <2>1, <2>2, <2>3, <2>5
  <2> QED
    BY <2>4, <2>5
<1>10. ServedInv'
  <2> SUFFICES ASSUME NEW i \in Ids
               PROVE (/\ rows[i].status = "absent" => served[i] = 0
                      /\ i \notin moved =>
                           /\ served[i] <= 1
                           /\ served[i] = 1 => Passed(i) \/ rows[i].status = "gone")'
    BY DEF ServedInv
  <2>1. /\ rows[i].status = "absent" => served[i] = 0
        /\ i \notin moved =>
             /\ served[i] <= 1
             /\ served[i] = 1 => Passed(i) \/ rows[i].status = "gone"
        /\ served[i] \in Nat
    BY <1>3 DEF IInv, ServedInv, TypeOK
  <2>2. i \in page => rows[i].status = "present"
    BY <1>5 DEF Matches
  <2>3. (Passed(i) => Passed(i)') /\ (i \in page => Passed(i)' /\ ~Passed(i))
    BY <1>7, <1>8
  <2>4. CASE i \in page
    <3>1. served'[i] = served[i] + 1 /\ rows[i].status = "present"
      BY <1>2, <2>2, <2>4
    <3>2. i \notin moved => served[i] = 0
      BY <2>1, <2>3, <2>4, <3>1
    <3> QED
      BY <1>1, <2>3, <2>4, <3>1, <3>2
  <2>5. CASE i \notin page
    BY <1>1, <1>2, <2>1, <2>3, <2>5
  <2> QED
    BY <2>4, <2>5
<1> QED
  BY <1>6, <1>9, <1>10 DEF IInv

-----------------------------------------------------------------------------
\* What the writers have in common: a row that is gone is never written, and
\* none is written to be absent.
LEMMA WritePreserves ==
    ASSUME IInv, NEW i \in Ids, NEW row \in Row, row.status # "absent",
           rows[i].status # "gone", Write(i, row)
    PROVE  IInv'
<1>1. /\ list' = list /\ filter' = filter /\ cursor' = cursor
      /\ done' = done /\ served' = served /\ ~done
      /\ rows' = [rows EXCEPT ![i] = row]
  BY DEF Write, walk
<1>2. TypeOK
  BY DEF IInv
<1>3. /\ rows'[i] = row
      /\ \A j \in Ids \ {i} : rows'[j] = rows[j]
  BY <1>1, <1>2 DEF TypeOK
<1>4. TypeOK'
  BY <1>1, <1>2 DEF TypeOK, Write
<1>5. /\ stable' \subseteq stable
      /\ i \in stable' => Matches(row) /\ row.key = rows[i].key
      /\ moved \subseteq moved'
      /\ i \notin moved' => rows[i].status # row.status \/ row.key = rows[i].key
  BY DEF Write
<1>6. \A j \in Ids : rows'[j].key = rows[j].key => (Passed(j)' <=> Passed(j))
  BY <1>1 DEF Passed, Beyond, Place, Precedes
<1>7. StableInv'
  <2> SUFFICES ASSUME NEW j \in stable'
               PROVE Matches(rows[j])' /\ served'[j] = IF Passed(j)' THEN 1 ELSE 0
    BY DEF StableInv
  <2>1. j \in Ids /\ Matches(rows[j]) /\ served[j] = IF Passed(j) THEN 1 ELSE 0
    BY <1>2, <1>5 DEF IInv, StableInv, TypeOK
  <2>2. rows'[j].key = rows[j].key
    BY <1>3, <1>5, <2>1
  <2>3. Matches(rows[j])'
    <3>1. CASE j = i
      BY <1>1, <1>3, <1>5, <3>1 DEF Matches, SettingsWhere, NotificationsWhere,
         ReferenceWhere, UsersWhere
    <3>2. CASE j # i
      BY <1>1, <1>3, <2>1, <3>2 DEF Matches, SettingsWhere, NotificationsWhere,
         ReferenceWhere, UsersWhere
    <3> QED
      BY <3>1, <3>2
  <2> QED
    BY <1>1, <1>6, <2>1, <2>2, <2>3
<1>8. ServedInv'
  <2> SUFFICES ASSUME NEW j \in Ids
               PROVE /\ rows'[j].status = "absent" => served'[j] = 0
                     /\ j \notin moved' =>
                          /\ served'[j] <= 1
                          /\ served'[j] = 1 => Passed(j)' \/ rows'[j].status = "gone"
    BY DEF ServedInv
  <2>1. /\ rows[j].status = "absent" => served[j] = 0
        /\ j \notin moved =>
             /\ served[j] <= 1
             /\ served[j] = 1 => Passed(j) \/ rows[j].status = "gone"
    BY DEF IInv, ServedInv
  <2>2. CASE j # i
    <3>1. rows'[j] = rows[j]
      BY <1>3, <2>2
    <3>2. Passed(j)' <=> Passed(j)
      BY <1>6, <3>1
    <3> QED
      BY <1>1, <1>5, <2>1, <3>1, <3>2
  <2>3. CASE j = i
    <3>1. rows'[i] = row /\ row.status # "absent" /\ rows[i].status # "gone"
      BY <1>3
    <3>2. CASE rows[i].status = "absent"
      BY <1>1, <1>5, <2>1, <2>3, <3>1, <3>2
    <3>3. CASE rows[i].status = "present" /\ row.status = "gone"
      BY <1>1, <1>5, <2>1, <2>3, <3>1, <3>3
    <3>4. CASE rows[i].status = "present" /\ row.status = "present"
      <4>1. i \notin moved' => (Passed(i)' <=> Passed(i))
        BY <1>3, <1>5, <1>6, <3>4
      <4> QED
        BY <1>1, <1>5, <2>1, <2>3, <3>1, <3>4, <4>1
    <3>5. rows[i].status \in {"absent", "present", "gone"} /\ row.status \in {"present", "gone"}
      BY <1>2, <3>1 DEF TypeOK, Row
    <3> QED
      BY <3>1, <3>2, <3>3, <3>4, <3>5
  <2> QED
    BY <2>2, <2>3
<1> QED
  BY <1>4, <1>7, <1>8 DEF IInv

\* Every writer is such a write.
LEMMA WriterPreserves ==
    ASSUME IInv, Writer
    PROVE  IInv'
<1>1. PICK i \in Ids :
        \/ \E key \in Keys, mine \in BOOLEAN : CreateNotification(i, key, mine)
        \/ \E read \in BOOLEAN : SetReadState(i, read)
        \/ \E name \in Keys : CreateValue(i, name) \/ RenameValue(i, name)
        \/ ArchiveValue(i)
        \/ \E key \in Keys, mine \in Searches : Register(i, key, mine)
        \/ Verify(i)
        \/ \E active \in BOOLEAN : SetActive(i, active)
        \/ Purge(i)
  BY DEF Writer
<1>2. rows[i] \in Row
  BY DEF IInv, TypeOK
<1>3. ASSUME NEW key \in Keys, NEW mine \in BOOLEAN, CreateNotification(i, key, mine)
      PROVE IInv'
  <2> DEFINE row == [status |-> "present", key |-> key, mine |-> mine, flag |-> FALSE,
                     verified |-> FALSE]
  <2>1. row \in Row /\ row.status = "present"
    BY DEF Row
  <2>2. rows[i].status # "gone" /\ Write(i, row)
    BY <1>3 DEF CreateNotification
  <2> HIDE DEF row
  <2> QED
    BY <2>1, <2>2, WritePreserves
<1>4. ASSUME NEW read \in BOOLEAN, SetReadState(i, read)
      PROVE IInv'
  <2> DEFINE row == [rows[i] EXCEPT !.flag = read]
  <2>1. row \in Row /\ row.status = "present"
    BY <1>2, <1>4 DEF Row, SetReadState
  <2>2. rows[i].status # "gone" /\ Write(i, row)
    BY <1>4 DEF SetReadState
  <2> HIDE DEF row
  <2> QED
    BY <2>1, <2>2, WritePreserves
<1>5. ASSUME NEW name \in Keys, CreateValue(i, name)
      PROVE IInv'
  <2> DEFINE row == [status |-> "present", key |-> name, mine |-> FALSE, flag |-> FALSE,
                     verified |-> FALSE]
  <2>1. row \in Row /\ row.status = "present"
    BY DEF Row
  <2>2. rows[i].status # "gone" /\ Write(i, row)
    BY <1>5 DEF CreateValue
  <2> HIDE DEF row
  <2> QED
    BY <2>1, <2>2, WritePreserves
<1>6. ASSUME NEW name \in Keys, RenameValue(i, name)
      PROVE IInv'
  <2> DEFINE row == [rows[i] EXCEPT !.key = name]
  <2>1. row \in Row /\ row.status = "present"
    BY <1>2, <1>6 DEF Row, RenameValue
  <2>2. rows[i].status # "gone" /\ Write(i, row)
    BY <1>6 DEF RenameValue
  <2> HIDE DEF row
  <2> QED
    BY <2>1, <2>2, WritePreserves
<1>7. ASSUME ArchiveValue(i)
      PROVE IInv'
  <2> DEFINE row == [rows[i] EXCEPT !.flag = TRUE]
  <2>1. row \in Row /\ row.status = "present"
    BY <1>2, <1>7 DEF Row, ArchiveValue
  <2>2. rows[i].status # "gone" /\ Write(i, row)
    BY <1>7 DEF ArchiveValue
  <2> HIDE DEF row
  <2> QED
    BY <2>1, <2>2, WritePreserves
<1>8. ASSUME NEW key \in Keys, NEW mine \in Searches, Register(i, key, mine)
      PROVE IInv'
  <2> DEFINE row == [status |-> "present", key |-> key, mine |-> mine, flag |-> TRUE,
                     verified |-> FALSE]
  <2>1. row \in Row /\ row.status = "present"
    BY PagesAssumption DEF Row
  <2>2. rows[i].status # "gone" /\ Write(i, row)
    BY <1>8 DEF Register
  <2> HIDE DEF row
  <2> QED
    BY <2>1, <2>2, WritePreserves
<1>9. ASSUME Verify(i)
      PROVE IInv'
  <2> DEFINE row == [rows[i] EXCEPT !.verified = TRUE]
  <2>1. row \in Row /\ row.status = "present"
    BY <1>2, <1>9 DEF Row, Verify
  <2>2. rows[i].status # "gone" /\ Write(i, row)
    BY <1>9 DEF Verify
  <2> HIDE DEF row
  <2> QED
    BY <2>1, <2>2, WritePreserves
<1>10. ASSUME NEW active \in BOOLEAN, SetActive(i, active)
      PROVE IInv'
  <2> DEFINE row == [rows[i] EXCEPT !.flag = active]
  <2>1. row \in Row /\ row.status = "present"
    BY <1>2, <1>10 DEF Row, SetActive
  <2>2. rows[i].status # "gone" /\ Write(i, row)
    BY <1>10 DEF SetActive
  <2> HIDE DEF row
  <2> QED
    BY <2>1, <2>2, WritePreserves
<1>11. ASSUME Purge(i)
      PROVE IInv'
  <2>1. rows[i].status # "gone" /\ Write(i, NoRow("gone"))
    BY <1>11 DEF Purge
  <2> QED
    BY <2>1, NoRowTyped, WritePreserves
<1> QED
  BY <1>1, <1>3, <1>4, <1>5, <1>6, <1>7, <1>8, <1>9, <1>10, <1>11

LEMMA StepIInv == IInv /\ [Next]_vars => IInv'
<1> SUFFICES ASSUME IInv, [Next]_vars PROVE IInv'
  OBVIOUS
<1>1. CASE Walk
  BY <1>1, PagePreserves DEF Walk
<1>2. CASE Writer
  BY <1>2, WriterPreserves
<1>3. CASE UNCHANGED vars
  BY <1>3 DEF vars, walk, IInv, TypeOK, StableInv, ServedInv, Passed, Beyond, Place, Precedes,
     Matches, SettingsWhere, NotificationsWhere, ReferenceWhere, UsersWhere
<1> QED
  BY <1>1, <1>2, <1>3 DEF Next

LEMMA IInvHolds == Spec => []IInv
BY InitIInv, StepIInv, PTL DEF Spec

-----------------------------------------------------------------------------
\* The state of a walk and of the rows stays well typed, whatever the rows,
\* the filters and the page sizes are (the list endpoints and list_page).
THEOREM Typed == Spec => []TypeOK
<1>1. IInv => TypeOK
  BY DEF IInv
<1> QED
  BY <1>1, IInvHolds, PTL

\* A row that keeps its place in the list is in exactly one page of a
\* completed walk: the tie-breaker and the strict comparison neither skip nor
\* repeat it (engagement repositories.py:97, catalog repositories.py:170).
THEOREM StableRowsServedOnce == Spec => []StableServedOnce
<1>1. IInv => StableServedOnce
  <2> SUFFICES ASSUME IInv, NEW i \in stable
               PROVE served[i] <= 1 /\ (done => served[i] = 1)
    BY DEF StableServedOnce
  <2>1. served[i] = IF Passed(i) THEN 1 ELSE 0
    BY DEF IInv, StableInv
  <2>2. done => Passed(i)
    BY DEF Passed
  <2> QED
    BY <2>1, <2>2
<1> QED
  BY <1>1, IInvHolds, PTL

\* Only a renamed row can be in two pages (catalog repositories.py:170).
THEOREM OnlyMovedRowsTwice == Spec => []TwiceOnlyIfMoved
<1>1. IInv => TwiceOnlyIfMoved
  BY DEF IInv, ServedInv, TwiceOnlyIfMoved
<1> QED
  BY <1>1, IInvHolds, PTL
=============================================================================
