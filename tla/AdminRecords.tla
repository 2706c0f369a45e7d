----------------------------- MODULE AdminRecords -----------------------------
(***************************************************************************)
(* What administrators edit: the settings (update_setting.py), the          *)
(* categories (category_admin.py), and the materials and colours, which     *)
(* share their commands (value_admin.py).                                   *)
(*                                                                          *)
(* Every operation has the same shape: take the row lock, decide, capture   *)
(* `before`, write the row, write the audit row, commit. No lock and no     *)
(* constraint spans two of the tables, so an instance is about one of them, *)
(* and Init chooses which; of the settings it is about one key.             *)
(*                                                                          *)
(* A request is a process. It appears once it holds its lock (a request     *)
(* that waits for it has done nothing yet), and is split there, at the      *)
(* write, where it may wait for the unique index of live slugs, and at the  *)
(* commit. A request that is refused (404, 409, 422) changes nothing and is *)
(* not a step, but for the slug conflict, which comes after the lock.       *)
(*                                                                          *)
(* A slug is stored as text. Text is a slug and how it is spelled: exactly, *)
(* or in one of the ways (case, surrounding space) that normalise_slug      *)
(* turns into the exact one.                                                *)
(*                                                                          *)
(* History: `trail` is after_data of the last audit row of each row,        *)
(* `gaps` the rows whose audit rows do not follow from one another.         *)
(***************************************************************************)
EXTENDS SettingsRegistry

CONSTANTS
    Rows,           \* ids
    Requests,       \* requests of administrators
    Names,          \* names of categories, materials, colours
    Slugs,          \* slugs in their canonical form
    Values(_),      \* the JSON values submitted for a key
    Nil,            \* None
    Malformed       \* a slug that does not match _SLUG_PATTERN

VARIABLES
    table,          \* the table the instance is about
    key,            \* the key of the setting, in the settings table
    rows,           \* committed rows
    pc, ctx,        \* where a request is, and what it has in memory
    trail, gaps     \* history

subject == <<table, key>>
history == <<trail, gaps>>
vars == <<subject, rows, pc, ctx, history>>

Spellings == [slug: Slugs, exact: BOOLEAN]

ASSUME NilAssumption == Nil \notin Slugs \cup Spellings

ASSUME ValuesAssumption == \A k \in ALL_KEYS : Values(k) \subseteq JSON

\* `content` is the name, or the value of a setting.
Absent == [status |-> "absent", content |-> Nil, slug |-> Nil, active |-> FALSE]

NoContext == [row |-> Nil, before |-> Absent, after |-> Absent]

-----------------------------------------------------------------------------
\* Fault: the row is read without FOR UPDATE.
RowFreeUnlocked(i) == TRUE

\* get_by_id_for_update, get_by_key_for_update: FOR UPDATE on the row. A row
\* that is being inserted cannot be seen by others at all.
RowFree(i) == \A q \in Requests : pc[q] # "idle" => ctx[q].row # i

\* The operation holds its lock and has decided what the row becomes. It
\* writes only if that is a change (change_value, apply_update), but is
\* audited in any case.
Decide(r, i, after) ==
    /\ pc[r] = "idle"
    /\ RowFree(i)
    /\ ctx' = [ctx EXCEPT ![r] = [row |-> i, before |-> rows[i], after |-> after]]
    /\ pc' = [pc EXCEPT ![r] = IF after = rows[i] THEN "unchanged" ELSE "save"]
    /\ UNCHANGED <<subject, rows, history>>

Finish(r) ==
    /\ pc' = [pc EXCEPT ![r] = "idle"]
    /\ ctx' = [ctx EXCEPT ![r] = NoContext]
    /\ UNCHANGED subject

-----------------------------------------------------------------------------
\* UpdateSetting.execute
UpdateSetting(r, i, v) ==
    /\ table = "settings"
    /\ rows[i].status = "live"
    /\ Accepted(key, v)
    /\ Decide(r, i, [rows[i] EXCEPT !.content = Normalised(v)])

\* Fault: the slug is stored as it was sent.
NormaliseSlugNot(raw) == raw

\* normalise_slug, of a slug that it accepts
NormaliseSlug(raw) == [raw EXCEPT !.exact = TRUE]

\* What a request may carry for a slug.
SlugInputs == Spellings \cup {Malformed}

\* The row of a new category, material or colour is inserted.
Create(r, i, name, slug, active) ==
    /\ rows[i].status = "absent"
    /\ Decide(r, i, [status |-> "live", content |-> name, slug |-> slug, active |-> active])

\* CreateCategory.execute
CreateCategory(r, i, name, raw, active) ==
    /\ table = "categories"
    /\ raw # Malformed
    /\ Create(r, i, name, NormaliseSlug(raw), active)

\* CreateReferenceValue.execute, of a material or a colour
CreateReferenceValue(r, i, name, active) ==
    /\ table = "values"
    /\ Create(r, i, name, Nil, active)

\* Fault: a PATCH is applied to an archived row.
EditableAlways(i) == rows[i].status # "absent"

\* The row is there and not archived.
Editable(i) == rows[i].status = "live"

\* Fault: a field that is not given is stored as None.
GivenOrNone(field, old) == field

\* apply_update: the fields that are given replace those of the row.
Given(field, old) == IF field = Nil THEN old ELSE field

\* _RejectEmptyPatch: a PATCH gives a field at least.
SomeGiven(name, raw, active) == name # Nil \/ raw # Nil \/ active # Nil

\* UpdateCategory.execute
UpdateCategory(r, i, name, raw, active) ==
    /\ table = "categories"
    /\ SomeGiven(name, raw, active)
    /\ Editable(i)
    /\ raw # Malformed
    /\ Decide(r, i, [rows[i] EXCEPT
         !.content = Given(name, @),
         !.slug = IF raw = Nil THEN @ ELSE NormaliseSlug(raw),
         !.active = Given(active, @)])

\* UpdateReferenceValue.execute
UpdateReferenceValue(r, i, name, active) ==
    /\ table = "values"
    /\ SomeGiven(name, Nil, active)
    /\ Editable(i)
    /\ Decide(r, i, [rows[i] EXCEPT !.content = Given(name, @), !.active = Given(active, @)])

\* _ReferenceValue.archive
Archived(row) == [row EXCEPT !.status = "archived", !.active = FALSE]

\* ArchiveCategory.execute
ArchiveCategory(r, i) ==
    /\ table = "categories"
    /\ Editable(i)
    /\ Decide(r, i, Archived(rows[i]))

\* ArchiveReferenceValue.execute
ArchiveReferenceValue(r, i) ==
    /\ table = "values"
    /\ Editable(i)
    /\ Decide(r, i, Archived(rows[i]))

-----------------------------------------------------------------------------
\* An entry of ix_categories_live_slug: slug WHERE deleted_at IS NULL.
Occupies(row, text) == row.status = "live" /\ row.slug = text

\* Another transaction has written the entry, or taken it away, and has not
\* ended: the index waits for it.
Pending(r, text) ==
    \E q \in Requests \ {r} :
        /\ pc[q] = "written"
        /\ Occupies(ctx[q].before, text) \/ Occupies(ctx[q].after, text)

\* Another committed row has the entry.
Taken(i, text) == \E j \in Rows \ {i} : Occupies(rows[j], text)

\* The slug that the write enters into the index, Nil if it enters none.
Entered(r) == IF ctx[r].after.status = "live" THEN ctx[r].after.slug ELSE Nil

\* CategoryRepository.add and save, SettingRepository.save, ...: the flush.
Save(r) ==
    /\ pc[r] = "save"
    /\ Entered(r) # Nil => ~Pending(r, Entered(r)) /\ ~Taken(ctx[r].row, Entered(r))
    /\ pc' = [pc EXCEPT ![r] = "written"]
    /\ UNCHANGED <<subject, rows, ctx, history>>

\* IntegrityError on the live-slug index becomes SlugConflictError, 409: the
\* transaction is rolled back.
SlugConflict(r) ==
    /\ pc[r] = "save"
    /\ Entered(r) # Nil
    /\ ~Pending(r, Entered(r))
    /\ Taken(ctx[r].row, Entered(r))
    /\ Finish(r)
    /\ UNCHANGED <<rows, history>>

\* The audit row is inserted and the transaction commits. The ORM writes the
\* columns that differ: under the row lock that makes the row what was decided.
Commit(r) ==
    /\ pc[r] \in {"written", "unchanged"}
    /\ rows' = IF pc[r] = "written"
               THEN [rows EXCEPT ![ctx[r].row] = ctx[r].after]
               ELSE rows
    /\ trail' = [trail EXCEPT ![ctx[r].row] = ctx[r].after]
    /\ gaps' = IF trail[ctx[r].row] = ctx[r].before THEN gaps ELSE gaps \cup {ctx[r].row}
    /\ Finish(r)

\* The transaction is lost: the process dies, the connection breaks.
Rollback(r) ==
    /\ pc[r] # "idle"
    /\ Finish(r)
    /\ UNCHANGED <<rows, history>>

-----------------------------------------------------------------------------
\* The settings are seeded with their defaults by a migration, the other
\* tables are empty.
Init ==
    /\ \/ table = "settings" /\ key \in ALL_KEYS
       \/ table \in {"categories", "values"} /\ key = Nil
    /\ \/ /\ table = "settings"
          /\ \E i \in Rows : rows = [j \in Rows |-> IF j = i
               THEN [status |-> "live", content |-> REGISTRY[key].default,
                     slug |-> Nil, active |-> TRUE]
               ELSE Absent]
       \/ /\ table # "settings"
          /\ rows = [j \in Rows |-> Absent]
    /\ pc = [r \in Requests |-> "idle"]
    /\ ctx = [r \in Requests |-> NoContext]
    /\ trail = rows
    /\ gaps = {}

\* The endpoints, and the steps that complete what they began.
Request(r) ==
    \/ \E i \in Rows :
         \/ \E v \in Values(key) : UpdateSetting(r, i, v)
         \/ \E name \in Names, active \in BOOLEAN :
              \/ \E raw \in SlugInputs : CreateCategory(r, i, name, raw, active)
              \/ CreateReferenceValue(r, i, name, active)
         \/ \E name \in Names \cup {Nil}, active \in BOOLEAN \cup {Nil} :
              \/ \E raw \in SlugInputs \cup {Nil} : UpdateCategory(r, i, name, raw, active)
              \/ UpdateReferenceValue(r, i, name, active)
         \/ ArchiveCategory(r, i)
         \/ ArchiveReferenceValue(r, i)
    \/ Save(r)
    \/ SlugConflict(r)
    \/ Commit(r)
    \/ Rollback(r)

Next == \E r \in Requests : Request(r)

Spec == Init /\ [][Next]_vars

-----------------------------------------------------------------------------
\* Properties

\* Every variable has its type; what a request holds in memory is about a row.
TypeOK ==
    /\ table \in {"settings", "categories", "values"}
    /\ DOMAIN rows = Rows
    /\ \A i \in Rows :
         /\ rows[i].status \in {"absent", "live", "archived"}
         /\ rows[i].slug \in Spellings \cup {Nil}
         /\ rows[i].status # "absent" =>
              /\ rows[i].active \in BOOLEAN
              /\ table # "settings" => rows[i].content \in Names
              /\ (rows[i].slug # Nil) <=> (table = "categories")
    /\ pc \in [Requests -> {"idle", "save", "written", "unchanged"}]
    /\ \A r \in Requests : pc[r] # "idle" => ctx[r].row \in Rows
    /\ gaps \subseteq Rows

\* The audit rows of a row form a chain that ends in the row: each names as
\* `before` what the one before it named as `after`, also when two requests
\* edit the row at once and when one changes nothing (update_setting.py:30).
AuditIsChain ==
    /\ gaps = {}
    /\ \A i \in Rows : trail[i] = rows[i]

\* An archived row is not shown, and nothing that was decided before the
\* archiving changes it afterwards (category_admin.py:11).
ArchivedIsFinal ==
    [][\A i \in Rows : rows[i].status = "archived" =>
         rows'[i] = rows[i] /\ ~rows[i].active]_vars

\* What is stored of a setting is read back as it is by the readers, which
\* validate again and raise if they disagree: no update, and no seeded
\* default, can break the jobs and pages that read the key
\* (settings_reader.py:41).
StoredIsReadable ==
    table = "settings" =>
        \A i \in Rows : rows[i].status = "live" =>
            /\ Reads(key, rows[i].content, Nil) = rows[i].content
            /\ HasReaderType(key, rows[i].content)
            /\ HasFieldType(key, rows[i].content)

\* The slugs of live categories, however they were spelled when submitted,
\* form a directory: one category per slug, a slug given up by a rename or an
\* archive free at once, no archived category with a slug again
\* (models.py:40, slug.py:31).
Directory == INSTANCE SlugDirectory WITH
    slugOf <- [i \in Rows |-> IF rows[i].status = "live" /\ rows[i].slug # Nil
                              THEN rows[i].slug.slug ELSE Nil],
    retired <- {i \in Rows : rows[i].status = "archived" /\ rows[i].slug # Nil}

ImplementsSlugDirectory == Directory!Spec
=============================================================================
