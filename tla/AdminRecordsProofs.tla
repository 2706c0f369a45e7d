------------------------- MODULE AdminRecordsProofs -------------------------
(***************************************************************************)
(* The properties of AdminRecords for any number of rows, requests, names,  *)
(* slugs and submitted values. The inductive invariant has four parts:      *)
(*   Typed     the tables and what requests have in memory                  *)
(*   Held      one request per row, which sees the row as it is             *)
(*   Indexed   no two entries of the index of live slugs are equal, those   *)
(*             that are not committed included                              *)
(*   AuditIsChain                                                           *)
(***************************************************************************)
EXTENDS AdminRecords, TLAPS

\* A setting may hold its default or what was submitted, trimmed.
Contents ==
    Names \cup {Nil} \cup {REGISTRY[k].default : k \in ALL_KEYS}
    \cup {Normalised(v) : v \in JSON}

RowType == [status: {"absent", "live", "archived"}, content: Contents,
            slug: Spellings \cup {Nil}, active: BOOLEAN \cup {Nil}]

\* A value that its key accepts as it is stored.
Readable(k, v) ==
    /\ Reads(k, v, Nil) = v
    /\ HasReaderType(k, v)
    /\ HasFieldType(k, v)

\* What holds of a row of table t by itself, stored or about to be.
Proper(t, k, row) ==
    /\ row.status = "absent" => row.slug = Nil
    /\ row.status # "absent" =>
         /\ row.active \in BOOLEAN
         /\ t # "settings" => row.content \in Names
         /\ row.slug # Nil <=> t = "categories"
         /\ t = "settings" => row.status = "live" /\ Readable(k, row.content)
    /\ row.slug # Nil => row.slug.exact
    /\ row.status = "archived" => ~row.active

Typed ==
    /\ table \in {"settings", "categories", "values"}
    /\ table = "settings" => key \in ALL_KEYS
    /\ rows \in [Rows -> RowType]
    /\ trail \in [Rows -> RowType]
    /\ gaps \subseteq Rows
    /\ pc \in [Requests -> {"idle", "save", "written", "unchanged"}]
    /\ ctx \in [Requests -> [row: Rows \cup {Nil}, before: RowType, after: RowType]]
    /\ \A i \in Rows : Proper(table, key, rows[i])
    /\ \A r \in Requests : pc[r] # "idle" => ctx[r].row \in Rows /\ Proper(table, key, ctx[r].after)

\* A category that is archived keeps its slug.
Transition(before, after) ==
    /\ before.status # "archived"
    /\ after.status # "absent"
    /\ after.status = "archived" => before.status = "live" /\ after.slug = before.slug

Held ==
    /\ \A r, q \in Requests :
         pc[r] # "idle" /\ pc[q] # "idle" /\ ctx[r].row = ctx[q].row => r = q
    /\ \A r \in Requests : pc[r] # "idle" =>
         /\ ctx[r].before = rows[ctx[r].row]
         /\ Transition(ctx[r].before, ctx[r].after)
         /\ pc[r] = "unchanged" => ctx[r].after = ctx[r].before

\* An entry that a request has written is nobody else's, committed or not.
Indexed ==
    /\ \A i \in Rows : rows[i].status = "live" /\ rows[i].slug # Nil => ~Taken(i, rows[i].slug)
    /\ \A r \in Requests : pc[r] = "written" /\ Entered(r) # Nil =>
         /\ ~Taken(ctx[r].row, Entered(r))
         /\ \A q \in Requests \ {r} : pc[q] = "written" =>
              /\ ~Occupies(ctx[q].before, Entered(r))
              /\ ~Occupies(ctx[q].after, Entered(r))

Inv == Typed /\ Held /\ Indexed /\ AuditIsChain

-----------------------------------------------------------------------------
\* The registry

\* What makes a definition sound: it accepts its own default, only values that
\* need not be there may be null, and the public page can show what it serves.
Sound(d) ==
    /\ \/ d.default = Null /\ d.nullable
       \/ d.type = "boolean" /\ d.default = Bool(FALSE)
       \/ /\ d.type \in {"integer", "duration"}
          /\ d.default = Int64(d.default.n)
          /\ d.minimum <= d.default.n /\ d.default.n <= d.maximum
    /\ d.type \in {"boolean", "integer", "duration"} => ~d.nullable
    /\ d.public => d.type \in {"boolean", "money", "string"}

LEMMA WholeSound ==
    ASSUME NEW n \in Int, NEW lo \in Int, NEW hi \in Int, lo <= n, n <= hi,
           NEW type \in {"integer", "duration"}
    PROVE  Sound(Whole(type, n, lo, hi))
BY DEF Sound, Whole, Definition, Int64

LEMMA ContactSound == \A n, format : Sound(Contact(n, format))
BY DEF Sound, Contact, Definition

LEMMA SwitchedOffSound == Sound(SwitchedOff)
BY DEF Sound, SwitchedOff, Definition

LEMMA MoneySound ==
    \A n : Sound(Definition("money", Null, 0, n, {"public", "nullable"}))
BY DEF Sound, Definition

LEMMA RegistrySound == \A k \in ALL_KEYS : Sound(REGISTRY[k])
<1>1. Sound(REGISTRY["accepting_orders"])
  BY SwitchedOffSound DEF REGISTRY
<1>2. Sound(REGISTRY["offer_response_window"])
  BY WholeSound DEF REGISTRY
<1>3. Sound(REGISTRY["offer_checkout_window"])
  BY WholeSound DEF REGISTRY
<1>4. Sound(REGISTRY["offer_rejection_cooldown"])
  BY WholeSound DEF REGISTRY
<1>5. Sound(REGISTRY["minimum_offer_percentage"])
  BY WholeSound DEF REGISTRY
<1>6. Sound(REGISTRY["checkout_hold_period"])
  BY WholeSound DEF REGISTRY
<1>7. Sound(REGISTRY["unverified_account_purge_period"])
  BY WholeSound DEF REGISTRY
<1>8. Sound(REGISTRY["daily_download_cap"])
  BY WholeSound DEF REGISTRY
<1>9. Sound(REGISTRY["free_shipping_threshold"])
  BY MoneySound DEF REGISTRY
<1>10. Sound(REGISTRY["pickup_address"]) /\ Sound(REGISTRY["pickup_hours"])
       /\ Sound(REGISTRY["whatsapp_number"])
  BY ContactSound DEF REGISTRY
<1>11. ALL_KEYS = {
         "accepting_orders", "offer_response_window", "offer_checkout_window",
         "offer_rejection_cooldown", "minimum_offer_percentage", "checkout_hold_period",
         "unverified_account_purge_period", "daily_download_cap",
         "free_shipping_threshold", "pickup_address", "pickup_hours", "whatsapp_number"}
  BY DEF ALL_KEYS, REGISTRY
<1> QED BY <1>1, <1>2, <1>3, <1>4, <1>5, <1>6, <1>7, <1>8, <1>9, <1>10, <1>11

LEMMA Defaults ==
    \A k \in ALL_KEYS :
        LET d == REGISTRY[k] IN
        /\ Accepted(k, d.default)
        /\ Normalised(d.default) = d.default
        /\ d.type \in {"boolean", "integer", "duration"} => ~d.nullable
        /\ d.public => d.type \in {"boolean", "money", "string"}
<1> SUFFICES ASSUME NEW k \in ALL_KEYS, NEW d, d = REGISTRY[k]
             PROVE  /\ Accepted(k, d.default)
                    /\ Normalised(d.default) = d.default
                    /\ d.type \in {"boolean", "integer", "duration"} => ~d.nullable
                    /\ d.public => d.type \in {"boolean", "money", "string"}
  OBVIOUS
<1>1. Sound(d)
  BY RegistrySound
<1>2. CASE d.default = Null /\ d.nullable
  BY <1>1, <1>2 DEF Sound, Accepted, Normalised, Null
<1>3. CASE d.type = "boolean" /\ d.default = Bool(FALSE)
  BY <1>1, <1>3 DEF Sound, Accepted, Normalised, Bool
<1>4. CASE /\ d.type \in {"integer", "duration"}
           /\ d.default = Int64(d.default.n)
           /\ d.minimum <= d.default.n /\ d.default.n <= d.maximum
  BY <1>1, <1>4 DEF Sound, Accepted, Normalised, WholeNumber, Int64
<1> QED BY <1>1, <1>2, <1>3, <1>4 DEF Sound

\* Validation is idempotent: what is stored is accepted when it is read.
LEMMA NormalisedAccepted ==
    ASSUME NEW k \in ALL_KEYS, NEW v \in JSON, Accepted(k, v)
    PROVE  Accepted(k, Normalised(v)) /\ Normalised(Normalised(v)) = Normalised(v)
<1>1. CASE v.t = "string"
  <2>1. v \in [t: {"string"}, length: Nat, padded: BOOLEAN, e164: BOOLEAN]
    BY <1>1 DEF JSON, Scalar, Null, Other
  <2> DEFINE w == Normalised(v)
  <2>2. /\ w.t = v.t /\ w.length = v.length /\ w.e164 = v.e164 /\ w.padded = FALSE
        /\ w \in [t: {"string"}, length: Nat, padded: BOOLEAN, e164: BOOLEAN]
    BY <2>1, <1>1 DEF Normalised
  <2>3. Normalised(w) = w
    BY <2>2 DEF Normalised
  <2>4. v # Null
    BY <1>1 DEF Null
  <2>5. Accepted(k, w)
    BY <1>1, <2>2, <2>4 DEF Accepted, String, WholeNumber, Money
  <2> QED BY <2>3, <2>5
<1>2. CASE v.t # "string"
  BY <1>2 DEF Normalised
<1> QED BY <1>1, <1>2

\* What is accepted has the type that its readers and the public page expect.
LEMMA AcceptedFits ==
    ASSUME NEW k \in ALL_KEYS, NEW v, Accepted(k, v)
    PROVE  HasReaderType(k, v) /\ HasFieldType(k, v)
<1> DEFINE d == REGISTRY[k]
<1>1. /\ d.type \in {"boolean", "integer", "duration"} => ~d.nullable
      /\ d.public => d.type \in {"boolean", "money", "string"}
  BY Defaults
<1> HIDE DEF d
<1>2. \/ v = Null /\ d.nullable
      \/ d.type = "boolean" /\ v.t = "boolean"
      \/ d.type \in {"integer", "duration"} /\ WholeNumber(d, v)
      \/ d.type = "money" /\ Money(d, v)
      \/ d.type = "string" /\ String(d, v)
  BY DEF Accepted, d
<1>3. /\ d.type \in {"integer", "duration"} => v.t = "int"
      /\ d.type = "boolean" => v.t = "boolean"
  BY <1>1, <1>2 DEF WholeNumber
<1>4. d.public =>
        \/ v.t \in {"boolean", "string", "null"}
        \/ v.t = "object" /\ v.exact /\ v.amount.t = "int"
  BY <1>1, <1>2 DEF WholeNumber, Money, String, Null
<1> QED BY <1>3, <1>4 DEF HasReaderType, HasFieldType, d

LEMMA StoredReads ==
    /\ \A v \in JSON : key \in ALL_KEYS /\ Accepted(key, v) => Readable(key, Normalised(v))
    /\ key \in ALL_KEYS => Readable(key, REGISTRY[key].default)
BY NormalisedAccepted, AcceptedFits, Defaults DEF Readable, Reads

-----------------------------------------------------------------------------
\* The initial states

LEMMA AbsentRow == Absent \in RowType /\ Proper(table, key, Absent) /\ Absent.status = "absent"
BY DEF Absent, RowType, Proper, Contents

LEMMA InvInit == Init => Inv
<1> SUFFICES ASSUME Init PROVE Inv
  OBVIOUS
<1>1. \A i \in Rows : /\ rows[i] \in RowType /\ Proper(table, key, rows[i])
                      /\ rows[i].slug = Nil
  <2>1. ASSUME table = "settings", key \in ALL_KEYS, NEW i \in Rows,
               rows[i] = [status |-> "live", content |-> REGISTRY[key].default,
                          slug |-> Nil, active |-> TRUE]
        PROVE  /\ rows[i] \in RowType /\ Proper(table, key, rows[i])
               /\ rows[i].slug = Nil
    BY <2>1, StoredReads DEF RowType, Proper, Contents
  <2>2. \A i \in Rows :
          \/ rows[i] = Absent
          \/ /\ table = "settings" /\ key \in ALL_KEYS
             /\ rows[i] = [status |-> "live", content |-> REGISTRY[key].default,
                           slug |-> Nil, active |-> TRUE]
    <3>1. CASE table = "settings"
      BY <3>1 DEF Init
    <3>2. CASE table # "settings"
      BY <3>2 DEF Init
    <3> QED BY <3>1, <3>2
  <2>3. \A i \in Rows : rows[i] = Absent =>
          rows[i] \in RowType /\ Proper(table, key, rows[i]) /\ rows[i].slug = Nil
    BY AbsentRow DEF Absent
  <2> QED BY <2>1, <2>2, <2>3
<1>2. rows \in [Rows -> RowType] /\ DOMAIN rows = Rows
  BY <1>1 DEF Init
<1>3. ctx \in [Requests -> [row: Rows \cup {Nil}, before: RowType, after: RowType]]
  BY AbsentRow DEF Init, NoContext
<1>4. Typed
  BY <1>1, <1>2, <1>3 DEF Init, Typed
<1> QED BY <1>1, <1>4 DEF Init, Inv, Held, Indexed, AuditIsChain, Occupies

-----------------------------------------------------------------------------
\* The steps

\* What every operation hands to Decide.
Allowed(i, after) ==
    /\ after \in RowType
    /\ Proper(table, key, after)
    /\ Transition(rows[i], after)

LEMMA DecideStep ==
    ASSUME Inv, NEW r \in Requests, NEW i \in Rows, NEW after,
           Decide(r, i, after), Allowed(i, after)
    PROVE  Inv'
<1>1. /\ ctx' = [ctx EXCEPT ![r] = [row |-> i, before |-> rows[i], after |-> after]]
      /\ pc[r] = "idle" /\ pc'[r] \in {"save", "unchanged"}
      /\ pc'[r] = "unchanged" => after = rows[i]
      /\ pc' = [pc EXCEPT ![r] = pc'[r]]
      /\ \A q \in Requests \ {r} : pc'[q] = pc[q] /\ ctx'[q] = ctx[q]
      /\ ctx'[r] = [row |-> i, before |-> rows[i], after |-> after]
      /\ UNCHANGED <<table, key, rows, trail, gaps>>
  BY DEF Inv, Typed, Decide, subject, history
<1>2. Typed'
  <2>2. ctx' \in [Requests -> [row: Rows \cup {Nil}, before: RowType, after: RowType]]
    BY <1>1 DEF Inv, Typed, Allowed
  <2> QED BY <1>1, <2>2 DEF Inv, Typed, Allowed
<1>3. Held'
  BY <1>1 DEF Inv, Held, Allowed, Decide, RowFree
<1>4. Indexed'
  BY <1>1 DEF Inv, Indexed, Entered, Taken, Occupies
<1> QED BY <1>1, <1>2, <1>3, <1>4 DEF Inv, AuditIsChain

\* Each operation, once it has its lock, wants an allowed row.
LEMMA UpdateSettingStep ==
    ASSUME Inv, NEW r \in Requests, NEW i \in Rows, NEW v \in Values(key),
           UpdateSetting(r, i, v)
    PROVE  Inv'
<1> DEFINE after == [rows[i] EXCEPT !.content = Normalised(v)]
<1>1. key \in ALL_KEYS /\ v \in JSON
  BY ValuesAssumption DEF Inv, Typed, UpdateSetting
<1>2. Normalised(v) \in Contents /\ Readable(key, Normalised(v))
  BY <1>1, StoredReads DEF UpdateSetting, Contents
<1>3. /\ rows[i] \in RowType /\ Proper(table, key, rows[i])
      /\ rows[i].status = "live" /\ table = "settings"
  BY DEF Inv, Typed, UpdateSetting
<1>4. after \in RowType /\ after.content = Normalised(v) /\ after.status = rows[i].status
      /\ after.slug = rows[i].slug /\ after.active = rows[i].active
  BY <1>2, <1>3 DEF RowType
<1>5. Allowed(i, after)
  BY <1>2, <1>3, <1>4 DEF Allowed, Proper, Transition
<1> QED BY <1>5, DecideStep DEF UpdateSetting

LEMMA NormalisedSlug ==
    \A raw \in Spellings : NormaliseSlug(raw) \in Spellings /\ NormaliseSlug(raw).exact
BY DEF Spellings, NormaliseSlug

LEMMA CreateStep ==
    ASSUME Inv, NEW r \in Requests, NEW i \in Rows, NEW name \in Names,
           NEW active \in BOOLEAN, NEW slug \in Spellings \cup {Nil},
           Create(r, i, name, slug, active), table # "settings",
           slug # Nil => slug.exact, slug # Nil <=> table = "categories"
    PROVE  Inv'
<1> DEFINE after == [status |-> "live", content |-> name, slug |-> slug, active |-> active]
<1>1. after \in RowType
  BY DEF RowType, Contents
<1>2. Allowed(i, after)
  BY <1>1 DEF Allowed, Proper, Transition, Create
<1> QED BY <1>2, DecideStep DEF Create

\* A PATCH of a category or a value.
LEMMA UpdateStep ==
    ASSUME Inv, NEW r \in Requests, NEW i \in Rows, Editable(i), table # "settings",
           NEW name \in Names \cup {Nil}, NEW active \in BOOLEAN \cup {Nil},
           NEW slug \in Spellings \cup {Nil},
           slug # Nil <=> table = "categories", slug # Nil => slug.exact,
           Decide(r, i, [rows[i] EXCEPT
             !.content = Given(name, @), !.slug = slug, !.active = Given(active, @)])
    PROVE  Inv'
<1> DEFINE after == [rows[i] EXCEPT
             !.content = Given(name, @), !.slug = slug, !.active = Given(active, @)]
<1>1. /\ rows[i] \in RowType /\ rows[i].status = "live"
      /\ rows[i].content \in Names /\ rows[i].active \in BOOLEAN
  BY DEF Inv, Typed, Proper, Editable
<1>2. /\ Given(name, rows[i].content) \in Names
      /\ Given(active, rows[i].active) \in BOOLEAN
  BY <1>1 DEF Given
<1>3. /\ after \in RowType
      /\ after.status = "live" /\ after.content \in Names
      /\ after.slug = slug /\ after.active \in BOOLEAN
  BY <1>1, <1>2 DEF RowType, Contents
<1>4. Allowed(i, after)
  BY <1>1, <1>3 DEF Allowed, Proper, Transition
<1> QED BY <1>4, DecideStep

LEMMA ArchiveStep ==
    ASSUME Inv, NEW r \in Requests, NEW i \in Rows, Editable(i), table # "settings",
           Decide(r, i, Archived(rows[i]))
    PROVE  Inv'
<1>1. rows[i] \in RowType /\ Proper(table, key, rows[i]) /\ rows[i].status = "live"
  BY DEF Inv, Typed, Editable
<1>2. /\ Archived(rows[i]) \in RowType
      /\ Archived(rows[i]).status = "archived" /\ Archived(rows[i]).active = FALSE
      /\ Archived(rows[i]).slug = rows[i].slug
      /\ Archived(rows[i]).content = rows[i].content
  BY <1>1 DEF RowType, Archived
<1>3. Allowed(i, Archived(rows[i]))
  BY <1>1, <1>2 DEF Allowed, Proper, Transition
<1> QED BY <1>3, DecideStep

LEMMA OperationStep ==
    ASSUME Inv, NEW r \in Requests, NEW i \in Rows,
           \/ \E v \in Values(key) : UpdateSetting(r, i, v)
           \/ \E name \in Names, active \in BOOLEAN :
                \/ \E raw \in SlugInputs : CreateCategory(r, i, name, raw, active)
                \/ CreateReferenceValue(r, i, name, active)
           \/ \E name \in Names \cup {Nil}, active \in BOOLEAN \cup {Nil} :
                \/ \E raw \in SlugInputs \cup {Nil} : UpdateCategory(r, i, name, raw, active)
                \/ UpdateReferenceValue(r, i, name, active)
           \/ ArchiveCategory(r, i)
           \/ ArchiveReferenceValue(r, i)
    PROVE  Inv'
<1>1. ASSUME NEW v \in Values(key), UpdateSetting(r, i, v) PROVE Inv'
  BY <1>1, UpdateSettingStep
<1>2. ASSUME NEW name \in Names, NEW active \in BOOLEAN, NEW raw \in SlugInputs,
             CreateCategory(r, i, name, raw, active)
      PROVE  Inv'
  <2>1. raw \in Spellings /\ table = "categories"
    BY <1>2 DEF CreateCategory, SlugInputs
  <2>2. NormaliseSlug(raw) \in Spellings \ {Nil} /\ NormaliseSlug(raw).exact
    BY <2>1, NormalisedSlug, NilAssumption
  <2> QED BY <1>2, <2>1, <2>2, CreateStep DEF CreateCategory
<1>3. ASSUME NEW name \in Names, NEW active \in BOOLEAN,
             CreateReferenceValue(r, i, name, active)
      PROVE  Inv'
  BY <1>3, CreateStep DEF CreateReferenceValue
<1>4. ASSUME NEW name \in Names \cup {Nil}, NEW active \in BOOLEAN \cup {Nil},
             NEW raw \in SlugInputs \cup {Nil}, UpdateCategory(r, i, name, raw, active)
      PROVE  Inv'
  <2> DEFINE slug == IF raw = Nil THEN rows[i].slug ELSE NormaliseSlug(raw)
  <2>1. /\ table = "categories" /\ Editable(i) /\ raw # Malformed
        /\ Decide(r, i, [rows[i] EXCEPT
             !.content = Given(name, @), !.slug = slug, !.active = Given(active, @)])
    BY <1>4 DEF UpdateCategory
  <2>2. rows[i] \in RowType /\ Proper(table, key, rows[i]) /\ rows[i].status = "live"
    BY <2>1 DEF Inv, Typed, Editable
  <2>3. CASE raw = Nil
    <3>1. slug \in Spellings \cup {Nil} /\ slug # Nil /\ slug.exact
      BY <2>1, <2>2, <2>3 DEF RowType, Proper
    <3> QED BY <2>1, <3>1, UpdateStep
  <2>4. CASE raw # Nil
    <3>1. raw \in Spellings
      BY <2>1, <2>4 DEF SlugInputs
    <3>2. slug \in Spellings \cup {Nil} /\ slug # Nil /\ slug.exact
      BY <3>1, <2>4, NormalisedSlug, NilAssumption
    <3> QED BY <2>1, <3>2, UpdateStep
  <2> QED BY <2>3, <2>4
<1>5. ASSUME NEW name \in Names \cup {Nil}, NEW active \in BOOLEAN \cup {Nil},
             UpdateReferenceValue(r, i, name, active)
      PROVE  Inv'
  <2>1. /\ table = "values" /\ Editable(i)
        /\ Decide(r, i, [rows[i] EXCEPT !.content = Given(name, @), !.active = Given(active, @)])
    BY <1>5 DEF UpdateReferenceValue
  <2>2. rows[i] \in RowType /\ rows[i].slug = Nil
    BY <2>1 DEF Inv, Typed, Proper, Editable
  <2>3. [rows[i] EXCEPT !.content = Given(name, @), !.active = Given(active, @)]
          = [rows[i] EXCEPT !.content = Given(name, @), !.slug = Nil, !.active = Given(active, @)]
    BY <2>2 DEF RowType
  <2> QED BY <2>1, <2>3, UpdateStep
<1>6. ASSUME ArchiveCategory(r, i) \/ ArchiveReferenceValue(r, i) PROVE Inv'
  BY <1>6, ArchiveStep DEF ArchiveCategory, ArchiveReferenceValue
<1> QED BY <1>1, <1>2, <1>3, <1>4, <1>5, <1>6

LEMMA SaveStep == ASSUME Inv, NEW r \in Requests, Save(r) PROVE Inv'
<1>1. /\ pc' = [pc EXCEPT ![r] = "written"] /\ pc[r] = "save" /\ pc'[r] = "written"
      /\ \A q \in Requests \ {r} : pc'[q] = pc[q]
      /\ UNCHANGED <<table, key, rows, ctx, trail, gaps>>
  BY DEF Inv, Typed, Save, subject, history
<1>2. Typed'
  BY <1>1 DEF Inv, Typed
<1>3. Held'
  BY <1>1 DEF Inv, Held
<1>4. Indexed'
  <2> SUFFICES ASSUME NEW q \in Requests, pc'[q] = "written", Entered(q) # Nil
               PROVE  /\ ~Taken(ctx[q].row, Entered(q))
                      /\ \A p \in Requests \ {q} : pc'[p] = "written" =>
                           /\ ~Occupies(ctx[p].before, Entered(q))
                           /\ ~Occupies(ctx[p].after, Entered(q))
    BY <1>1 DEF Inv, Indexed, Entered, Taken
  <2>1. CASE q = r
    BY <1>1, <2>1 DEF Save, Pending
  <2>2. ASSUME q # r
        PROVE  ~Occupies(ctx[r].before, Entered(q)) /\ ~Occupies(ctx[r].after, Entered(q))
    <3>1. pc[q] = "written"
      BY <1>1, <2>2
    <3>2. ctx[q].row # ctx[r].row /\ ctx[r].row \in Rows /\ ctx[r].before = rows[ctx[r].row]
      BY <1>1, <2>2, <3>1 DEF Inv, Held, Typed
    <3>3. ~Occupies(ctx[r].before, Entered(q))
      BY <3>1, <3>2 DEF Inv, Indexed, Taken
    <3>4. ASSUME Occupies(ctx[r].after, Entered(q)) PROVE FALSE
      <4>1. Entered(r) = Entered(q) /\ Occupies(ctx[q].after, Entered(r))
        BY <3>4 DEF Occupies, Entered
      <4> QED BY <4>1, <3>1, <2>2 DEF Save, Pending
    <3> QED BY <3>3, <3>4
  <2>3. CASE q # r
    BY <1>1, <2>2, <2>3 DEF Inv, Indexed
  <2> QED BY <2>1, <2>3
<1> QED BY <1>1, <1>2, <1>3, <1>4 DEF Inv, AuditIsChain

\* A request that ends lets go of its row and its entry.
LEMMA FinishStep ==
    ASSUME Inv, NEW r \in Requests, Finish(r), UNCHANGED <<rows, history>>
    PROVE  Inv'
<1>1. /\ pc' = [pc EXCEPT ![r] = "idle"] /\ ctx' = [ctx EXCEPT ![r] = NoContext]
      /\ pc'[r] = "idle"
      /\ \A q \in Requests \ {r} : pc'[q] = pc[q] /\ ctx'[q] = ctx[q]
      /\ UNCHANGED <<table, key, rows, trail, gaps>>
  BY DEF Inv, Typed, Finish, subject, history
<1>2. Typed'
  BY <1>1, AbsentRow DEF Inv, Typed, NoContext
<1>3. Held'
  BY <1>1 DEF Inv, Held
<1>4. Indexed'
  BY <1>1 DEF Inv, Indexed, Entered, Taken
<1> QED BY <1>1, <1>2, <1>3, <1>4 DEF Inv, AuditIsChain

\* What a commit does: the row becomes what was decided.
LEMMA CommitWrites ==
    ASSUME Inv, NEW r \in Requests, Commit(r)
    PROVE  LET i == ctx[r].row IN
           /\ i \in Rows /\ rows[i] = ctx[r].before
           /\ rows' = [rows EXCEPT ![i] = ctx[r].after]
           /\ rows'[i] = ctx[r].after
           /\ \A j \in Rows \ {i} : rows'[j] = rows[j]
           /\ trail' = [trail EXCEPT ![i] = ctx[r].after]
           /\ gaps' = gaps
           /\ pc[r] \in {"written", "unchanged"}
           /\ pc[r] = "unchanged" => ctx[r].after = rows[i]
           /\ ctx[r].after \in RowType /\ Proper(table, key, ctx[r].after)
           /\ Transition(rows[i], ctx[r].after)
           /\ pc' = [pc EXCEPT ![r] = "idle"] /\ ctx' = [ctx EXCEPT ![r] = NoContext]
           /\ pc'[r] = "idle"
           /\ \A q \in Requests \ {r} : pc'[q] = pc[q] /\ ctx'[q] = ctx[q]
           /\ UNCHANGED <<table, key>>
<1> DEFINE i == ctx[r].row
<1>1. /\ i \in Rows /\ rows[i] = ctx[r].before
      /\ pc[r] \in {"written", "unchanged"}
      /\ pc[r] = "unchanged" => ctx[r].after = rows[i]
      /\ ctx[r].after \in RowType /\ Proper(table, key, ctx[r].after)
      /\ Transition(rows[i], ctx[r].after)
  BY DEF Inv, Typed, Held, Commit
<1>2. rows' = [rows EXCEPT ![i] = ctx[r].after]
  <2>1. CASE pc[r] = "written"
    BY <2>1 DEF Commit
  <2>2. CASE pc[r] = "unchanged"
    BY <1>1, <2>2 DEF Commit, Inv, Typed
  <2> QED BY <1>1, <2>1, <2>2
<1>3. gaps' = gaps /\ trail' = [trail EXCEPT ![i] = ctx[r].after]
  BY <1>1 DEF Commit, Inv, AuditIsChain
<1>4. /\ pc' = [pc EXCEPT ![r] = "idle"] /\ ctx' = [ctx EXCEPT ![r] = NoContext]
      /\ pc'[r] = "idle"
      /\ \A q \in Requests \ {r} : pc'[q] = pc[q] /\ ctx'[q] = ctx[q]
      /\ UNCHANGED <<table, key>>
  BY DEF Inv, Typed, Commit, Finish, subject
<1>5. rows'[i] = ctx[r].after /\ \A j \in Rows \ {i} : rows'[j] = rows[j]
  BY <1>1, <1>2 DEF Inv, Typed
<1> QED BY <1>1, <1>2, <1>3, <1>4, <1>5

LEMMA CommitStep == ASSUME Inv, NEW r \in Requests, Commit(r) PROVE Inv'
<1> DEFINE i == ctx[r].row
           a == ctx[r].after
<1>0. /\ i \in Rows /\ rows[i] = ctx[r].before
      /\ rows' = [rows EXCEPT ![i] = a]
      /\ rows'[i] = a
      /\ \A j \in Rows \ {i} : rows'[j] = rows[j]
      /\ trail' = [trail EXCEPT ![i] = a]
      /\ gaps' = gaps
      /\ pc[r] \in {"written", "unchanged"}
      /\ pc[r] = "unchanged" => a = rows[i]
      /\ a \in RowType /\ Proper(table, key, a)
      /\ Transition(rows[i], a)
      /\ pc' = [pc EXCEPT ![r] = "idle"] /\ ctx' = [ctx EXCEPT ![r] = NoContext]
      /\ pc'[r] = "idle"
      /\ \A q \in Requests \ {r} : pc'[q] = pc[q] /\ ctx'[q] = ctx[q]
      /\ UNCHANGED <<table, key>>
  BY CommitWrites
<1>1. Typed'
  <2>1. ctx' \in [Requests -> [row: Rows \cup {Nil}, before: RowType, after: RowType]]
    BY <1>0, AbsentRow DEF Inv, Typed, NoContext
  <2>2. rows' \in [Rows -> RowType] /\ trail' \in [Rows -> RowType]
    BY <1>0 DEF Inv, Typed
  <2>3. pc' \in [Requests -> {"idle", "save", "written", "unchanged"}]
    BY <1>0 DEF Inv, Typed
  <2>4. \A j \in Rows : Proper(table, key, rows'[j])
    BY <1>0 DEF Inv, Typed
  <2>5. \A q \in Requests : pc'[q] # "idle" =>
          ctx'[q].row \in Rows /\ Proper(table, key, ctx'[q].after)
    BY <1>0 DEF Inv, Typed
  <2> HIDE DEF i, a
  <2> QED BY <1>0, <2>1, <2>2, <2>3, <2>4, <2>5 DEF Inv, Typed
<1>2. Held'
  <2>1. ASSUME NEW q \in Requests, q # r, pc[q] # "idle" PROVE ctx[q].row # i /\ ctx[q].row \in Rows
    BY <1>0, <2>1 DEF Inv, Held, Typed
  <2> QED BY <1>0, <2>1 DEF Inv, Held
<1>3. Indexed'
  <2>1. ASSUME a.status = "live", a.slug # Nil
        PROVE  \A j \in Rows \ {i} : ~Occupies(rows[j], a.slug)
    <3>1. CASE pc[r] = "unchanged"
      BY <1>0, <2>1, <3>1 DEF Inv, Indexed, Taken
    <3>2. CASE pc[r] = "written"
      BY <2>1, <3>2 DEF Inv, Indexed, Taken, Entered
    <3> QED BY <1>0, <3>1, <3>2
  <2>2. ASSUME NEW j \in Rows, rows'[j].status = "live", rows'[j].slug # Nil
        PROVE  ~Taken(j, rows[j].slug)'
    <3>1. CASE j = i
      BY <1>0, <2>1, <2>2, <3>1 DEF Taken
    <3>2. CASE j # i
      <4>1. rows[j].status = "live" /\ rows[j].slug # Nil /\ ~Taken(j, rows[j].slug)
        BY <1>0, <2>2, <3>2 DEF Inv, Indexed
      <4>2. ~Occupies(a, rows[j].slug)
        BY <1>0, <2>1, <4>1, <3>2 DEF Occupies
      <4> QED BY <1>0, <4>1, <4>2, <3>2 DEF Taken
    <3> QED BY <3>1, <3>2
  <2>3. ASSUME NEW q \in Requests \ {r}, pc[q] = "written", Entered(q) # Nil
        PROVE  ~Occupies(a, Entered(q))
    <3>1. ~Taken(ctx[q].row, Entered(q)) /\ i # ctx[q].row
      BY <1>0, <2>3 DEF Inv, Indexed, Held
    <3>2. CASE pc[r] = "unchanged"
      BY <1>0, <3>1, <3>2 DEF Taken
    <3>3. CASE pc[r] = "written"
      BY <2>3, <3>3 DEF Inv, Indexed
    <3> QED BY <1>0, <3>2, <3>3
  <2>4. ASSUME NEW q \in Requests, pc'[q] = "written", Entered(q)' # Nil
        PROVE  /\ ~Taken(ctx[q].row, Entered(q))'
               /\ \A p \in Requests \ {q} : pc'[p] = "written" =>
                     /\ ~Occupies(ctx'[p].before, Entered(q)')
                     /\ ~Occupies(ctx'[p].after, Entered(q)')
    <3>1. q # r /\ pc[q] = "written" /\ Entered(q)' = Entered(q) /\ ctx'[q] = ctx[q]
      BY <1>0, <2>4 DEF Entered
    <3>2. /\ ~Taken(ctx[q].row, Entered(q))
          /\ \A p \in Requests \ {q} : pc[p] = "written" =>
                     /\ ~Occupies(ctx[p].before, Entered(q))
                     /\ ~Occupies(ctx[p].after, Entered(q))
      BY <2>4, <3>1 DEF Inv, Indexed
    <3>3. ~Taken(ctx[q].row, Entered(q))'
      BY <1>0, <2>3, <2>4, <3>1, <3>2 DEF Taken
    <3> QED BY <1>0, <3>1, <3>2, <3>3
  <2> QED BY <2>2, <2>4 DEF Indexed
<1>4. AuditIsChain'
  BY <1>0 DEF Inv, AuditIsChain, Typed
<1> QED BY <1>1, <1>2, <1>3, <1>4 DEF Inv

LEMMA InvStep == Inv /\ [Next]_vars => Inv'
<1> SUFFICES ASSUME Inv, [Next]_vars PROVE Inv'
  OBVIOUS
<1>1. ASSUME NEW r \in Requests, Request(r) PROVE Inv'
  <2>1. CASE SlugConflict(r) \/ Rollback(r)
    BY <2>1, FinishStep DEF SlugConflict, Rollback
  <2> QED BY <1>1, <2>1, OperationStep, SaveStep, CommitStep DEF Request
<1>2. CASE UNCHANGED vars
  BY <1>2 DEF vars, subject, history, Inv, Typed, Held, Indexed,
              AuditIsChain, Taken, Entered
<1> QED BY <1>1, <1>2 DEF Next

LEMMA InvAlways == Spec => []Inv
BY InvInit, InvStep, PTL DEF Spec

-----------------------------------------------------------------------------
\* Every reachable state is well typed.
THEOREM TypeCorrect == Spec => []TypeOK
<1>1. Inv => TypeOK
  BY DEF Inv, Typed, Proper, RowType, TypeOK
<1> QED BY <1>1, InvAlways, PTL

\* The audit rows of a row form a chain that ends in the row, however many
\* administrators edit it at once.
THEOREM AuditAlwaysChain == Spec => []AuditIsChain
<1>1. Inv => AuditIsChain
  BY DEF Inv
<1> QED BY <1>1, InvAlways, PTL

\* What is stored of a setting is what its readers get, and of the type that
\* they expect, for every value that a client may submit.
THEOREM StoredAlwaysReadable == Spec => []StoredIsReadable
<1>1. Inv => StoredIsReadable
  BY DEF Inv, Typed, Proper, Readable, StoredIsReadable
<1> QED BY <1>1, InvAlways, PTL

\* Only a commit touches a row.
LEMMA RowSteps ==
    [Next]_vars => UNCHANGED <<table, key, rows>> \/ \E r \in Requests : Commit(r)
<1> SUFFICES ASSUME [Next]_vars
             PROVE  UNCHANGED <<table, key, rows>> \/ \E r \in Requests : Commit(r)
  OBVIOUS
<1>1. ASSUME NEW r \in Requests, NEW i, NEW after, Decide(r, i, after)
      PROVE  UNCHANGED <<table, key, rows>>
  BY <1>1 DEF Decide, subject
<1>2. ASSUME NEW r \in Requests, Request(r), ~Commit(r)
      PROVE  UNCHANGED <<table, key, rows>>
  <2>1. CASE Save(r) \/ SlugConflict(r) \/ Rollback(r)
    BY <2>1 DEF Save, SlugConflict, Rollback, Finish, subject
  <2>2. CASE \E i \in Rows :
         \/ \E v \in Values(key) : UpdateSetting(r, i, v)
         \/ \E name \in Names, active \in BOOLEAN :
              \/ \E raw \in SlugInputs : CreateCategory(r, i, name, raw, active)
              \/ CreateReferenceValue(r, i, name, active)
         \/ \E name \in Names \cup {Nil}, active \in BOOLEAN \cup {Nil} :
              \/ \E raw \in SlugInputs \cup {Nil} : UpdateCategory(r, i, name, raw, active)
              \/ UpdateReferenceValue(r, i, name, active)
         \/ ArchiveCategory(r, i)
         \/ ArchiveReferenceValue(r, i)
    <3>1. \E i, after : Decide(r, i, after)
      BY <2>2 DEF UpdateSetting, CreateCategory, CreateReferenceValue, Create, UpdateCategory,
                  UpdateReferenceValue, ArchiveCategory, ArchiveReferenceValue
    <3> QED BY <1>1, <3>1
  <2> QED BY <1>2, <2>1, <2>2 DEF Request
<1>3. CASE UNCHANGED vars
  BY <1>3 DEF vars, subject
<1> QED BY <1>2, <1>3 DEF Next

\* Nothing that was decided before a row was archived changes it afterwards.
THEOREM ArchivedForever == Spec => ArchivedIsFinal
<1>1. Inv /\ [Next]_vars =>
        [\A i \in Rows : rows[i].status = "archived" => rows'[i] = rows[i] /\ ~rows[i].active]_vars
  <2> SUFFICES ASSUME Inv, [Next]_vars, NEW i \in Rows, rows[i].status = "archived"
               PROVE  rows'[i] = rows[i] /\ ~rows[i].active
    OBVIOUS
  <2>1. ~rows[i].active
    BY DEF Inv, Typed, Proper
  <2>2. ASSUME NEW r \in Requests, Commit(r) PROVE rows'[i] = rows[i]
    BY <2>2, CommitWrites DEF Transition
  <2> QED BY <2>1, <2>2, RowSteps
<1> QED BY <1>1, InvAlways, PTL DEF Spec, ArchivedIsFinal

-----------------------------------------------------------------------------
\* The refinement: the directory that the rows of the categories show.
SlugOf(row) == IF row.status = "live" /\ row.slug # Nil THEN row.slug.slug ELSE Nil

\* Two rows that show one slug have the same text in the index.
LEMMA SameText ==
    ASSUME NEW x \in RowType, NEW y \in RowType, Proper(table, key, x), Proper(table, key, y),
           SlugOf(x) # Nil, SlugOf(x) = SlugOf(y)
    PROVE  y.status = "live" /\ x.slug = y.slug /\ x.slug # Nil
BY DEF RowType, Spellings, Proper, SlugOf

LEMMA SlugOfRow ==
    ASSUME NEW x \in RowType
    PROVE  /\ SlugOf(x) \in Slugs \cup {Nil}
           /\ SlugOf(x) # Nil <=> x.status = "live" /\ x.slug # Nil
BY NilAssumption DEF RowType, Spellings, SlugOf

LEMMA DirectoryInit == Init => Directory!Init
BY DEF Init, Directory!Init, Absent

LEMMA DirectoryStep == Inv /\ [Next]_vars => [Directory!Next]_(Directory!vars)
<1> SUFFICES ASSUME Inv, [Next]_vars PROVE [Directory!Next]_(Directory!vars)
  OBVIOUS
<1> DEFINE slugs == [i \in Rows |-> SlugOf(rows[i])]
           retired == {i \in Rows : rows[i].status = "archived" /\ rows[i].slug # Nil}
<1>1. CASE UNCHANGED rows
  BY <1>1 DEF Directory!vars
<1>2. ASSUME NEW r \in Requests, Commit(r) PROVE [Directory!Next]_(Directory!vars)
  <2>0. PICK i \in Rows, a \in RowType, b \in RowType :
          /\ i = ctx[r].row /\ a = ctx[r].after /\ b = rows[i]
          /\ rows' = [rows EXCEPT ![i] = a] /\ rows'[i] = a
          /\ \A j \in Rows \ {i} : rows'[j] = rows[j]
          /\ pc[r] \in {"written", "unchanged"}
          /\ pc[r] = "unchanged" => a = b
          /\ Proper(table, key, a) /\ Proper(table, key, b) /\ Transition(b, a)
          /\ UNCHANGED table
    <3>1. /\ rows[ctx[r].row] \in RowType /\ Proper(table, key, rows[ctx[r].row])
          /\ ctx[r].row \in Rows
      BY <1>2, CommitWrites DEF Inv, Typed
    <3> QED BY <1>2, <3>1, CommitWrites
  <2>1. slugs' = [slugs EXCEPT ![i] = SlugOf(a)]
    <3>1. slugs' = [j \in Rows |-> SlugOf(rows'[j])]
      BY DEF SlugOf
    <3>2. \A j \in Rows :
            SlugOf(rows'[j]) = IF j = i THEN SlugOf(a) ELSE SlugOf(rows[j])
      BY <2>0 DEF SlugOf
    <3> QED BY <3>1, <3>2
  <2>2. CASE SlugOf(a) = SlugOf(b) /\ (a.status = "archived" => a.slug = Nil)
    <3>1. slugs' = slugs
      BY <2>0, <2>1, <2>2
    <3>2. retired' = retired
      BY <2>0, <2>2 DEF Transition
    <3> QED BY <3>1, <3>2 DEF Directory!vars, SlugOf
  <2>3. CASE a.status = "archived" /\ a.slug # Nil
    <3>1. b.status = "live" /\ b.slug # Nil /\ slugs[i] # Nil /\ SlugOf(a) = Nil
      BY <2>0, <2>3, SlugOfRow DEF Transition
    <3>2. retired' = retired \cup {i}
      BY <2>0, <2>3
    <3>3. Directory!Release(i)
      BY <2>0, <2>1, <3>1, <3>2 DEF Directory!Release, SlugOf
    <3> QED BY <2>0, <3>3 DEF Directory!Next
  <2>4. CASE a.status # "archived" /\ SlugOf(a) # SlugOf(b)
    <3>1. a.status = "live" /\ retired' = retired /\ i \notin retired
      BY <2>0, <2>4 DEF Transition, RowType
    <3>2. SlugOf(a) \in Slugs /\ a.slug # Nil
      <4>1. CASE b.status = "absent"
        BY <2>0, <2>4, <3>1, <4>1, SlugOfRow DEF Proper
      <4>2. CASE b.status = "live"
        BY <2>0, <2>4, <3>1, <4>2, SlugOfRow DEF Proper, SlugOf
      <4> QED BY <2>0, <4>1, <4>2, <3>1, SlugOfRow DEF RowType, Transition
    <3>3. pc[r] = "written" /\ Entered(r) = a.slug
      BY <2>0, <2>4, <3>1 DEF Entered
    <3>4. ASSUME NEW j \in Rows PROVE slugs[j] # SlugOf(a)
      <4>1. CASE j = i
        BY <2>0, <2>4, <4>1 DEF SlugOf
      <4>2. CASE j # i
        <5>1. ~Occupies(rows[j], a.slug)
          BY <2>0, <3>2, <3>3, <4>2 DEF Inv, Indexed, Taken
        <5>2. rows[j] \in RowType /\ Proper(table, key, rows[j])
          BY DEF Inv, Typed
        <5> QED BY <2>0, <3>2, <5>1, <5>2, SameText, NilAssumption DEF Occupies
      <4> QED BY <4>1, <4>2
    <3>5. Directory!Claim(i, SlugOf(a)) \/ Directory!Move(i, SlugOf(a))
      BY <2>0, <2>1, <3>1, <3>4 DEF Directory!Claim, Directory!Move, Directory!Free, SlugOf
    <3> QED BY <2>0, <3>2, <3>5 DEF Directory!Next
  <2>5. a.status = "archived" /\ a.slug = Nil => SlugOf(a) = SlugOf(b)
    BY <2>0 DEF Transition, SlugOf
  <2> QED BY <2>2, <2>3, <2>4, <2>5
<1> QED BY <1>1, <1>2, RowSteps

\* The slugs of live categories are a directory, for any number of categories
\* and administrators.
THEOREM DirectoryRefinement == Spec => ImplementsSlugDirectory
<1>1. Inv /\ [Next]_vars => [Directory!Next]_(Directory!vars)
  BY DirectoryStep
<1> QED BY <1>1, InvAlways, DirectoryInit, PTL DEF Spec, ImplementsSlugDirectory, Directory!Spec
=============================================================================
