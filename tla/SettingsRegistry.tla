-------------------------- MODULE SettingsRegistry --------------------------
(***************************************************************************)
(* The registry of settings (settings_registry.py): the keys, their types   *)
(* and limits, and the validation that every value passes on its way into   *)
(* and out of the table.                                                    *)
(*                                                                          *)
(* A JSON value is a record with its JSON type in `t`. Of a string only what *)
(* validation looks at is kept: its length once trimmed, whether it carries *)
(* surrounding space, whether it (trimmed) matches the E.164 pattern; of an *)
(* object whether its keys are exactly those of a money value, its amount,  *)
(* a JSON value of its own, and whether its currency is USD.                *)
(***************************************************************************)
EXTENDS Integers

Null == [t |-> "null"]
Bool(b) == [t |-> "boolean", b |-> b]
Int64(n) == [t |-> "int", n |-> n]
Text(length, padded, e164) ==
    [t |-> "string", length |-> length, padded |-> padded, e164 |-> e164]
Object(exact, amount, usd) ==
    [t |-> "object", exact |-> exact, amount |-> amount, usd |-> usd]
Other == [t |-> "other"]    \* a decimal or an array

\* What a client can submit for a setting. Nothing but an amount is looked at
\* inside an object.
Scalar ==
    {Null, Other} \cup [t: {"boolean"}, b: BOOLEAN] \cup [t: {"int"}, n: Int]
    \cup [t: {"string"}, length: Nat, padded: BOOLEAN, e164: BOOLEAN]
JSON == Scalar \cup [t: {"object"}, exact: BOOLEAN, amount: Scalar, usd: BOOLEAN]

-----------------------------------------------------------------------------
\* SettingDefinition. Every numeric type declares both of its limits, every
\* string its length; `minimum` and `maximum` of the others are not read.
Definition(type, default, minimum, maximum, flags) ==
    [type |-> type, default |-> default, minimum |-> minimum, maximum |-> maximum,
     public |-> "public" \in flags, nullable |-> "nullable" \in flags,
     e164 |-> "e164" \in flags]

SwitchedOff == Definition("boolean", Bool(FALSE), 0, 0, {"public"})

Whole(type, default, minimum, maximum) ==
    Definition(type, Int64(default), minimum, maximum, {})

\* A string that is not configured yet; `maximum` is its max_length.
Contact(max_length, format) ==
    Definition("string", Null, 1, max_length, {"public", "nullable"} \cup format)

REGISTRY == [
    accepting_orders |-> SwitchedOff,
    offer_response_window |-> Whole("duration", 172800, 3600, 604800),
    offer_checkout_window |-> Whole("duration", 86400, 3600, 604800),
    offer_rejection_cooldown |-> Whole("duration", 604800, 0, 2592000),
    minimum_offer_percentage |-> Whole("integer", 70, 0, 100),
    checkout_hold_period |-> Whole("duration", 1800, 300, 7200),
    unverified_account_purge_period |-> Whole("duration", 2592000, 604800, 7776000),
    daily_download_cap |-> Whole("integer", 20, 1, 1000),
    free_shipping_threshold |->
        Definition("money", Null, 0, 1000000, {"public", "nullable"}),
    pickup_address |-> Contact(500, {}),
    pickup_hours |-> Contact(200, {}),
    whatsapp_number |-> Contact(16, {"e164"})]

ALL_KEYS == DOMAIN REGISTRY

-----------------------------------------------------------------------------
\* Fault: isinstance(value, int), which is true of booleans.
WholeNumberOrBoolean(d, v) ==
    \/ v.t = "boolean"
    \/ v.t = "int" /\ d.minimum <= v.n /\ v.n <= d.maximum

\* _is_strict_int, _validate_number
WholeNumber(d, v) ==
    /\ v.t = "int"
    /\ d.minimum <= v.n
    /\ v.n <= d.maximum

\* _validate_money
Money(d, v) ==
    /\ v.t = "object"
    /\ v.exact
    /\ WholeNumber(d, v.amount)
    /\ v.usd

\* _validate_string
String(d, v) ==
    /\ v.t = "string"
    /\ v.length > 0
    /\ v.length <= d.maximum
    /\ d.e164 => v.e164

\* validate_value: is the value accepted?
Accepted(key, v) ==
    LET d == REGISTRY[key] IN
    \/ v = Null /\ d.nullable
    \/ d.type = "boolean" /\ v.t = "boolean"
    \/ d.type \in {"integer", "duration"} /\ WholeNumber(d, v)
    \/ d.type = "money" /\ Money(d, v)
    \/ d.type = "string" /\ String(d, v)

\* validate_value: the value to store. A string is trimmed.
Normalised(v) == IF v.t = "string" THEN [v EXCEPT !.padded = FALSE] ELSE v

-----------------------------------------------------------------------------
\* SettingsReader.get: what a stored value reads as, Nil when it raises.
Reads(key, v, Nil) == IF Accepted(key, v) THEN Normalised(v) ELSE Nil

\* get_duration_seconds, get_int, get_bool: the type their callers rely on.
HasReaderType(key, v) ==
    LET d == REGISTRY[key] IN
    /\ d.type \in {"integer", "duration"} => v.t = "int"
    /\ d.type = "boolean" => v.t = "boolean"

\* read_public_settings: the value fits the field of PublicSettingsRead.
HasFieldType(key, v) ==
    REGISTRY[key].public =>
        \/ v.t \in {"boolean", "string", "null"}
        \/ v.t = "object" /\ v.exact /\ v.amount.t = "int"
=============================================================================
