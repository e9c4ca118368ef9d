------------------------------ MODULE ItemValues ------------------------------
(***************************************************************************)
(* The value of one item, with its limits, on its way from a client that   *)
(* writes it as JSON to the service that has it on the D-Bus, and back to  *)
(* the clients (VeVariant in src/src/vevariant.cpp, Item and ValueMinMax   *)
(* in src/src/types.cpp, write_to_dbus in src/src/state.cpp).              *)
(*                                                                         *)
(* JSON, variants and D-Bus values are tuples that begin with their type.  *)
(* An integer of 32 bits here has Bits32, one of 64 has Bits64.            *)
(***************************************************************************)
EXTENDS Integers, Sequences, SequencesExt, ItemText

CONSTANTS
    Bits32, Bits64,
    Writes,   \* JSON values that clients write
    Values,   \* D-Bus values that the service comes to by itself
    Limits,   \* D-Bus values of a minimum and a maximum
    Masked    \* what is shown for a string that is a secret

VARIABLES
    service,    \* external: the value the service has
    call,       \* external: the value in a SetValue under way
    signal,     \* external: what a signal under way tells
    written     \* auxiliary: the JSON last written, if the value has not changed since

serviceVars == <<service, call, signal>>
vars        == <<textVars, serviceVars, written>>

----------------------------------------------------------------------------
(* VeVariant: a type, what it holds, and the contained type of an array.   *)

Wrap(n, bits) == ((n + 2 ^ (bits - 1)) % (2 ^ bits)) - 2 ^ (bits - 1)

\* Mutant of Fits32: off by one.
FitsAlmost(n) == n \in -(2 ^ (Bits32 - 1)) .. 2 ^ (Bits32 - 1)

Fits32(n) == n \in -(2 ^ (Bits32 - 1)) .. 2 ^ (Bits32 - 1) - 1

\* The type codes of D-Bus. No text is a type code of its own.
TypeCode ==
    [IntegerSigned16 |-> "n", IntegerUnsigned16 |-> "q", IntegerSigned32 |-> "i",
     IntegerUnsigned32 |-> "u", IntegerSigned64 |-> "x", IntegerUnsigned64 |-> "t",
     IntegerUnsigned8 |-> "y", String |-> "s", Double |-> "d", Boolean |-> "b",
     Array |-> "a", Dict |-> "a"]

get_dbus_type(v) == TypeCode[v[1]]

\* Mutant of OfOneType: what is in an array is not compared.
AnyTypes(vs) == TRUE

OfOneType(vs) ==
    \A i, k \in DOMAIN vs : get_dbus_type(vs[i]) = get_dbus_type(vs[k])

FromInteger(n) ==
    IF Fits32(Wrap(n, Bits64))
    THEN <<"IntegerSigned32", Wrap(n, Bits32), <<>>>>
    ELSE <<"IntegerSigned64", Wrap(n, Bits64), <<>>>>

\* VeVariant(const nlohmann::json &)
RECURSIVE FromJson(_)
FromJson(j) ==
    CASE j[1] = "int"    -> FromInteger(j[2])
      [] j[1] = "string" -> <<"String", j[2], <<>>>>
      [] j[1] = "float"  -> <<"Double", j[2], <<>>>>
      [] j[1] = "bool"   -> <<"Boolean", j[2], <<>>>>
      [] j[1] = "null"   -> <<"Array", <<>>, <<"i">>>>
      [] j[1] = "object" -> ValueError
      [] j[1] = "array"  ->
           LET vs == [i \in DOMAIN j[2] |-> FromJson(j[2][i])]
           IN  IF (\E i \in DOMAIN vs : vs[i] = ValueError) \/ ~OfOneType(vs) THEN ValueError
               ELSE <<"Array", vs, IF vs = <<>> THEN <<"u">> ELSE <<get_dbus_type(Last(vs))>>>>

RECURSIVE get_contained_type_as_string(_)
get_contained_type_as_string(v) ==
    IF v[1] = "Array" /\ v[2] # <<>>
    THEN v[3] \o get_contained_type_as_string(v[2][1])
    ELSE v[3]

\* as_json_value. An empty array is null, whatever its contained type.
RECURSIVE as_json_value(_, _)
as_json_value(v, secret) ==
    CASE v[1] = "String"  -> <<"string", IF secret THEN Masked ELSE v[2]>>
      [] v[1] = "Double"  -> <<"float", v[2]>>
      [] v[1] = "Boolean" -> <<"bool", v[2]>>
      [] v[1] = "Array"   ->
           LET js == [i \in DOMAIN v[2] |-> as_json_value(v[2][i], FALSE)]
           IN  IF js = <<>> THEN <<"null", 0>>
               ELSE IF \E i \in DOMAIN js : js[i] = ValueError THEN ValueError
               ELSE <<"array", js>>
      [] v[1] = "Dict"    ->
           IF v[2][1][1] # "String" THEN ValueError
           ELSE <<"object", <<v[2][1][2], as_json_value(v[2][2], FALSE)>>>>
      [] v[1] = "Unknown" -> <<"string", "unknown_type">>
      [] OTHER            -> <<"int", v[2]>>

----------------------------------------------------------------------------
(* D-Bus values: a basic one is a type code and what it holds; an array has*)
(* the signature of its elements as well.                                  *)

Signature(w) == IF w[1] = "a" THEN <<"a">> \o w[3] ELSE <<w[1]>>

Malformed == <<"malformed">>

\* append_args_to_dbus_message. libdbus takes an element into an array only if
\* it has the signature that the array was opened with. (What the code throws on
\* itself, a dict and an array of several types, FromJson has already refused.)
RECURSIVE append_args_to_dbus_message(_)
append_args_to_dbus_message(v) ==
    IF v[1] # "Array" THEN <<get_dbus_type(v), v[2]>>
    ELSE LET ws        == [i \in DOMAIN v[2] |-> append_args_to_dbus_message(v[2][i])]
             contained == get_contained_type_as_string(v)
         IN  IF \E i \in DOMAIN ws : ws[i] = Malformed \/ Signature(ws[i]) # contained
             THEN Malformed ELSE <<"a", ws, contained>>

\* VeVariant(DBusMessageIter *). A dict, here of one entry, is an array of dict
\* entries, so an empty one is an empty array; structs are not implemented.
RECURSIVE FromIter(_)
FromIter(w) ==
    CASE w[1] = "struct" -> Unknown
      [] w[1] = "a"      -> <<"Array", [i \in DOMAIN w[2] |-> FromIter(w[2][i])], w[3]>>
      [] w[1] = "dict"   -> <<"Dict", <<FromIter(w[2][1]), FromIter(w[2][2])>>, <<"{sv}">>>>
      [] OTHER           -> <<CHOOSE t \in DOMAIN TypeCode \ {"Array", "Dict"} : TypeCode[t] = w[1],
                              w[2], <<>>>>

----------------------------------------------------------------------------
(* The item *)

\* What can be told of a part of it.
ItemVariants ==
    LET written_values == {FromJson(j) : j \in Writes} \ {ValueError}
        calls == {append_args_to_dbus_message(v) : v \in written_values} \ {Malformed}
    IN  {Unknown} \cup {FromIter(w) : w \in Values \cup Limits \cup calls}

\* The text of this item is that of its variants.
ASSUME TextAssumption ==
    /\ Variants = ItemVariants
    /\ Unknown = <<"Unknown", 0, <<>>>>
    /\ \A v \in Variants, secret \in BOOLEAN : TextOf(v, secret) = as_json_value(v, secret)

----------------------------------------------------------------------------
(* Requests and signals *)

\* A value that is refused changes nothing. The calls and signals of one item
\* keep their order (see SystemBus); here there is one of them at a time.
Idle == call = None /\ signal = None

\* Mutant of write_to_dbus: the item gets what is written at once.
WrittenAtOnce(j) ==
    /\ Idle /\ FromJson(j) # ValueError
    /\ call' = append_args_to_dbus_message(FromJson(j))
    /\ item' = [item EXCEPT !.value = FromJson(j)]
    /\ written' = j
    /\ UNCHANGED <<cache_json, mask, service, signal>>

write_to_dbus(j) ==
    /\ Idle /\ FromJson(j) # ValueError
    /\ call' = append_args_to_dbus_message(FromJson(j))
    /\ written' = j
    /\ UNCHANGED <<textVars, service, signal>>

\* libdbus does not send what is malformed. It is taken to be built, as usual,
\* so that a failed check of its own is reported and does not end the process.
NotSent ==
    /\ call = Malformed
    /\ call' = None /\ written' = None
    /\ UNCHANGED <<textVars, service, signal>>

\* What PropertiesChanged tells is the value; limits that come with it are not
\* looked at. ItemsChanged tells any part.
ItemsChanged(w, limits) ==
    [value |-> IF w = None THEN Unknown ELSE FromIter(w),
     min   |-> IF limits[1] = None THEN Unknown ELSE FromIter(limits[1]),
     max   |-> IF limits[2] = None THEN Unknown ELSE FromIter(limits[2])]

PropertiesChanged(w) == ItemsChanged(w, <<None, None>>)

\* The service takes a value that is written, as it is.
SetValue ==
    /\ call \notin {None, Malformed}
    /\ service' = call /\ call' = None
    /\ signal' = PropertiesChanged(call)
    /\ UNCHANGED <<textVars, written>>

\* The service changes something by itself.
Change(w, limits) ==
    /\ Idle
    /\ service' = IF w = None THEN service ELSE w
    /\ signal' = ItemsChanged(w, limits)
    /\ written' = IF w = None THEN written ELSE None
    /\ UNCHANGED <<textVars, call>>

dbus_handle_message ==
    /\ signal # None
    /\ signal' = None
    /\ set_value(signal)
    /\ UNCHANGED <<service, call, written>>

publish_all == publish /\ UNCHANGED <<serviceVars, written>>

\* The item is known with the value the service has, without limits.
Init ==
    /\ mask \in BOOLEAN
    /\ service \in Values
    /\ item = PropertiesChanged(service)
    /\ cache_json = None /\ call = None /\ signal = None
    /\ written = None

Next ==
    \/ \E j \in Writes : write_to_dbus(j)
    \/ NotSent
    \/ SetValue
    \/ \E w \in Values \cup {None}, min, max \in Limits \cup {None} : Change(w, <<min, max>>)
    \/ dbus_handle_message
    \/ publish_all

Spec == Init /\ [][Next]_vars

----------------------------------------------------------------------------
(* Properties *)

\* The value or the array of values is one of integers within 64 signed bits.
RECURSIVE Signed(_)
Signed(j) ==
    CASE j[1] = "int"   -> j[2] < 2 ^ (Bits64 - 1)
      [] j[1] = "array" -> \A i \in DOMAIN j[2] : Signed(j[2][i])
      [] OTHER          -> TRUE

RECURSIVE NullForEmpty(_)
NullForEmpty(j) ==
    IF j[1] # "array" THEN j
    ELSE IF j[2] = <<>> THEN <<"null", 0>>
    ELSE <<"array", [i \in DOMAIN j[2] |-> NullForEmpty(j[2][i])]>>

\* What a client has written and the service has taken is what is published,
\* through two conversions each way: empty arrays, which stand for null, and
\* integers beyond 64 signed bits apart.
RoundTrip ==
    /\ written # None /\ Signed(written)
    /\ Idle /\ cache_json # None /\ ~mask
    => cache_json.value = NullForEmpty(written)

\* A value that is not refused makes a message that libdbus takes, unless it
\* has arrays in an array: these are compared by their outermost type.
UniformArrays ==
    call = Malformed => \E i \in DOMAIN written[2] : written[2][i][1] \in {"array", "null"}

\* What happens to the item is what ItemText says of any item: its theorems hold
\* of this one.
ImplementsText == TextSpec

=============================================================================
