------------------------------- MODULE ItemText -------------------------------
(***************************************************************************)
(* The text that an item keeps of its value and its limits (Item and       *)
(* ValueMinMax in src/src/types.cpp): made when the item is published,     *)
(* dropped when it is told something, and good until then.  What a variant *)
(* is and what it looks like as JSON are parameters.                       *)
(***************************************************************************)
CONSTANTS
    Variants,     \* what signals and answers tell of a value or a limit
    Unknown,      \* the variant of a part that was not told
    TextOf(_, _), \* VeVariant::as_json_value, of a secret or not
    ValueError,   \* what it throws
    None          \* no text; no call, no signal, nothing written

VARIABLES
    item,       \* Item::value, a ValueMinMax
    cache_json, \* Item::cache_json, the text of a value with its limits
    mask        \* whether the item is the one of a secret

textVars == <<item, cache_json, mask>>

Parts == [{"value", "min", "max"} -> Variants]

\* ValueMinMax::operator=. A signal may tell a part only.
Merged(old, new) ==
    [f \in {"value", "min", "max"} |-> IF new[f] = Unknown THEN old[f] ELSE new[f]]

AsJson(i) ==
    [value |-> TextOf(i.value, mask),
     min   |-> IF i.min = Unknown THEN None ELSE TextOf(i.min, FALSE),
     max   |-> IF i.max = Unknown THEN None ELSE TextOf(i.max, FALSE)]

Showable(json) == \A f \in DOMAIN json : json[f] # ValueError

\* Item::publish of an item with the given text: as_json may throw, and then
\* there is no text.
Published(i, json) ==
    cache_json' = IF json # None THEN json
                  ELSE IF Showable(AsJson(i)) THEN AsJson(i) ELSE None

\* Mutant of set_value: the text stays.
set_value_only(told) ==
    /\ item' = Merged(item, told)
    /\ \/ Published(item', cache_json)
       \/ UNCHANGED cache_json
    /\ UNCHANGED mask

\* set_value, or the assignment of a whole Item; published while alive.
set_value(told) ==
    /\ item' = Merged(item, told)
    /\ \/ Published(item', None)
       \/ cache_json' = None
    /\ UNCHANGED mask

\* An answer to a keep-alive.
publish ==
    /\ Published(item, cache_json)
    /\ UNCHANGED <<item, mask>>

TextInit ==
    /\ item \in Parts
    /\ cache_json = None
    /\ mask \in BOOLEAN

\* What an item goes through, whoever tells it what: to be told some parts is to
\* be told all that it has then.
TextNext ==
    \/ publish
    \/ item' \in Parts /\ set_value(item')

TextSpec == TextInit /\ [][TextNext]_textVars

----------------------------------------------------------------------------
(* Properties *)

\* The text that is kept is that of the value and the limits there are, through
\* any signals that tell a part of them, published or not (Item::set_value,
\* Item::publish).
TextIsCurrent == cache_json # None => cache_json = AsJson(item)

\* A value or a limit that was told never gets lost (ValueMinMax::operator=).
NothingForgotten == [][\A f \in DOMAIN item : item[f] # Unknown => item'[f] # Unknown]_item

=============================================================================
