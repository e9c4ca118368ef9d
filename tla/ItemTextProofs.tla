---------------------------- MODULE ItemTextProofs ----------------------------
(***************************************************************************)
(* The text of an item is never stale, for any values and limits and any   *)
(* way in which they are written as JSON, also when that fails.            *)
(***************************************************************************)
EXTENDS ItemText, TLAPS

TypeOK == item \in Parts /\ mask \in BOOLEAN

\* Being told anything is a step of TextNext, which has the item told all that
\* it has afterwards: telling twice is telling once.
LEMMA AnyTold ==
    ASSUME item \in Parts, NEW told \in Parts, set_value(told)
    PROVE  TextNext
<1>1. item' = Merged(item, told)
  BY DEF set_value
<1>2. item' \in Parts
  BY <1>1 DEF Parts, Merged
<1>3. Merged(item, item') = Merged(item, told)
  BY <1>1 DEF Merged
<1> QED
  BY <1>1, <1>2, <1>3 DEF TextNext, set_value

LEMMA TextType == TextSpec => []TypeOK
<1>1. TextInit => TypeOK
  BY DEF TextInit, TypeOK
<1>2. TypeOK /\ [TextNext]_textVars => TypeOK'
  BY DEF TypeOK, TextNext, set_value, publish, textVars
<1> QED
  BY <1>1, <1>2, PTL DEF TextSpec

\* Whatever parts of a value and its limits are told, in any order, published or
\* not: a text that is kept is the one that would be made now.  Making it may
\* fail, and then none is kept (Item::set_value, Item::as_json, Item::publish).
THEOREM TextFollowsItem == TextSpec => []TextIsCurrent
<1>1. TextInit => TextIsCurrent
  BY DEF TextInit, TextIsCurrent
<1>2. TextIsCurrent /\ [TextNext]_textVars => TextIsCurrent'
  <2> SUFFICES ASSUME TextIsCurrent, [TextNext]_textVars, cache_json' # None
               PROVE  cache_json' = AsJson(item)'
    BY DEF TextIsCurrent
  <2>1. CASE publish
    <3>1. AsJson(item)' = AsJson(item)
      BY <2>1 DEF publish, AsJson
    <3> QED
      BY <2>1, <3>1 DEF publish, Published, TextIsCurrent
  <2>2. CASE set_value(item')
    <3>1. AsJson(item)' = AsJson(item')
      BY <2>2 DEF set_value, AsJson
    <3>2. Published(item', None)
      BY <2>2 DEF set_value
    <3> QED
      BY <3>1, <3>2 DEF Published
  <2>3. CASE UNCHANGED textVars
    <3>1. UNCHANGED cache_json /\ AsJson(item)' = AsJson(item)
      BY <2>3 DEF textVars, AsJson
    <3> QED
      BY <3>1 DEF TextIsCurrent
  <2> QED
    BY <2>1, <2>2, <2>3 DEF TextNext
<1> QED
  BY <1>1, <1>2, PTL DEF TextSpec

\* No part that was told is lost, by whatever is told later, a part or all of it
\* (ValueMinMax::operator=).
THEOREM PartsStay == TextSpec => NothingForgotten
<1>1. TypeOK /\ [TextNext]_textVars
         => [\A f \in DOMAIN item : item[f] # Unknown => item'[f] # Unknown]_item
  <2> SUFFICES ASSUME TypeOK, [TextNext]_textVars, item' # item,
                      NEW f \in DOMAIN item, item[f] # Unknown
               PROVE  item'[f] # Unknown
    OBVIOUS
  <2>1. f \in {"value", "min", "max"}
    BY DEF TypeOK, Parts
  <2>2. item' = Merged(item, item')
    BY DEF TextNext, set_value, publish, textVars
  <2>3. Merged(item, item')[f] = IF item'[f] = Unknown THEN item[f] ELSE item'[f]
    BY <2>1 DEF Merged
  <2> QED
    BY <2>2, <2>3
<1> QED
  BY <1>1, TextType, PTL DEF TextSpec, NothingForgotten

=============================================================================
