---------------------------- MODULE SettingValue ----------------------------
(***************************************************************************)
(* Settings are rows of text with a declared data type                     *)
(* (common/setting).  An administrator may store any text that checkValue  *)
(* accepts for the type sent with it; getValue turns the stored pair back  *)
(* into a JavaScript value, and the callers use that value with JavaScript *)
(* semantics: `if (value)` and `attempt >= value`.                         *)
(***************************************************************************)
EXTENDS Integers

CONSTANTS Numerals,  \* the texts HelperNumberService.check accepts
          NumberOf,  \* the number each of them denotes
          Texts      \* other texts, none of them empty or a number for JavaScript

BooleanTexts == {"true", "false"}

ASSUME SettingAssumption ==
    /\ NumberOf \in [Numerals -> Int]
    /\ Numerals \cap (BooleanTexts \cup Texts \cup {""}) = {}
    /\ "" \notin Texts

\* Texts are taken without the spaces around them, which the entity trims: a body
\* of spaces is stored as "".
Values == BooleanTexts \cup Numerals \cup Texts \cup {""}

Types == {"BOOLEAN", "STRING", "ARRAY_OF_STRING", "NUMBER"}

\* The part of a SettingEntity that getValue looks at.
Setting == [type: Types, value: Values]

\* SettingService.checkValue: is the text allowed for the type?
CheckValue(value, type) ==
    \/ type = "BOOLEAN" /\ value \in BooleanTexts
    \/ type = "NUMBER" /\ value \in Numerals
    \/ type \in {"STRING", "ARRAY_OF_STRING"}

\* SettingService.getValue: the kind of JavaScript value a setting becomes.  A
\* text that does not fit its type falls through to the last return, as a string.
Kind(setting) ==
    CASE setting.type = "BOOLEAN" /\ setting.value \in BooleanTexts -> "boolean"
      [] setting.type = "NUMBER" /\ setting.value \in Numerals -> "number"
      [] setting.type = "ARRAY_OF_STRING" -> "array"
      [] OTHER -> "string"

GetValue(setting) == [kind |-> Kind(setting), text |-> setting.value]

\* `if (v)`: an array is truthy, a text is unless it is empty.
Truthy(v) ==
    CASE v.kind = "boolean" -> v.text = "true"
      [] v.kind = "number" -> NumberOf[v.text] # 0
      [] v.kind = "string" -> v.text # ""
      [] OTHER -> TRUE

\* `n >= v`: a boolean counts as 0 or 1, a string or a one-element array that
\* spells a number as that number, an empty one as 0; any other text is NaN and
\* compares false.
AtLeast(n, v) ==
    CASE v.kind = "boolean" -> n >= (IF v.text = "true" THEN 1 ELSE 0)
      [] v.kind # "boolean" /\ v.text = "" -> n >= 0
      [] v.kind # "boolean" /\ v.text \in Numerals -> n >= NumberOf[v.text]
      [] OTHER -> FALSE
=============================================================================
