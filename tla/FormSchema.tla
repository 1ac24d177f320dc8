----------------------------- MODULE FormSchema -----------------------------
(***************************************************************************)
(* The schemas of the form designer (core/form_flow): the fields found in  *)
(* a parsed file, their retyping, the values a form starts with and takes, *)
(* and the document these values make.                                     *)
(*                                                                         *)
(* A document is a map of entries, a list of items, or a scalar with its   *)
(* kind and its text, one of a few.                                        *)
(***************************************************************************)
EXTENDS Integers, SequencesExt, TLC

Map(entries) == [type |-> "map", entries |-> entries]
Entry(key, value) == [key |-> key, value |-> value]
List(items) == [type |-> "list", items |-> items]
Scalar(kind, text) == [type |-> "scalar", kind |-> kind, text |-> text]
Text(t) == Scalar("text", t)
Bool(b) == Scalar("boolean", IF b THEN "true" ELSE "false")
Nothing == Scalar("nothing", "")

\* What a text is: a boolean in any case, a number, and how that number is written again.
IsBool(t) == t \in {"true", "false", "TRUE"}
Numbers == [t \in {"1", "1.10"} |-> IF t = "1" THEN "1" ELSE "1.1"]
IsNumber(t) == t \in DOMAIN Numbers

-----------------------------------------------------------------------------
(* Fields.                                                                 *)

Item == "value"  \* the key of the one field of a list of scalars
NoDefault == "(none)"
Field(key, type, default, children) == [key |-> key, type |-> type, default |-> default, children |-> children]

\* The text of any value: the items of a list are joined, here only the text of a single one is told apart.
RECURSIVE TextOf(_)
TextOf(v) ==
    CASE v.type = "scalar" -> v.text
      [] v.type = "map" -> "object"
      [] v.items = <<>> -> ""
      [] OTHER -> IF Len(v.items) = 1 THEN TextOf(v.items[1]) ELSE "joined"
InferType(v) ==
    CASE v.type = "scalar" /\ v.kind \in {"boolean", "number"} -> v.kind
      [] IsBool(TextOf(v)) -> "boolean"
      [] IsNumber(TextOf(v)) -> "number"
      [] OTHER -> "text"
LeafField(key, v) == Field(key, InferType(v), TextOf(v), <<>>)

\* A group has the fields of its entries, a list those of its first item.
RECURSIVE FieldOf(_, _)
FieldsOf(map) == [k \in DOMAIN map.entries |-> FieldOf(map.entries[k].key, map.entries[k].value)]
FieldOf(key, v) ==
    CASE v.type = "map" -> Field(key, "object", NoDefault, FieldsOf(v))
      [] v.type = "list" -> Field(key, "array", NoDefault, IF v.items = <<>> THEN <<>>
                                                          ELSE IF v.items[1].type = "map" THEN FieldsOf(v.items[1]) ELSE <<LeafField(Item, v.items[1])>>)
      [] OTHER -> LeafField(key, v)

\* The formats are tried in turn, JSON, XML, YAML, unless one is asked for; the root must be a map, and that of XML
\* one element, whose text alone has no fields.
Tried(hint) == IF hint = "" THEN <<"json", "xml", "yaml">> ELSE <<hint>>
RootOf(format, document) ==
    CASE document.type # "map" -> Nothing
      [] format # "xml" -> document
      [] Len(document.entries) # 1 -> Nothing
      [] OTHER -> IF document.entries[1].value.type = "map" THEN document.entries[1].value ELSE Map(<<>>)
\* "readable": what each format makes of the text, or Nothing.
Parse(readable, hint) ==
    LET works(f) == RootOf(f, readable[f]) # Nothing
        found == SelectSeq(Tried(hint), works)
    IN  IF found = <<>> THEN [ok |-> FALSE] ELSE [ok |-> TRUE, format |-> found[1], fields |-> FieldsOf(RootOf(found[1], readable[found[1]]))]

-----------------------------------------------------------------------------
(* The designer.                                                           *)

Containers == {"object", "array"}
Types == Containers \cup {"text", "number", "boolean"}
KeptChildren(field, type) ==  \* mutant: a leaf keeps the fields of the group it was
    [field EXCEPT !.type = type, !.default = IF type \notin Containers /\ @ = NoDefault THEN "" ELSE @]
Retype(field, type) ==
    [field EXCEPT !.type = type,
                  !.default = IF type \notin Containers /\ @ = NoDefault THEN "" ELSE @,
                  !.children = IF field.type \in Containers /\ type \in Containers THEN @ ELSE <<>>]
\* Each field, at any depth, by its list of types; the switch of a loop turns a group into a list and back.
RECURSIVE Redesigned(_)
Redesigned(field) ==
    {Retype(field, t) : t \in Types \ {field.type}}
    \cup {[field EXCEPT !.type = t] : t \in IF field.type \in Containers THEN Containers \ {field.type} ELSE {}}
    \cup UNION {{[field EXCEPT !.children[k] = f] : f \in Redesigned(field.children[k])} : k \in IF field.type \in Containers THEN DOMAIN field.children ELSE {}}

-----------------------------------------------------------------------------
(* Values.                                                                 *)

RECURSIVE Defaults(_)
DefaultOf(field) ==
    CASE field.type = "object" -> Defaults(field.children)
      [] field.type = "array" -> List(IF field.children = <<>> THEN <<>> ELSE <<Defaults(field.children)>>)
      [] field.type = "boolean" -> Bool(field.default \in {"true", "TRUE"})
      [] OTHER -> Text(IF field.default = NoDefault THEN "" ELSE field.default)
Defaults(fields) == Map([k \in DOMAIN fields |-> Entry(fields[k].key, DefaultOf(fields[k]))])
\* A list at the top of a form that has fields and no items is given one, once.
Settled(fields, values, seeded) ==
    LET bare == {k \in DOMAIN fields : fields[k].type = "array" /\ fields[k].children # <<>> /\ fields[k].key \notin seeded
                                      /\ values.entries[k].value.items = <<>>}
    IN  [values |-> [values EXCEPT !.entries = [k \in DOMAIN @ |-> IF k \in bare THEN Entry(@[k].key, DefaultOf(fields[k])) ELSE @[k]]],
         seeded |-> seeded \cup {fields[k].key : k \in bare}]

Undefined == Scalar("undefined", "")
Get(map, key) ==
    LET at == {k \in DOMAIN map.entries : map.entries[k].key = key}
    IN  IF at = {} THEN Undefined ELSE map.entries[CHOOSE k \in at : TRUE].value
\* The value of one field after one thing the user does with it.
RECURSIVE Within(_, _, _)
Entered(field, value, texts) ==
    CASE field.type = "boolean" -> {Bool(b) : b \in BOOLEAN}
      [] field.type = "object" -> Within(field.children, value, texts)
      [] field.type = "array" ->
           LET items == value.items IN
           {List(Append(items, Defaults(field.children)))} \cup {List(RemoveAt(items, k)) : k \in DOMAIN items}
           \cup UNION {{List([items EXCEPT ![k] = v]) : v \in Within(field.children, items[k], texts)} : k \in DOMAIN items}
      [] OTHER -> {Text(t) : t \in texts}
Within(fields, map, texts) ==
    UNION {{[map EXCEPT !.entries[k].value = v] : v \in Entered(fields[k], map.entries[k].value, texts)} : k \in DOMAIN fields}

-----------------------------------------------------------------------------
(* The document.                                                           *)

IsScalarTemplate(children) == Len(children) = 1 /\ children[1].key = Item
TextOr(v, default, other) == IF v.kind \in {"undefined", "nothing"} THEN (IF default = NoDefault THEN other ELSE default) ELSE v.text
CoerceBool(v, default) == IF v.kind = "boolean" THEN v ELSE Bool(TextOr(v, default, "false") \in {"true", "TRUE"})
TypedAsIs(v, default) == Scalar("number", TextOr(v, default, "0"))  \* mutant: what is no number is written as it was typed
CoerceNumber(v, default) ==
    LET t == TextOr(v, default, "0") IN Scalar("number", IF v.kind = "number" THEN v.text ELSE IF IsNumber(t) THEN Numbers[t] ELSE "0")

AsMap(v) == IF v.type = "map" THEN v ELSE Map(<<>>)
RECURSIVE Render(_, _)
RECURSIVE ValueFor(_, _)
ValueFor(field, v) ==
    CASE field.type = "object" -> Render(field.children, AsMap(v))
      [] field.type = "array" ->
           LET items == IF v.type = "list" THEN v.items ELSE <<>>
               bare(x) == IF x.type = "map" THEN Get(x, Item) ELSE x
           IN  List([k \in DOMAIN items |-> IF IsScalarTemplate(field.children) THEN ValueFor(field.children[1], bare(items[k]))
                                           ELSE Render(field.children, AsMap(items[k]))])
      [] field.type = "boolean" -> CoerceBool(v, field.default)
      [] field.type = "number" -> CoerceNumber(v, field.default)
      [] OTHER -> Text(TextOr(v, field.default, ""))
Render(fields, values) == Map([k \in DOMAIN fields |-> Entry(fields[k].key, ValueFor(fields[k], Get(values, fields[k].key)))])
=============================================================================
