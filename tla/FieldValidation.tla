---------------------------- MODULE FieldValidation ----------------------------
(***************************************************************************)
(* The validation of a field and all below it against the merged schema    *)
(* types and the def index (xml_document/validation: fields.rs, shapes.rs, *)
(* scalar.rs, references.rs).                                              *)
(*                                                                         *)
(* A context is [types, objects, index, loc, path]: the Def and object     *)
(* types of the catalog, the def index, the source location being shown    *)
(* ("none" for a project file) and the path of the file.  A field is       *)
(*   [shape, kind, ref, items, required, default, aliases,                 *)
(*    reference, keyReference, typed, valueKind,                           *)
(*    keyField, valueField, defaultValueField, min, max, allowed]          *)
(* kind and ref being its type and that type's object schema, items        *)
(* [kind, ref], a reference [type, accepted], and what may be missing a    *)
(* sequence of at most one member ("" for a name).                         *)
(*                                                                         *)
(* Abstracted: a diagnostic is [level, code, path], path the words of its  *)
(* field path, and the diagnostics of a file are a set: neither their      *)
(* order nor their place in the text is kept.  Reads says which kinds of   *)
(* scalar a word parses as and which number it is.  The recursion of the   *)
(* code over the tree is a walk over jobs [t, field, path, depth, inList]. *)
(***************************************************************************)
EXTENDS XmlTree, SchemaLookup, DefQueries

CONSTANTS
  Reads,      \* word -> [kinds, number]
  MaxDepth    \* MAX_OBJECT_VALIDATION_DEPTH

Problem(level, code, path) == [level |-> level, code |-> code, path |-> path]

ErrorAt(code, path) == Problem("error", code, path)
WarningAt(code, path) == Problem("warning", code, path)

\* A JSON value: json its kind, words its text if it is a scalar.
Json(kind, words, items, members) ==
  [json |-> kind, words |-> words, items |-> items, members |-> members]

AsText(value) == IF value.json \in {"string", "number", "bool"} THEN <<value.words>> ELSE <<>>

Job(t, field, path, depth, inList) ==
  [t |-> t, field |-> field, path |-> path, depth |-> depth, inList |-> inList]

\* The schema of a field or alias, inherited or own: a set of at most one.
FieldOf(types, name, field) ==
  {types[found[1]].fields[found[2]] : found \in {LookupField(types, name, field)} \ {<<>>}}

-----------------------------------------------------------------------------
(* Scalars (scalar.rs, shapes.rs).                                          *)

Texty == {"String", "LocalizedString", "TypeName", "DefReference", "Enum", "Unknown",
          "Unrecognized"}

IsOneOf(words, kind) == Len(words) = 1 /\ words[1] \in DOMAIN Reads /\ kind \in Reads[words[1]].kinds

IsValidScalarValue(words, kind) == kind \in Texty \/ IsOneOf(words, kind)

\* A field of a range may also hold one number, an entry of a list only for integers.
IsValidFieldValue(words, kind, names) ==
  CASE kind = "List" -> words = <<>> /\ names \subseteq {"li"}
    [] kind \in {"Object", "StatMap"} -> names # {} \/ words = <<>>
    [] kind = "FloatRange" -> IsOneOf(words, "FloatRange") \/ IsOneOf(words, "Float")
    [] OTHER -> IsValidScalarValue(words, kind)

CheckNumericBounds(words, field) ==
  field.kind \in {"Integer", "Float"} =>
    /\ \A least \in ToSet(field.min) : Reads[words[1]].number >= least
    /\ \A most \in ToSet(field.max) : Reads[words[1]].number <= most

ShapeMismatch(shape, names, hasText) ==
  CASE shape = "Attribute" -> TRUE
    [] shape \in {"Element", "Text", "FlagsText"} -> names # {}
    [] shape \in {"ListOfLi", "KeyedObjectMap"} -> hasText \/ ~(names \subseteq {"li"})
    [] shape \in {"KeyedValueList", "KeyedObjectList", "TypedReferenceList"} ->
         hasText \/ "li" \in names
    [] OTHER -> FALSE

-----------------------------------------------------------------------------
(* References (references.rs).                                              *)

EffectiveTargets(reference) ==
  IF reference.accepted = {} THEN {reference.type} ELSE reference.accepted

\* Slip: only the type itself is looked under.
IsExactReference(ctx, target, name) == FindByKey(ctx.index, target, name) # <<>>

\* Under the type itself or any type that inherits from it.
IsReferenceResolved(ctx, target, name) ==
  \E t \in CollectDefSubtypes(ctx.types, {target}) : FindByKey(ctx.index, t, name) # <<>>

Resolves(ctx, reference, name) ==
  \E target \in EffectiveTargets(reference) : IsReferenceResolved(ctx, target, name)

TypedReferenceProblems(ctx, job) ==
  LET kids == Elements(job.t)
      Path(i) == job.path \o <<kids[i].name>>
      Same(i, j) == kids[i].name = kids[j].name /\ Value(kids[i]) = Value(kids[j])
      named == {i \in DOMAIN kids : Value(kids[i]) # <<>>}
  IN  {WarningAt("invalid_typed_reference", Path(i)) : i \in DOMAIN kids \ named}
      \cup {WarningAt("duplicate_typed_reference", Path(i) \o Value(kids[i])) :
              i \in {i \in named : \E j \in 1..(i - 1) : Same(i, j)}}
      \cup {WarningAt("unresolved_typed_reference", Path(i) \o Value(kids[i])) :
              i \in {i \in named : FindByKey(ctx.index, kids[i].name, Value(kids[i])) = <<>>}}

\* The keys of a map: the first <key> of each entry, or the names of the children.
MapKeys(job) ==
  IF job.field.shape # "KeyedObjectMap" THEN {<<k.name>> : k \in ToSet(Elements(job.t))}
  ELSE {Value(Head(Called(li, "key"))) :
          li \in {li \in ToSet(Called(job.t, "li")) : Called(li, "key") # <<>>}} \ {<<>>}

MapKeyProblems(ctx, job) ==
  {WarningAt("unresolved_map_key", job.path \o key) :
     key \in {key \in MapKeys(job) : \E r \in ToSet(job.field.keyReference) : ~Resolves(ctx, r, key)}}

MapValueProblems(job) ==
  {ErrorAt("map_value_type_mismatch", job.path \o <<k.name>>) :
     k \in {k \in ToSet(Elements(job.t)) :
              /\ Value(k) # <<>>
              /\ \E kind \in ToSet(job.field.valueKind) : ~IsValidScalarValue(Value(k), kind)}}

\* The names a plain field or a list refers to; a required one must resolve.
Referred(job) ==
  CASE job.field.shape \in {"Element", "Text"} -> {Value(job.t)} \ {<<>>}
    [] job.field.shape = "ListOfLi" -> {Value(li) : li \in ToSet(Called(job.t, "li"))} \ {<<>>}
    [] OTHER -> {}

UnresolvedProblems(ctx, job) ==
  {Problem(IF job.field.required THEN "error" ELSE "warning", "unresolved_reference", job.path) :
     name \in {name \in Referred(job) :
                 \E r \in ToSet(job.field.reference) : ~Resolves(ctx, r, name)}}

ValidateFieldReferences(ctx, job) ==
  CASE job.field.shape = "TypedReferenceList" ->
         IF job.field.typed THEN TypedReferenceProblems(ctx, job) ELSE {}
    [] job.field.shape \in {"KeyedObjectMap", "KeyedValueList", "KeyedObjectList"} ->
         MapKeyProblems(ctx, job)
    [] job.field.shape = "NamedChildrenMap" -> MapKeyProblems(ctx, job) \cup MapValueProblems(job)
    [] OTHER -> UnresolvedProblems(ctx, job)

-----------------------------------------------------------------------------
(* Fields (fields.rs).                                                      *)

\* What an object does not know of its children, and the jobs of those it knows.
UnknownChildren(ctx, type, t, path) ==
  {WarningAt("unknown_object_field", path \o <<k.name>>) :
     k \in {k \in ToSet(Elements(t)) :
              k.name \notin CollectAllObjectInheritedFields(ctx.objects, type)}}

KnownChildren(ctx, type, t, path, depth, inList) ==
  UNION {{Job(k, field, path \o <<k.name>>, depth, inList) :
            field \in FieldOf(ctx.objects, type, k.name)} : k \in ToSet(Elements(t))}

\* The element without some children, which are then neither known nor unknown.
Without(t, name) == [t EXCEPT !.kids = SelectSeq(@, LAMBDA k : k.kind # "element" \/ k.name # name)]

ItemsAreObjects(field) == field.items.kind = "Object" /\ field.items.ref # ""

\* An entry may be empty when its field has a default, if that default is valid.
IsValidEntry(words, field) ==
  IF words # <<>> THEN IsValidScalarValue(words, field.kind)
  ELSE \E d \in ToSet(field.default) :
         \E text \in ToSet(AsText(d)) : IsValidScalarValue(text, field.kind)

KeyedValueListProblems(ctx, job) ==
  IF Value(job.t) # <<>> \/ "li" \in ElementChildNames(job.t)
  THEN {ErrorAt("field_type_mismatch", job.path)}
  ELSE {ErrorAt("field_type_mismatch", job.path \o <<k.name>>) :
          k \in {k \in ToSet(Elements(job.t)) :
                   /\ ItemsAreObjects(job.field)
                   /\ \E f \in FieldOf(ctx.objects, job.field.items.ref, job.field.valueField) :
                        ~IsValidEntry(Value(k), f)}}

\* An item that is only a text stands for its defaultValueField.
IsShorthand(field, item) == field.defaultValueField # "" /\ Value(item) # <<>>

KeyedItems(job) ==
  IF Value(job.t) # <<>> \/ ~ItemsAreObjects(job.field) THEN {} ELSE ToSet(Elements(job.t))

KeyedObjectListProblems(ctx, job) ==
  LET field == job.field
      Mistyped(item) == \E f \in FieldOf(ctx.objects, field.items.ref, field.defaultValueField) :
                          ~IsValidScalarValue(Value(item), f.kind)
  IN  UNION {IF IsShorthand(field, item)
             THEN {ErrorAt("field_type_mismatch", job.path \o <<item.name>>) :
                     x \in {x \in {item} : Mistyped(x)}}
             ELSE UnknownChildren(ctx, field.items.ref, Without(item, field.keyField),
                                  job.path \o <<item.name>>) : item \in KeyedItems(job)}

KeyedObjectListJobs(ctx, job) ==
  UNION {KnownChildren(ctx, job.field.items.ref, Without(item, job.field.keyField),
                       job.path \o <<item.name>>, 0, FALSE) :
           item \in {item \in KeyedItems(job) : ~IsShorthand(job.field, item)}}

MapEntries(job) == IF ItemsAreObjects(job.field) THEN Called(job.t, "li") ELSE <<>>

HasPart(li, part) == Called(li, part) # <<>>
KeyOf(li) == Value(Head(Called(li, "key")))

KeyedObjectMapProblems(ctx, job) ==
  LET entries == MapEntries(job)
      keyed == {i \in DOMAIN entries : HasPart(entries[i], "key")}
      valued == {i \in DOMAIN entries : HasPart(entries[i], "value")}
      Repeats(i) == /\ KeyOf(entries[i]) # <<>>
                    /\ \E j \in keyed : j < i /\ KeyOf(entries[j]) = KeyOf(entries[i])
  IN  {WarningAt("keyed_object_map_missing_key", job.path) : i \in DOMAIN entries \ keyed}
      \cup {WarningAt("keyed_object_map_missing_value", job.path) : i \in DOMAIN entries \ valued}
      \cup {WarningAt("keyed_object_map_duplicate_key", job.path \o KeyOf(entries[i])) :
              i \in {i \in keyed : Repeats(i)}}
      \cup UNION {UnknownChildren(ctx, job.field.items.ref, Head(Called(entries[i], "value")),
                                  job.path \o KeyOf(entries[i])) : i \in keyed \cap valued}

KeyedObjectMapJobs(ctx, job) ==
  UNION {KnownChildren(ctx, job.field.items.ref, Head(Called(li, "value")),
                       job.path \o KeyOf(li), 0, FALSE) :
           li \in {li \in ToSet(MapEntries(job)) : HasPart(li, "key") /\ HasPart(li, "value")}}

\* A flag is one word of the text.
FlagsTextProblems(job) ==
  {WarningAt("flags_text_unknown_value", job.path) :
     flag \in {flag \in ToSet(Value(job.t)) \ {Space} :
                 job.field.allowed # {} /\ flag \notin job.field.allowed}}

\* A value of the wrong type is not also reported as out of range.
ScalarProblems(job) ==
  IF ~IsValidFieldValue(Value(job.t), job.field.kind, ElementChildNames(job.t))
  THEN {ErrorAt("field_type_mismatch", job.path)}
  ELSE {ErrorAt("field_out_of_range", job.path) :
          f \in {f \in {job.field} : ~CheckNumericBounds(Value(job.t), f)}}

ValidateFieldType(ctx, job) ==
  CASE job.field.shape = "TypedReferenceList" -> {}
    [] job.field.shape = "KeyedValueList" -> KeyedValueListProblems(ctx, job)
    [] job.field.shape = "KeyedObjectList" -> KeyedObjectListProblems(ctx, job)
    [] job.field.shape = "KeyedObjectMap" -> KeyedObjectMapProblems(ctx, job)
    [] job.field.shape = "FlagsText" -> FlagsTextProblems(job)
    [] OTHER -> ScalarProblems(job)

ValidateFieldShape(job) ==
  {WarningAt("field_shape_mismatch", job.path) :
     t \in {t \in {job.t} : ShapeMismatch(job.field.shape, ElementChildNames(t), Value(t) # <<>>)}}

-----------------------------------------------------------------------------
(* Discriminated objects: an attribute names the variant.  An object type   *)
(* has disc, <<>> or <<[attr, variants, allowMissing, allowUnknown,         *)
(* fallback]>>, fallback "" without one.                                    *)

\* The object type an element is checked against.
EffectiveRef(ctx, base, t) ==
  LET discs == IF base \in DOMAIN ctx.objects THEN ctx.objects[base].disc ELSE <<>>
      d == Head(discs)
  IN  CASE discs = <<>> -> base
        [] discs # <<>> /\ d.attr \in DOMAIN t.attrs ->
             IF t.attrs[d.attr] \in DOMAIN d.variants THEN d.variants[t.attrs[d.attr]] ELSE base
        [] OTHER -> IF d.allowMissing /\ d.fallback # "" THEN d.fallback ELSE base

MissesClass(ctx, base, t) ==
  /\ base \in DOMAIN ctx.objects
  /\ \E d \in ToSet(ctx.objects[base].disc) : d.attr \notin DOMAIN t.attrs /\ ~d.allowMissing

HasUnknownClass(ctx, base, t) ==
  \E d \in ToSet(ctx.objects[base].disc) :
     d.attr \in DOMAIN t.attrs /\ t.attrs[d.attr] \notin DOMAIN d.variants /\ ~d.allowUnknown

IsObjectField(job) ==
  /\ job.depth < MaxDepth
  /\ job.field.kind = "Object" /\ job.field.ref # "" /\ job.field.shape \in {"Object", "Element"}

ObjectProblems(ctx, job) ==
  IF ~IsObjectField(job) THEN {}
  ELSE {WarningAt("missing_required_class", job.path) :
          t \in {t \in {job.t} : MissesClass(ctx, job.field.ref, t)}}
       \cup UnknownChildren(ctx, EffectiveRef(ctx, job.field.ref, job.t), job.t, job.path)

ObjectJobs(ctx, job) ==
  IF ~IsObjectField(job) THEN {}
  ELSE KnownChildren(ctx, EffectiveRef(ctx, job.field.ref, job.t), job.t, job.path,
                     job.depth + 1, FALSE)

\* The items of a list of objects, when their type is known.
ObjectItems(ctx, job) ==
  IF job.field.shape # "ListOfLi" \/ ~ItemsAreObjects(job.field)
     \/ job.field.items.ref \notin DOMAIN ctx.objects
  THEN {} ELSE ToSet(Called(job.t, "li"))

ScalarItems(job) ==
  IF job.field.shape # "ListOfLi" \/ job.field.items.kind \in {"none", "Object"} THEN {}
  ELSE ToSet(Called(job.t, "li"))

ListProblems(ctx, job) ==
  LET base == job.field.items.ref
      items == ObjectItems(ctx, job)
  IN  {ErrorAt("field_type_mismatch", job.path \o <<"li">>) :
         li \in {li \in ScalarItems(job) :
                   ~IsValidScalarValue(Value(li), job.field.items.kind)}}
      \cup {WarningAt("unknown_object_class", job.path) :
              li \in {li \in items : HasUnknownClass(ctx, base, li)}}
      \cup {WarningAt("missing_required_class", job.path) :
              li \in {li \in items : MissesClass(ctx, base, li)}}
      \cup UNION {UnknownChildren(ctx, EffectiveRef(ctx, base, li), li, job.path \o <<"li">>) :
                    li \in items}

ListJobs(ctx, job) ==
  UNION {KnownChildren(ctx, EffectiveRef(ctx, job.field.items.ref, li), li,
                       job.path \o <<"li">>, 0, TRUE) : li \in ObjectItems(ctx, job)}

-----------------------------------------------------------------------------
(* The walk.  The children of a list item get neither the shape nor the     *)
(* reference check.                                                         *)

OwnProblems(ctx, job) ==
  ValidateFieldType(ctx, job) \cup ListProblems(ctx, job) \cup ObjectProblems(ctx, job)
  \cup (IF job.inList THEN {} ELSE ValidateFieldShape(job) \cup ValidateFieldReferences(ctx, job))

KeyedJobs(ctx, job) ==
  CASE job.field.shape = "KeyedObjectList" -> KeyedObjectListJobs(ctx, job)
    [] job.field.shape = "KeyedObjectMap" -> KeyedObjectMapJobs(ctx, job)
    [] OTHER -> {}

ChildJobs(ctx, job) == KeyedJobs(ctx, job) \cup ListJobs(ctx, job) \cup ObjectJobs(ctx, job)

RECURSIVE ValidateSchemaFields(_, _)

\* All fields of one level, then all of the next.
ValidateSchemaFields(ctx, jobs) ==
  IF jobs = {} THEN {}
  ELSE UNION {OwnProblems(ctx, job) : job \in jobs}
       \cup ValidateSchemaFields(ctx, UNION {ChildJobs(ctx, job) : job \in jobs})

=============================================================================
