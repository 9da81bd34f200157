------------------------------ MODULE SchemaLookup ------------------------------
(***************************************************************************)
(* Looking fields up in the merged types of a schema catalog (lookup.rs):  *)
(* through `inherits` and through aliases.  A type is a record with at     *)
(* least inherits, order and fields, a field one with at least aliases.    *)
(***************************************************************************)
EXTENDS Naturals, SequencesExt, TLC

CONSTANT Names      \* the names in the order of a BTreeMap, as a sequence

Sorted(names) == SelectSeq(Names, LAMBDA n : n \in names)

FieldsAndAliases(type) ==
    DOMAIN type.fields \cup UNION {Range(type.fields[f].aliases) : f \in DOMAIN type.fields}

\* Every type reachable through inherits, each visited once, parents before the type
\* itself: the order in which the recursive collectors of the code meet them.
RECURSIVE ParentsFirst(_, _, _)
ParentsFirst(types, name, visited) ==
    IF name \in Range(visited) \/ name \notin DOMAIN types THEN <<>>
    ELSE LET Visit(acc, parent) ==
                 acc \o ParentsFirst(types, parent, Append(visited \o acc, name))
         IN  Append(FoldLeft(Visit, <<>>, types[name].inherits), name)

\* Slip: only the first parent of a type is followed.
RECURSIVE FirstParents(_, _, _)
FirstParents(types, name, visited) ==
    IF name \in Range(visited) \/ name \notin DOMAIN types THEN <<>>
    ELSE <<name>> \o (IF types[name].inherits = <<>> THEN <<>>
                      ELSE FirstParents(types, Head(types[name].inherits),
                                        Append(visited, name)))

\* The same types, the type itself before its parents.
RECURSIVE SelfFirst(_, _, _)
SelfFirst(types, name, visited) ==
    IF name \in Range(visited) \/ name \notin DOMAIN types THEN <<>>
    ELSE LET Visit(acc, parent) == acc \o SelfFirst(types, parent, visited \o acc)
         IN  FoldLeft(Visit, <<name>>, types[name].inherits)

CollectAllInheritedFields(defs, d) ==
    UNION {DOMAIN defs[t].fields : t \in Range(ParentsFirst(defs, d, <<>>))}

CollectAllObjectInheritedFields(objects, o) ==
    UNION {FieldsAndAliases(objects[t]) : t \in Range(ParentsFirst(objects, o, <<>>))}

\* fieldOrder first, without its strays, then the fields it leaves out.
OrderedOwnFieldNames(type) ==
    SelectSeq(type.order, LAMBDA n : n \in DOMAIN type.fields)
    \o SelectSeq(Sorted(DOMAIN type.fields), LAMBDA n : n \notin Range(type.order))

\* The top-level fields of a form, an ancestor's definition of a name before the
\* type's own: <<name, the type that defines it>>.
EffectiveTopLevelFields(defs, d) ==
    LET Own(acc, t) ==
            FoldLeft(LAMBDA a, n : IF \E x \in Range(a) : x[1] = n THEN a
                                   ELSE Append(a, <<n, t>>),
                     acc, OrderedOwnFieldNames(defs[t]))
    IN  FoldLeft(Own, <<>>, ParentsFirst(defs, d, <<>>))

\* The type whose field a name or alias means, the type itself first, then its parents
\* depth first: <<type, canonical name>>, or <<>>.
LookupField(types, name, field) ==
    LET Named(t) == {f \in DOMAIN types[t].fields : f = field}
        Aliased(t) == {f \in DOMAIN types[t].fields :
                           field \in Range(types[t].fields[f].aliases)}
        found == SelectSeq(SelfFirst(types, name, <<>>),
                           LAMBDA t : Named(t) # {} \/ Aliased(t) # {})
        owner == Head(found)
    IN  IF found = <<>> THEN <<>>
        ELSE <<owner, IF Named(owner) # {} THEN field ELSE Sorted(Aliased(owner))[1]>>

\* The fields of an object type, its own before inherited ones of the same name.
CollectObjectFieldsOrdered(objects, o) ==
    LET Own(acc, t) ==
            FoldLeft(LAMBDA a, n : IF \E x \in Range(a) : x[1] = n THEN a
                                   ELSE Append(a, <<n, t>>),
                     acc, Sorted(DOMAIN objects[t].fields))
    IN  FoldLeft(Own, <<>>, SelfFirst(objects, o, <<>>))

\* base and every type that inherits from it: rounds over all types until none is added.
RECURSIVE CollectDefSubtypes(_, _)
CollectDefSubtypes(defs, types) ==
    LET more == {d \in DOMAIN defs : Range(defs[d].inherits) \cap types # {}} \ types
    IN  IF more = {} THEN types ELSE CollectDefSubtypes(defs, types \cup more)

=============================================================================
