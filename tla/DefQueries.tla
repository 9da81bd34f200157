------------------------------- MODULE DefQueries -------------------------------
(***************************************************************************)
(* What is asked of a def index (def_index/model.rs, query.rs).  An index  *)
(* is a record with at least defs, a sequence of defs [type, name, path,   *)
(* loc, kind, readOnly], and byType, the positions of each type's defs.    *)
(***************************************************************************)
EXTENDS Naturals, Sequences, FiniteSets

FindByKey(index, type, name) ==
    SelectSeq(index.defs, LAMBDA d : d.type = type /\ d.name = name)

FindProjectDuplicates(index, type, name) ==
    SelectSeq(FindByKey(index, type, name),
              LAMBDA d : d.kind = "Project" /\ ~d.readOnly)

FindSourceDuplicates(index, type, name) ==
    SelectSeq(FindByKey(index, type, name), LAMBDA d : d.kind = "Source")

-----------------------------------------------------------------------------
(* query.rs *)

\* The defs a reference to one of the types may name: through the by-type
\* table, or by a scan where there is none.
SuggestCandidates(index, types) ==
    IF DOMAIN index.byType = {}
    THEN {i \in DOMAIN index.defs : index.defs[i].type \in types}
    ELSE UNION {index.byType[t] : t \in types \cap DOMAIN index.byType}

SuggestDefReferences(index, types, scope) ==
    {i \in SuggestCandidates(index, types) :
        scope = "ProjectOnly" => ~index.defs[i].readOnly}

\* An editable def wins over read-only ones; two of the winning kind are ambiguous.
ResolveDefReference(index, types, name, scope) ==
    LET Named(i) == index.defs[i].type \in types /\ index.defs[i].name = name
        editable == {i \in DOMAIN index.defs : Named(i) /\ ~index.defs[i].readOnly}
        readOnly == {i \in DOMAIN index.defs : /\ Named(i) /\ index.defs[i].readOnly
                                                /\ scope # "ProjectOnly"}
        matches == IF editable # {} THEN editable ELSE readOnly
        Pick == CHOOSE i \in matches : TRUE
    IN  IF matches = {} THEN [kind |-> "missing", path |-> <<>>]
        ELSE IF Cardinality(matches) > 1 THEN [kind |-> "ambiguous", path |-> <<>>]
        ELSE [kind |-> IF editable # {} THEN "editableProjectDef" ELSE "readOnlySourceDef",
              path |-> index.defs[Pick].path]

=============================================================================
