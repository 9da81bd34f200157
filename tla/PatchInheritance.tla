-------------------------- MODULE PatchInheritance --------------------------
(***************************************************************************)
(* XML inheritance over the patched document (patches/inheritance.rs):     *)
(* the top-level Defs with a Name or a ParentName are registered, every    *)
(* one with a ParentName is linked to the first one registered under that  *)
(* name, and the tree of links is resolved from its roots down, a child    *)
(* merged into a clone of its resolved parent.                             *)
(***************************************************************************)
EXTENDS PatchDom

\* The fields whose children may repeat, as in the game's metadata.
ALLOW_DUPLICATE_NODES_FIELD_NAMES ==
  {"descriptionHyperlinks", "nullifyingTraitDegrees", "forcedTraits",
   "disallowedTraitsWithDegree", "agreeableTraits", "disagreeableTraits"}
\* The list test looks at the element where it stands: in the child Def.
IsListElement(doc, n) ==
  \/ doc[n].tag = "li"
  \/ /\ ParentOf(doc, n) # 0
     /\ doc[ParentOf(doc, n)].tag \in ALLOW_DUPLICATE_NODES_FIELD_NAMES

SetKids(doc, n, kids) == [doc EXCEPT ![n].kids = kids]

AppendClone(doc, n, of) ==
  LET c == CloneElement(doc, of)
  IN  SetKids(c.doc, n, Append(c.doc[n].kids, c.id))

RECURSIVE MergeChildInto(_, _, _)

\* child's own data over current, a clone of its resolved parent, in place.
MergeChildInto(doc, child, current) ==
  LET own     == doc[child].attrs
      texts   == SelectSeq(doc[child].kids, LAMBDA k : ~IsElement(doc[k]))
      fields  == ElementKids(doc, child)
      renamed == [doc EXCEPT ![current].attrs = own]
      Merge(acc, field) ==
        LET existing == FirstChildElementNamed(acc, current, doc[field].tag)
        IN  IF IsListElement(doc, field) \/ existing = Absent
            THEN AppendClone(acc, current, field)
            ELSE MergeChildInto(acc, field, existing)
  IN  IF AttributeOf(doc, child, "Inherit") = <<"False">>
      THEN LET cloned == CloneChildren(doc, child)
           IN  [cloned.doc EXCEPT
                  ![current].kids  = cloned.ids,
                  ![current].attrs = [a \in (DOMAIN own) \ {"Inherit"} |-> own[a]] @@ @]
      ELSE IF texts # <<>>
      THEN LET text == Grow(renamed, TreeOf(doc, Last(texts)))
           IN  SetKids(text.doc, current, <<text.id>>)
      ELSE IF fields = <<>>
      THEN IF ElementKids(doc, current) # <<>> THEN renamed
           ELSE SetKids(renamed, current, <<>>)
      ELSE FoldLeft(Merge, renamed, fields)

-----------------------------------------------------------------------------

\* The registered Defs, in document order.
Registered(doc, defs) ==
  SelectSeq(defs, LAMBDA n : DOMAIN doc[n].attrs \cap {"Name", "ParentName"} # {})

\* The Def a registered one inherits from: the first one of that name.
ParentDef(doc, defs, n) ==
  LET named == SelectSeq(Registered(doc, defs), LAMBDA m :
                 /\ "ParentName" \in DOMAIN doc[n].attrs
                 /\ AttributeOf(doc, m, "Name") = AttributeOf(doc, n, "ParentName"))
  IN  IF named = <<>> THEN Absent ELSE Head(named)

\* Slip: the child is merged into its parent, not into a clone of it.
MergeInPlace(doc, parent, n) == [doc |-> MergeChildInto(doc, n, parent), id |-> parent]

MergeIntoClone(doc, parent, n) ==
  LET cloned == CloneElement(doc, parent)
  IN  [doc |-> MergeChildInto(cloned.doc, n, cloned.id), id |-> cloned.id]

RECURSIVE ResolveRecursively(_, _, _)

\* Depth first over the Defs still to do, a Def's children right after it; acc
\* is [doc, resolved, cycles], `resolved' maps a Def to its final element.
ResolveRecursively(acc, defs, todo) ==
  LET n        == Head(todo)
      parent   == ParentDef(acc.doc, defs, n)
      merged   == MergeIntoClone(acc.doc, acc.resolved[parent], n)
      here     == IF parent = Absent THEN [acc EXCEPT !.resolved = (n :> n) @@ @]
                  ELSE [acc EXCEPT !.doc = merged.doc, !.resolved = (n :> merged.id) @@ @]
      children == SelectSeq(Registered(acc.doc, defs), LAMBDA m : ParentDef(acc.doc, defs, m) = n)
      again    == n \in DOMAIN acc.resolved
  IN  IF todo = <<>> THEN acc
      ELSE ResolveRecursively(IF again THEN [acc EXCEPT !.cycles = @ \cup {n}] ELSE here, defs,
                              (IF again THEN <<>> ELSE children) \o Tail(todo))

\* missing: the Defs whose parent name nobody registered; cycles: those no
\* root reaches.  Only Defs with a ParentName are ever substituted.
ResolveInheritance(doc, defs) ==
  LET nodes == Registered(doc, defs)
      roots == SelectSeq(nodes, LAMBDA n : ParentDef(doc, defs, n) = Absent)
      done  == ResolveRecursively([doc |-> doc, resolved |-> <<>>, cycles |-> {}], defs, roots)
  IN  [doc      |-> done.doc,
       resolved |-> [n \in {m \in DOMAIN done.resolved : "ParentName" \in DOMAIN doc[m].attrs}
                       |-> done.resolved[n]],
       missing  |-> {n \in ToSet(roots) : "ParentName" \in DOMAIN doc[n].attrs},
       cycles   |-> done.cycles \cup (ToSet(nodes) \ DOMAIN done.resolved)]

\* The final element of a Def.
Resolve(resolution, n) ==
  IF n \in DOMAIN resolution.resolved THEN resolution.resolved[n] ELSE n

=============================================================================
