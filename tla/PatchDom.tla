------------------------------ MODULE PatchDom ------------------------------
(***************************************************************************)
(* The throwaway XML tree of the patch preview (patches/dom.rs): one       *)
(* document that combines the Def files, on which operations select, clone  *)
(* and splice nodes.  Nodes have an identity, because the code selects the *)
(* matches of an operation first and then mutates them one after another:  *)
(* a match that an earlier mutation detached is still mutated, without     *)
(* effect on the document.                                                 *)
(*                                                                         *)
(* A fragment (freestanding parsed XML) is a sequence of trees; a document *)
(* is the sequence of its nodes, a node's identity its position, node 1    *)
(* the <Defs> root.  A text is a sequence of words, so that concatenation  *)
(* is \o; attributes are a function; comments and instructions are left    *)
(* out, and so is whitespace-only text, which the parser drops.            *)
(*                                                                         *)
(* XPath evaluation is the library sxd_xpath: Select gives the meaning of  *)
(* the paths that patches use (child, descendant and parent steps,        *)
(* predicates on defName, attributes and children).                        *)
(***************************************************************************)
EXTENDS Integers, Sequences, SequencesExt, TLC

CONSTANT Absent      \* an optional field without a value

Elem(tag, attrs, kids) ==
  [tag |-> tag, attrs |-> attrs, text |-> <<>>, kids |-> kids]

TextNode(words) ==
  [tag |-> "#text", attrs |-> <<>>, text |-> words, kids |-> <<>>]

Leaf(tag, word) == Elem(tag, <<>>, <<TextNode(<<word>>)>>)

IsElement(node) == node.tag # "#text"

-----------------------------------------------------------------------------
(* Building and cloning.                                                    *)

RECURSIVE GrowAll(_, _)

\* parse_fragment: all the top-level siblings of a payload become fresh nodes,
\* children before their parent; nothing refers to the topmost ones yet.
GrowAll(doc, trees) ==
  IF trees = <<>> THEN [doc |-> doc, ids |-> <<>>]
  ELSE LET below == GrowAll(doc, Head(trees).kids)
           made  == Append(below.doc, [Head(trees) EXCEPT !.kids = below.ids])
           after == GrowAll(made, Tail(trees))
       IN  [doc |-> after.doc, ids |-> <<Len(made)>> \o after.ids]

Grow(doc, tree) ==
  LET grown == GrowAll(doc, <<tree>>)
  IN  [doc |-> grown.doc, id |-> Head(grown.ids)]

RECURSIVE TreeOf(_, _)

\* The content below a node, free of identities.
TreeOf(doc, n) ==
  [doc[n] EXCEPT !.kids = [i \in DOMAIN doc[n].kids |-> TreeOf(doc, doc[n].kids[i])]]

CloneElement(doc, n) == Grow(doc, TreeOf(doc, n))

\* The clones of a node's children, of every kind.
CloneChildren(doc, n) == GrowAll(doc, TreeOf(doc, n).kids)

-----------------------------------------------------------------------------
(* Reading.                                                                 *)

Root == 1

ElementKids(doc, n) == SelectSeq(doc[n].kids, LAMBDA k : IsElement(doc[k]))

ChildElementsNamed(doc, n, name) ==
  SelectSeq(doc[n].kids, LAMBDA k : doc[k].tag = name)

FirstChildElementNamed(doc, n, name) ==
  LET named == ChildElementsNamed(doc, n, name)
  IN  IF named = <<>> THEN Absent ELSE Head(named)

\* Direct text only; Absent when there is none.
ElementText(doc, n) ==
  LET words == FoldLeft(LAMBDA acc, k : acc \o doc[k].text, <<>>, doc[n].kids)
  IN  IF words = <<>> THEN Absent ELSE words

AttributeOf(doc, n, name) ==
  IF name \in DOMAIN doc[n].attrs THEN doc[n].attrs[name] ELSE Absent

DefNameOf(doc, n) ==
  LET el == FirstChildElementNamed(doc, n, "defName")
  IN  IF el = Absent THEN Absent ELSE ElementText(doc, el)

\* The parent of a node; 0 for the root and for a detached node.
ParentOf(doc, n) ==
  LET holders == {m \in DOMAIN doc : n \in ToSet(doc[m].kids)}
  IN  IF holders = {} THEN 0 ELSE CHOOSE m \in holders : TRUE

RECURSIVE Preorder(_, _)

Preorder(doc, n) == <<n>> \o FlattenSeq([i \in DOMAIN doc[n].kids |-> Preorder(doc, doc[n].kids[i])])

Attached(doc) == ToSet(Preorder(doc, Root))

\* el and the elements above it.
RECURSIVE Lineage(_, _)

Lineage(doc, n) == IF n = 0 THEN {} ELSE {n} \cup Lineage(doc, ParentOf(doc, n))

-----------------------------------------------------------------------------
(* XPath (external): [steps, attr, ok].  A step is [axis, tag, test]; attr  *)
(* names the attribute a path ends in, and ok is FALSE for a string the     *)
(* library rejects.  A step up has two spellings, `..' and `parent::'.      *)

Step(axis, tag, test) == [axis |-> axis, tag |-> tag, test |-> test]
NoTest == [kind |-> "any"]
Path(steps) == [steps |-> steps, attr |-> Absent, ok |-> TRUE]
BadPath == [steps |-> <<>>, attr |-> Absent, ok |-> FALSE]

StringValue(doc, n) ==
  FoldLeft(LAMBDA acc, k : acc \o doc[k].text, <<>>, Preorder(doc, n))

Satisfies(doc, n, test) ==
  CASE test.kind = "any"     -> TRUE
    [] test.kind = "defName" -> \E k \in ToSet(ChildElementsNamed(doc, n, "defName")) :
                                  StringValue(doc, k) \in ToSet(test.names)
    [] test.kind = "attr"    -> AttributeOf(doc, n, test.name) = test.value
    [] test.kind = "child"   -> ChildElementsNamed(doc, n, test.name) # <<>>

StepsUp == {"..", "parent"}

\* Context 0 is the document, whose only child is <Defs>.
Axis(doc, context, axis) ==
  CASE axis = "child"  -> UNION {IF c = 0 THEN {Root} ELSE ToSet(doc[c].kids) : c \in context}
    [] axis = "deep"   -> UNION {IF c = 0 THEN Attached(doc)
                                 ELSE ToSet(Preorder(doc, c)) \ {c} : c \in context}
    [] axis \in StepsUp -> {ParentOf(doc, c) : c \in context \ {0}}

Select(doc, path) ==
  LET nodes == FoldLeft(LAMBDA context, step :
                          {n \in Axis(doc, context, step.axis) :
                             \/ n = 0 /\ step.axis \in StepsUp
                             \/ /\ n # 0
                                /\ IsElement(doc[n])
                                /\ step.tag \in {"*", doc[n].tag}
                                /\ Satisfies(doc, n, step.test)},
                        {0}, path.steps)
  IN  nodes \ {0}

\* In document order; a path that ends in an attribute selects no element.
SelectElements(doc, path) ==
  LET nodes == Select(doc, path)
  IN  IF path.attr # Absent THEN <<>>
      ELSE SelectSeq(Preorder(doc, Root), LAMBDA n : n \in nodes)

SelectsSomething(doc, path) ==
  /\ path.ok
  /\ \E n \in Select(doc, path) : path.attr = Absent \/ path.attr \in DOMAIN doc[n].attrs

=============================================================================
