------------------------------- MODULE XmlTree -------------------------------
(***************************************************************************)
(* What the text of a Def file parses to (xml_document/parser.rs), and     *)
(* what is read from it (def_summary.rs, validation/xml.rs).               *)
(*                                                                         *)
(* Abstracted: a document is its root element.  A text is a sequence of    *)
(* words, one of them Space: a blank text has no other word, and trimming  *)
(* drops the Spaces at its ends.  A comment is a text of its own kind.     *)
(* Attributes are a function from names to words.                          *)
(***************************************************************************)
EXTENDS Integers, Sequences, SequencesExt, TLC

CONSTANT Space      \* the word of blanks


Tree(kind, name, attrs, words, closed, kids) ==
  [kind |-> kind, name |-> name, attrs |-> attrs, words |-> words,
   closed |-> closed, kids |-> kids]

El(name, attrs, kids) == Tree("element", name, attrs, <<>>, FALSE, kids)
Txt(words) == Tree("text", "", <<>>, words, FALSE, <<>>)

IsBlank(t) == t.kind = "text" /\ \A w \in ToSet(t.words) : w = Space

HoldsText(t) == t.kind \in {"text", "cdata"}

IsText(t) == t.kind = "text"

\* Neighbouring texts are one text after the next parse, and an empty one is none.
JoinNeighbours(trees) ==
  FoldLeft(LAMBDA acc, t : IF IsText(t) /\ acc # <<>> /\ IsText(Last(acc))
                           THEN [acc EXCEPT ![Len(acc)].words = @ \o t.words]
                           ELSE Append(acc, t),
           <<>>, trees)

HasNeighbours(trees) == \E i \in 2..Len(trees) : IsText(trees[i - 1]) /\ IsText(trees[i])

JoinTexts(trees) ==
  LET held == SelectSeq(trees, LAMBDA t : ~IsText(t) \/ t.words # <<>>)
  IN  IF HasNeighbours(held) THEN JoinNeighbours(held) ELSE held

-----------------------------------------------------------------------------
(* Reading.                                                                 *)

Trimmed(words) ==
  IF \A w \in ToSet(words) : w = Space THEN <<>>
  ELSE SubSeq(words, SelectInSeq(words, LAMBDA w : w # Space),
                     SelectLastInSeq(words, LAMBDA w : w # Space))

\* The texts and CDATA of an element, together.
Value(t) ==
  Trimmed(FlattenSeq([i \in DOMAIN t.kids |-> IF HoldsText(t.kids[i]) THEN t.kids[i].words
                                              ELSE <<>>]))

Elements(t) == SelectSeq(t.kids, LAMBDA k : k.kind = "element")

Called(t, name) == SelectSeq(Elements(t), LAMBDA k : k.name = name)

ElementChildNames(t) == {k.name : k \in ToSet(Elements(t))}

\* The first text that is not blank among the children of a name; <<>> without one.
FirstText(t, name) ==
  LET texts == SelectSeq(Called(t, name), LAMBDA k : Value(k) # <<>>)
  IN  IF texts = <<>> THEN <<>> ELSE Value(Head(texts))

\* The Defs of a document, and where they are among the root's children (0: the root).
\* A patch and About.xml have none; any other root is a Def itself.
ExtractDefSummaries(doc) ==
  LET Summary(t, at) == [def |-> t, at |-> at, type |-> t.name,
                         name |-> FirstText(t, "defName")]
      places == SelectSeq([i \in DOMAIN doc.kids |-> i], LAMBDA i : doc.kids[i].kind = "element")
  IN  CASE doc.name = "Defs" -> [i \in DOMAIN places |-> Summary(doc.kids[places[i]], places[i])]
        [] doc.name \in {"Patch", "ModMetaData"} -> <<>>
        [] OTHER -> <<Summary(doc, 0)>>

=============================================================================
