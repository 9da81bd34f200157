-------------------------------- MODULE DefIndex --------------------------------
(***************************************************************************)
(* The def index as a data structure (def_index/model.rs, builder.rs,      *)
(* overlay.rs, query.rs, cache_v3.rs): what building it, changing it one   *)
(* file at a time, overlaying an unsaved document, writing it to the disk  *)
(* cache and querying it make of it.                                       *)
(*                                                                         *)
(* Abstracted: the text of a file is a member of Contents and Document     *)
(* says what parsing it gives: whether the error was fatal, how many       *)
(* diagnostics there were, and the summaries of its Defs, name NoName when *)
(* it is missing or blank. A def keeps its type, name, path and location;  *)
(* labels, lines, fields and messages are display data. A location is      *)
(* [id, kind, sourceType, readOnly].                                       *)
(***************************************************************************)
EXTENDS Naturals, Sequences, FiniteSets, SequencesExt, LoadFolders, DefQueries

CONSTANTS
    Document,  \* parse_to_document: content -> [fatal, diagnostics, summaries]
    NoName     \* a def without a usable defName

KeepIf(K, kept, x) == IF x \in K THEN Append(kept, x) ELSE kept

\* Vec::retain and Iterator::filter: the elements of s that are in K.
Retain(s, K) == FoldLeft(LAMBDA kept, x : KeepIf(K, kept, x), <<>>, s)

EmptyIndex == [defs |-> <<>>, errors |-> <<>>, byType |-> <<>>]

InFile(r, loc, path) == r.loc = loc /\ r.path = path

InFolder(r, loc, prefix) == r.loc = loc /\ IsPrefix(prefix, r.path)

-----------------------------------------------------------------------------
(* model.rs *)

TypesOf(defs) == {d.type : d \in Range(defs)}

\* Only the by-type table: the lower-case copies of names are display data.
RebuildComputedFields(index) ==
    [index EXCEPT !.byType = [t \in TypesOf(index.defs) |->
                                 {i \in DOMAIN index.defs : index.defs[i].type = t}]]

\* Slip: the location is not compared.
RemovePathAnywhere(index, loc, path) ==
    LET Others(s) == Retain(s, {r \in Range(s) : r.path # path})
    IN  [index EXCEPT !.defs = Others(@), !.errors = Others(@)]

RemoveFile(index, loc, path) ==
    LET Others(s) == Retain(s, {r \in Range(s) : ~InFile(r, loc, path)})
    IN  [index EXCEPT !.defs = Others(@), !.errors = Others(@)]

RemoveFolderPrefix(index, loc, prefix) ==
    LET Others(s) == Retain(s, {r \in Range(s) : ~InFolder(r, loc, prefix)})
    IN  [index EXCEPT !.defs = Others(@), !.errors = Others(@)]

-----------------------------------------------------------------------------
(* builder.rs *)

DefOf(location, path, s) ==
    [type |-> s.type, name |-> s.name, path |-> path, loc |-> location.id,
     kind |-> location.kind, readOnly |-> location.readOnly]

ErrorOf(location, path, code) == [loc |-> location.id, path |-> path, code |-> code]

AddDocumentDefs(index, location, path, content) ==
    LET doc == Document[content]
        named == Retain(doc.summaries, {s \in Range(doc.summaries) : s.name # NoName})
    IN  [index EXCEPT
            !.errors = @ \o [i \in 1 .. doc.diagnostics |->
                                ErrorOf(location, path, "parse_error")],
            !.defs = IF doc.fatal THEN @
                     ELSE @ \o [i \in DOMAIN named |-> DefOf(location, path, named[i])]]

\* A file that cannot be read leaves an error in place of its defs.
AddFile(index, location, path, content) ==
    IF content = Unreadable
    THEN [index EXCEPT !.errors = Append(@, ErrorOf(location, path, "file_read_failed"))]
    ELSE AddDocumentDefs(index, location, path, content)

IncludedLocations(locations, project) ==
    Retain(locations, {l \in Range(locations) : l.kind = "Source" \/ l.id = project})

\* Slip: the defs the file had before stay.
ApplyFileChangeKeepsOld(index, location, path, content) ==
    AddDocumentDefs(index, location, path, content)

ApplyFileChange(index, location, path, content) ==
    AddDocumentDefs(RemoveFile(index, location.id, path), location, path, content)

-----------------------------------------------------------------------------
(* overlay.rs: the unsaved text of one file in place of the file on disk   *)

ApplyReplacementOverlay(index, locations, loc, path, content) ==
    LET without == RemoveFile(index, loc, path)
        found == {l \in Range(locations) : l.id = loc}
    IN  IF found = {}
        THEN [without EXCEPT !.errors =
                 Append(@, [loc |-> loc, path |-> path, code |-> "location_missing"])]
        ELSE RebuildComputedFields(
                 AddDocumentDefs(without, CHOOSE l \in found : TRUE, path, content))

-----------------------------------------------------------------------------
(* cache_v3.rs: the disk form keeps a table of sources and refers to paths *)
(* by their place in the fingerprint list, or in an overflow table.        *)

SourceOf(d) == [loc |-> d.loc, kind |-> d.kind, readOnly |-> d.readOnly]

AddOnce(table, e) == IF e \in Range(table) THEN table ELSE Append(table, e)

IndexOf(table, e) == SelectInSeq(table, LAMBDA x : x = e)

AddSource(table, d) == AddOnce(table, SourceOf(d))

AddOverflow(fingerprints, table, d) ==
    IF IndexOf(fingerprints, <<d.loc, d.path>>) # 0 THEN table
    ELSE AddOnce(table, <<d.loc, d.path>>)

\* Where the path of a def is found: in the fingerprints if they have the file.
PathRef(fingerprints, overflow, d) ==
    LET i == IndexOf(fingerprints, <<d.loc, d.path>>)
    IN  IF i # 0 THEN [inFingerprints |-> TRUE, index |-> i]
        ELSE [inFingerprints |-> FALSE, index |-> IndexOf(overflow, <<d.loc, d.path>>)]

ToDto(fingerprints, index) ==
    LET sources == FoldLeft(AddSource, <<>>, index.defs)
        overflow == FoldLeft(LAMBDA t, d : AddOverflow(fingerprints, t, d), <<>>, index.defs)
        Compact(d) == [type |-> d.type, name |-> d.name,
                       source |-> IndexOf(sources, SourceOf(d)),
                       path |-> PathRef(fingerprints, overflow, d)]
    IN  [fingerprints |-> fingerprints, sources |-> sources,
         overflow |-> [i \in DOMAIN overflow |-> overflow[i][2]],
         defs |-> [i \in DOMAIN index.defs |-> Compact(index.defs[i])],
         errors |-> index.errors]

\* A record that points outside its table is dropped, the others are kept.
FromDto(dto) ==
    LET Table(ref) == IF ref.inFingerprints THEN dto.fingerprints ELSE dto.overflow
        Sound(c) == c.path.index \in DOMAIN Table(c.path) /\ c.source \in DOMAIN dto.sources
        PathOf(ref) == IF ref.inFingerprints THEN dto.fingerprints[ref.index][2]
                       ELSE dto.overflow[ref.index]
        Full(c) == [type |-> c.type, name |-> c.name, path |-> PathOf(c.path),
                    loc |-> dto.sources[c.source].loc, kind |-> dto.sources[c.source].kind,
                    readOnly |-> dto.sources[c.source].readOnly]
        sound == Retain(dto.defs, {c \in Range(dto.defs) : Sound(c)})
    IN  [defs |-> [i \in DOMAIN sound |-> Full(sound[i])],
         errors |-> dto.errors, byType |-> <<>>]

=============================================================================
