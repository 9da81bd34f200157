------------------------------ MODULE LoadFolders ------------------------------
(***************************************************************************)
(* Which Def files RimWorld would load from a registered location          *)
(* (rimworld_load_folders.rs, project_files/scan.rs): the load folders of  *)
(* a content pack, and the scan of their Defs directories in which a file  *)
(* of an earlier folder hides the file of the same name of a later one.    *)
(*                                                                         *)
(* Abstracted: a path is the sequence of its components below the location *)
(* root (the code's forward-slash strings; the root itself is <<>>), the   *)
(* two version parsers are the constants BlockVersion and DirVersion, and  *)
(* a LoadFolders.xml is what parsing it gives: its blocks, each a key with *)
(* the paths of its entries. A tree is                                     *)
(*   dirs         the directory paths, in the order read_dir returns them, *)
(*   loadFolders  Absent, Unreadable (unreadable or not XML), or blocks,   *)
(*   files        the paths of the XML files.                              *)
(***************************************************************************)
EXTENDS Naturals, Sequences, SequencesExt

CONSTANTS
    BlockVersion,  \* parse_key_to_major_minor: block key -> version or NoVersion
    DirVersion,    \* parse_major_minor: directory name -> version or NoVersion
    Absent,        \* no LoadFolders.xml
    Unreadable     \* a LoadFolders.xml that cannot be read or parsed

NoVersion == 0

Root == <<>>

Exists(tree, path) == path = Root \/ path \in Range(tree.dirs)

Under(folder, path) == Len(folder) < Len(path) /\ IsStrictPrefix(folder, path)

-----------------------------------------------------------------------------
(* The folders of one content pack, the one of highest precedence first    *)

\* The index of the block for a game version: the newest one not newer than the
\* game (so the exact one, if there is one), else the default one, else 0.
ChooseLoadFolderBlock(blocks, game) ==
    LET Version(b) == BlockVersion[b.key]
        Older(b) == Version(b) # NoVersion /\ Version(b) <= game
        Newest(b) == Older(b) /\ \A c \in Range(blocks) :
                                     Older(c) => Version(c) <= Version(b)
        IsDefault(b) == b.key = "default"
    IN  IF game = NoVersion THEN 0
        ELSE IF SelectInSeq(blocks, Newest) # 0 THEN SelectInSeq(blocks, Newest)
        ELSE SelectInSeq(blocks, IsDefault)

\* The entry listed last comes first; entries that do not exist are skipped.
ResolveFromLoadFoldersXml(tree, game) ==
    IF tree.loadFolders = Unreadable THEN <<>>
    ELSE LET block == ChooseLoadFolderBlock(tree.loadFolders, game)
         IN  IF block = 0 THEN <<>>
             ELSE SelectSeq(Reverse(tree.loadFolders[block].entries),
                            LAMBDA f : Exists(tree, f))

\* The first directory of the newest version not newer than the game.
BestVersionFolder(tree, game) ==
    LET tops == SelectSeq(tree.dirs, LAMBDA d : Len(d) = 1)
        Older(d) == DirVersion[d[1]] # NoVersion /\ DirVersion[d[1]] <= game
        Newest(d) == Older(d) /\ \A e \in Range(tops) :
                                     Older(e) => DirVersion[e[1]] <= DirVersion[d[1]]
    IN  SelectSeq(tops, Newest)

ResolveConventionalFallback(tree, gameName) ==
    LET game == DirVersion[gameName]
        best == BestVersionFolder(tree, game)
        version == IF Exists(tree, <<gameName>>) THEN << <<gameName>> >>
                   ELSE IF game # NoVersion /\ best # <<>> THEN <<Head(best)>>
                   ELSE <<>>
        common == IF Exists(tree, <<"Common">>) THEN << <<"Common">> >> ELSE <<>>
    IN  version \o common \o <<Root>>

\* Where LoadFolders.xml is, only it counts.
ResolveModLoadFolders(tree, gameName) ==
    IF tree.loadFolders # Absent
    THEN ResolveFromLoadFoldersXml(tree, DirVersion[gameName])
    ELSE ResolveConventionalFallback(tree, gameName)

-----------------------------------------------------------------------------
(* scan_indexable_def_xml_files: folders are scanned in order of precedence*)

\* Where a file lies relative to its load folder; the shadowing key.
Identity(folder, path) == SubSeq(path, Len(folder) + 1, Len(path))

InDefs(folder, path) == Under(Append(folder, "Defs"), path)

\* A folder of higher precedence has a file of the same identity.
Shadowed(tree, folders, i, p) ==
    \E j \in 1 .. i - 1 : \E q \in tree.files :
        InDefs(folders[j], q) /\ Identity(folders[j], q) = Identity(folders[i], p)

ScanFolders(tree, shadow, folders) ==
    {p \in tree.files : \E i \in DOMAIN folders :
        InDefs(folders[i], p) /\ (shadow => ~Shadowed(tree, folders, i, p))}

\* A content pack of its own: a mod, a project, a Workshop item.
ScanMod(tree, gameName) == ScanFolders(tree, TRUE, ResolveModLoadFolders(tree, gameName))

\* The base game: every expansion folder with a Defs directory, none hiding another.
BaseGameFolders(tree) ==
    LET packs == SelectSeq(tree.dirs,
                    LAMBDA d : Len(d) = 1 /\ Append(d, "Defs") \in Range(tree.dirs))
    IN  IF packs = <<>> THEN <<Root>> ELSE packs

ScanBaseGame(tree) == ScanFolders(tree, FALSE, BaseGameFolders(tree))

\* The part of a Workshop collection below one item directory, as a pack.
ItemTree(tree, item) ==
    LET Inside(p) == Under(<<item>>, p)
    IN  [dirs |-> LET inner == SelectSeq(tree.dirs, Inside)
                  IN  [i \in DOMAIN inner |-> Tail(inner[i])],
         loadFolders |-> tree.itemLoadFolders[item],
         files |-> {Tail(p) : p \in {q \in tree.files : Inside(q)}}]

\* A Workshop collection: every directory below the root is a pack of its own.
ScanSteamWorkshop(tree, gameName) ==
    UNION {{<<item>> \o p : p \in ScanMod(ItemTree(tree, item), gameName)} :
              item \in {d[1] : d \in {e \in Range(tree.dirs) : Len(e) = 1}}}

ScanIndexableDefXmlFiles(sourceType, tree, gameName) ==
    CASE sourceType = "BaseGame"      -> ScanBaseGame(tree)
      [] sourceType = "SteamWorkshop" -> ScanSteamWorkshop(tree, gameName)
      [] OTHER                        -> ScanMod(tree, gameName)

=============================================================================
