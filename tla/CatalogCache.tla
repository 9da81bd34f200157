----------------------------- MODULE CatalogCache -----------------------------
(***************************************************************************)
(* The cache of built schema catalogs (schema_pack/cache.rs) and a request *)
(* that it serves: the completion command looks the catalog up by a        *)
(* signature of the files below the registered roots, and on a miss loads, *)
(* filters and merges the packs (schema_pack.rs). What loading and merging *)
(* do is SchemaCatalog's subject; here they are constants.                 *)
(*                                                                         *)
(* The command and the settings commands run on one thread, one after the  *)
(* other; a pack may be edited by another program between any two of their *)
(* steps, so the signature is taken root by root, and the packs are loaded *)
(* root by root. world is fixed by Init:                                   *)
(*   builtin    the pack directories embedded in the program               *)
(*   dirs       pack directory name -> its editions, a sequence of pack    *)
(*              directories; `present` FALSE is a deleted one              *)
(*   roots      root -> the pack directories below it, in discovery order  *)
(*   settings   the settings the user switches between                     *)
(*   edits      how often packs are edited (a bound)                       *)
(*   requests   how many requests are made (a bound)                       *)
(***************************************************************************)
EXTENDS Naturals, SequencesExt

CONSTANTS
    Worlds,        \* the worlds to start from
    Locales,       \* the locale arguments of a request
    Supported,     \* the locales the application knows
    Fallback,      \* FALLBACK_LOCALE
    MaxEntries,    \* MAX_ENTRIES of the cache
    LoadPacks(_),            \* pack directories -> [value |-> packs, diags |-> diagnostics]
    RootMissing(_),          \* the same of a root that is not there
    BuildCatalog(_, _, _, _) \* packs, diagnostics, game version, locale -> catalog

\* Every directory below a root has editions, and there are settings to start with.
ASSUME WorldsAssumption ==
    /\ \A w \in Worlds :
        /\ \A d \in DOMAIN w.dirs : w.dirs[d] # <<>> /\ w.dirs[d] \in Seq(Range(w.dirs[d]))
        /\ \A r \in DOMAIN w.roots : Range(w.roots[r]) \subseteq DOMAIN w.dirs
        /\ w.settings # <<>> /\ w.settings \in Seq(Range(w.settings))
        /\ \A s \in Range(w.settings) : s.roots \in Seq(Range(s.roots))
    /\ MaxEntries \in Nat

VARIABLES
    world,
    edition,   \* pack directory -> which edition is on disk, also its mtime
    settings,  \* index into world.settings: [roots, game]
    cache,     \* the entries, most recently used first: [key, catalog]
    req,       \* the request being served
    requests   \* how many were made

vars == <<world, edition, settings, cache, req, requests>>

Edits == FoldSet(LAMBDA d, n : n + edition[d] - 1, 0, DOMAIN edition)

Idle == [phase |-> "idle"]

Current == world.settings[settings]

-----------------------------------------------------------------------------
(* What is below a root when the pack directories are of the editions e *)

OnDisk(d) == world.dirs[d][edition[d]]

\* The pack directories whose manifest is there; a root may be missing.
Discovered(root, e) ==
    {d \in IF root \in DOMAIN world.roots THEN Range(world.roots[root]) ELSE {} :
        world.dirs[d][e[d]].present}

PacksBelow(root, e) == [d \in Discovered(root, e) |-> world.dirs[d][e[d]]]

Listed(dirs, found) == SelectSeq(dirs, LAMBDA d : d \in found)

InDiscoveryOrder(root, packs) ==
    LET found == Listed(world.roots[root], DOMAIN packs)
    IN  [i \in DOMAIN found |-> packs[found[i]]]

\* A root that is not there is a diagnostic.
LoadRoot(root, e) ==
    IF root \in DOMAIN world.roots THEN LoadPacks(InDiscoveryOrder(root, PacksBelow(root, e)))
    ELSE RootMissing(root)

\* Slip: the roots alone identify what is below them.
RootOnly(root, e) == {<<root, 0>>}

\* The stamps of one root: every JSON file below a discovered pack directory, whatever
\* it is for; an edition of a pack directory stands for their modification times.
RootStamps(root, e) == {<<root, 0>>} \cup {<<d, e[d]>> : d \in Discovered(root, e)}

\* The built-in packs and those of the roots, loaded one after the other.
PacksOf(loaded) ==
    LoadPacks(world.builtin).value \o FlattenSeq([i \in DOMAIN loaded |-> loaded[i].value])

DiagsOf(loaded) ==
    LoadPacks(world.builtin).diags \o FlattenSeq([i \in DOMAIN loaded |-> loaded[i].diags])

CatalogOf(loaded, locale) ==
    BuildCatalog(PacksOf(loaded), DiagsOf(loaded), Current.game, locale)

ResolveCatalogLocale(locale) == IF locale \in Supported THEN locale ELSE Fallback

-----------------------------------------------------------------------------

Init ==
    /\ world \in Worlds
    /\ edition = [d \in DOMAIN world.dirs |-> 1]
    /\ settings = 1
    /\ cache = <<>>
    /\ req = Idle
    /\ requests = 0

\* The command loads the settings and resolves the locale.
Request(locale) ==
    /\ req.phase = "idle"
    /\ requests < world.requests
    /\ req' = [phase |-> "signing", signed |-> 0, signature |-> {},
               locale |-> ResolveCatalogLocale(locale), since |-> edition]
    /\ requests' = requests + 1
    /\ UNCHANGED <<world, edition, settings, cache>>

SignRoot ==
    /\ req.phase = "signing"
    /\ req.signed < Len(Current.roots)
    /\ req' = [req EXCEPT !.signed = @ + 1,
                  !.signature = @ \cup RootStamps(Current.roots[req.signed + 1], edition)]
    /\ UNCHANGED <<world, edition, settings, cache, requests>>

\* The signature is a set: the order of the roots, and repeats, do not count.
Key == <<Current.game, req.locale, req.signature>>

Served(catalog, hit, packs) ==
    [phase |-> "served", catalog |-> catalog, hit |-> hit, packs |-> packs,
     locale |-> req.locale, since |-> req.since]

\* The first entry with the key is moved to the front.
Hit ==
    /\ req.phase = "signing"
    /\ req.signed = Len(Current.roots)
    /\ \E at \in DOMAIN cache :
        /\ cache[at].key = Key
        /\ \A i \in 1 .. at - 1 : cache[i].key # Key
        /\ cache' = <<cache[at]>> \o RemoveAt(cache, at)
        /\ req' = Served(cache[at].catalog, TRUE, <<>>)
    /\ UNCHANGED <<world, edition, settings, requests>>

Miss ==
    /\ req.phase = "signing"
    /\ req.signed = Len(Current.roots)
    /\ \A i \in DOMAIN cache : cache[i].key # Key
    /\ req' = [phase |-> "loading", key |-> Key, loaded |-> <<>>,
               locale |-> req.locale, since |-> req.since]
    /\ UNCHANGED <<world, edition, settings, cache, requests>>

LoadExternalPacks ==
    /\ req.phase = "loading"
    /\ Len(req.loaded) < Len(Current.roots)
    /\ req' = [req EXCEPT !.loaded =
                  Append(@, LoadRoot(Current.roots[Len(req.loaded) + 1], edition))]
    /\ UNCHANGED <<world, edition, settings, cache, requests>>

Insert(catalog) ==
    /\ cache' = SubSeq(<<[key |-> req.key, catalog |-> catalog]>> \o cache, 1,
                       IF Len(cache) < MaxEntries THEN Len(cache) + 1 ELSE MaxEntries)
    /\ req' = Served(catalog, FALSE, PacksOf(req.loaded))

\* Filter, merge, and insert in front; the least recently used entry goes.
BuildSchemaCatalog ==
    /\ req.phase = "loading"
    /\ Len(req.loaded) = Len(Current.roots)
    /\ Insert(CatalogOf(req.loaded, req.locale))
    /\ UNCHANGED <<world, edition, settings, requests>>

Answer ==
    /\ req.phase = "served"
    /\ req' = Idle
    /\ UNCHANGED <<world, edition, settings, cache, requests>>

\* A settings command saves the settings and drops every catalog.
ChangeSettings(next) ==
    /\ req.phase = "idle"
    /\ next # settings
    /\ settings' = next
    /\ cache' = <<>>
    /\ UNCHANGED <<world, edition, req, requests>>

\* Another program edits, removes or restores a pack.
EditPack(d) ==
    /\ Edits < world.edits
    /\ edition[d] < Len(world.dirs[d])
    /\ edition' = [edition EXCEPT ![d] = @ + 1]
    /\ UNCHANGED <<world, settings, cache, req, requests>>

Next ==
    \/ \E locale \in Locales : Request(locale)
    \/ SignRoot
    \/ Hit
    \/ Miss
    \/ LoadExternalPacks
    \/ BuildSchemaCatalog
    \/ Answer
    \/ \E next \in DOMAIN world.settings : ChangeSettings(next)
    \/ \E d \in DOMAIN world.dirs : EditPack(d)

Spec == Init /\ [][Next]_vars

-----------------------------------------------------------------------------
(* Properties *)

\* The files that are on disk now, loaded and merged at once.
Fresh(locale) ==
    CatalogOf([i \in DOMAIN Current.roots |-> LoadRoot(Current.roots[i], edition)], locale)

\* A pack that goes stays away, or was there before: none comes only to go again.
NoneComesAndGoes ==
    \A d \in DOMAIN world.dirs : \A i, j, k \in DOMAIN world.dirs[d] :
        i < j /\ j < k /\ ~world.dirs[d][i].present /\ ~world.dirs[d][k].present
            => ~world.dirs[d][j].present

\* A catalog served from the cache is the one a build would give, for these settings,
\* this locale and the files on disk, unless one was edited during the request itself
\* or a pack came only to go again, which no signature shows.
\* (cache.rs: the key is taken before the build; invalidate_all on a settings change.)
HitIsFresh ==
    /\ req.phase = "served" /\ req.hit
    /\ req.since = edition
    /\ NoneComesAndGoes
    => req.catalog = Fresh(req.locale)

=============================================================================
