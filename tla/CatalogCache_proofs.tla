------------------------- MODULE CatalogCache_proofs -------------------------
(***************************************************************************)
(* HitIsFresh for any worlds, roots, packs and edits, whatever loading and *)
(* merging do. A catalog in the cache was signed when the roots were of    *)
(* some editions and made when they were of others, later ones (MadeOf);   *)
(* a request that finds it by its signature saw the editions there are     *)
(* now. A pack directory with a stamp in both signatures is of one edition *)
(* at the signing and now, and so it was in between; one without a stamp   *)
(* was not there at the signing and is not there now, and so it was not    *)
(* there in between if none comes and goes.                                *)
(***************************************************************************)
EXTENDS CatalogCache, TLAPS

-----------------------------------------------------------------------------
(* The invariant *)

\* Which edition each pack directory may be of.
Editions == [DOMAIN world.dirs -> Nat \ {0}]

NotAfter(a, b) == \A d \in DOMAIN world.dirs : a[d] <= b[d]

\* The signature when each root was read at editions of its own.
Signature(S) == UNION {RootStamps(Current.roots[i], S[i]) : i \in DOMAIN S}

LoadedAt(L) == [i \in DOMAIN L |-> LoadRoot(Current.roots[i], L[i])]

\* The entry was signed at the editions S and made at the editions L.
MadeAt(entry, S, L) ==
    /\ entry.key[3] = Signature(S)
    /\ entry.catalog = CatalogOf(LoadedAt(L), entry.key[2])
    /\ \A i \in DOMAIN Current.roots : NotAfter(L[i], edition)
    /\ \A i, j \in DOMAIN Current.roots : NotAfter(S[j], L[i])

PerRoot == [DOMAIN Current.roots -> Editions]

Made(entry) == \E S, L \in PerRoot : MadeAt(entry, S, L)

CacheInv == cache \in Seq(Range(cache)) /\ \A entry \in Range(cache) : Made(entry)

SigningInv ==
    /\ req = [phase |-> "signing", signed |-> req.signed, signature |-> req.signature,
              locale |-> req.locale, since |-> req.since]
    /\ req.signed \in 0 .. Len(Current.roots)
    /\ \E S \in [1 .. req.signed -> Editions] :
        /\ req.signature = Signature(S)
        /\ \A i \in 1 .. req.signed : NotAfter(req.since, S[i]) /\ NotAfter(S[i], edition)

\* The request was signed at the editions S and has loaded at the editions L.
LoadingFrom(S, L) ==
    /\ req.key[3] = Signature(S)
    /\ req.loaded = LoadedAt(L)
    /\ \A i \in DOMAIN Current.roots : NotAfter(S[i], edition)
    /\ \A i \in 1 .. Len(req.loaded) :
        NotAfter(L[i], edition) /\ \A j \in DOMAIN Current.roots : NotAfter(S[j], L[i])

LoadingInv ==
    /\ req = [phase |-> "loading", key |-> req.key, loaded |-> req.loaded,
              locale |-> req.locale, since |-> req.since]
    /\ req.loaded \in Seq(Range(req.loaded)) /\ Len(req.loaded) <= Len(Current.roots)
    /\ req.key[2] = req.locale
    /\ \E S \in PerRoot, L \in [1 .. Len(req.loaded) -> Editions] : LoadingFrom(S, L)

RequestInv ==
    /\ req.phase \in {"idle", "signing", "loading", "served"}
    /\ req.phase # "idle" => req.since \in Editions /\ NotAfter(req.since, edition)
    /\ req.phase = "signing" => SigningInv
    /\ req.phase = "loading" => LoadingInv

CatalogInv ==
    /\ world \in Worlds
    /\ settings \in DOMAIN world.settings
    /\ edition \in Editions /\ \A d \in DOMAIN world.dirs : edition[d] <= Len(world.dirs[d])
    /\ CacheInv
    /\ RequestInv
    /\ HitIsFresh

-----------------------------------------------------------------------------
(* Reading the roots *)

LEMMA RootsOfSettings ==
    ASSUME world \in Worlds, settings \in DOMAIN world.settings
    PROVE  /\ Current.roots \in Seq(Range(Current.roots))
           /\ DOMAIN Current.roots = 1 .. Len(Current.roots) /\ Len(Current.roots) \in Nat
<1>1. world.settings \in Seq(Range(world.settings))
      /\ \A s \in Range(world.settings) : s.roots \in Seq(Range(s.roots))
  BY WorldsAssumption
<1>2. Current \in Range(world.settings)
  BY DEF Current, Range
<1> QED
  BY <1>1, <1>2

LEMMA DiscoveredBelow ==
    ASSUME world \in Worlds, NEW root, NEW e
    PROVE  Discovered(root, e) \subseteq DOMAIN world.dirs
  BY WorldsAssumption DEF Discovered

\* What is loaded from a root depends on the packs below it alone.
LEMMA LoadRootOf ==
    ASSUME NEW root, NEW a, NEW b, PacksBelow(root, a) = PacksBelow(root, b)
    PROVE  LoadRoot(root, a) = LoadRoot(root, b)
  BY DEF LoadRoot

LEMMA SamePacks ==
    ASSUME NEW root, NEW a, NEW b, Discovered(root, a) = Discovered(root, b),
           \A d \in Discovered(root, a) : a[d] = b[d]
    PROVE  PacksBelow(root, a) = PacksBelow(root, b)
  BY DEF PacksBelow

\* Editions that lie between two of the same are the same.
LEMMA Between ==
    ASSUME NEW a \in Editions, NEW b \in Editions, NotAfter(a, b), NotAfter(b, a)
    PROVE  a = b
<1>1. \A d \in DOMAIN world.dirs : a[d] = b[d]
  BY DEF Editions, NotAfter
<1> QED
  BY <1>1 DEF Editions

LEMMA NotAfterTransitive ==
    ASSUME NEW a \in Editions, NEW b \in Editions, NEW c \in Editions,
           NotAfter(a, b), NotAfter(b, c)
    PROVE  NotAfter(a, c)
  BY DEF Editions, NotAfter

-----------------------------------------------------------------------------
(* A catalog found by its signature *)

Now == [i \in DOMAIN Current.roots |-> edition]

\* The stamps of a root tell its pack directories from the root itself.
LEMMA StampIn ==
    ASSUME NEW S, \A i \in DOMAIN S : S[i] \in Editions, world \in Worlds,
           NEW d, NEW n \in Nat \ {0}
    PROVE  <<d, n>> \in Signature(S) <=>
               \E i \in DOMAIN S : d \in Discovered(Current.roots[i], S[i]) /\ S[i][d] = n
  BY DEF Signature, RootStamps

\* When the signature of an entry is that of the disk, each root is of the packs it was
\* made of.
LEMMA SignatureTells ==
    ASSUME CatalogInv, NoneComesAndGoes, NEW S \in PerRoot, NEW L \in PerRoot,
           Signature(S) = Signature(Now), NEW i \in DOMAIN Current.roots,
           \A k \in DOMAIN Current.roots : NotAfter(S[k], L[i]),
           NotAfter(L[i], edition)
    PROVE  PacksBelow(Current.roots[i], L[i]) = PacksBelow(Current.roots[i], edition)
<1> DEFINE root == Current.roots[i]
<1>1. /\ S[i] \in Editions /\ L[i] \in Editions /\ edition \in Editions /\ world \in Worlds
      /\ \A k \in DOMAIN Current.roots : S[k] \in Editions
      /\ DOMAIN S = DOMAIN Current.roots /\ DOMAIN Now = DOMAIN Current.roots
      /\ \A k \in DOMAIN Now : Now[k] = edition
  BY DEF PerRoot, CatalogInv, Now
<1>2. ASSUME NEW d \in Discovered(root, edition)
      PROVE  L[i][d] = edition[d]
  <2>1. d \in DOMAIN world.dirs
    BY <1>1, DiscoveredBelow
  <2>2. edition[d] \in Nat \ {0}
    BY <1>1, <2>1 DEF Editions
  <2>3. <<d, edition[d]>> \in Signature(Now)
    BY <1>1, <1>2, <2>2, StampIn
  <2>4. PICK j \in DOMAIN Current.roots : S[j][d] = edition[d]
    BY <1>1, <2>2, <2>3, StampIn
  <2>5. S[j][d] <= L[i][d] /\ L[i][d] <= edition[d] /\ L[i][d] \in Nat
    BY <1>1, <2>1 DEF NotAfter, Editions
  <2> QED
    BY <2>2, <2>4, <2>5
<1>3. ASSUME NEW d \in DOMAIN world.dirs, d \notin Discovered(root, edition)
      PROVE  d \notin Discovered(root, L[i])
  <2> SUFFICES ASSUME d \in Discovered(root, L[i]) PROVE FALSE
    OBVIOUS
  <2>1. /\ world.dirs[d][L[i][d]].present /\ ~world.dirs[d][edition[d]].present
        /\ root \in DOMAIN world.roots /\ d \in Range(world.roots[root])
    BY <1>3 DEF Discovered
  <2>2. ~world.dirs[d][S[i][d]].present
    <3> SUFFICES ASSUME world.dirs[d][S[i][d]].present PROVE FALSE
      OBVIOUS
    <3>1. d \in Discovered(root, S[i]) /\ S[i][d] \in Nat \ {0}
      BY <1>1, <2>1 DEF Discovered, Editions
    <3>2. <<d, S[i][d]>> \in Signature(Now)
      BY <1>1, <3>1, StampIn
    <3>3. edition[d] = S[i][d]
      BY <1>1, <3>1, <3>2, StampIn
    <3> QED
      BY <2>1, <3>3
  <2>3. /\ S[i][d] <= L[i][d] /\ L[i][d] <= edition[d] /\ edition[d] <= Len(world.dirs[d])
        /\ S[i][d] \in Nat \ {0} /\ L[i][d] \in Nat \ {0} /\ edition[d] \in Nat \ {0}
    BY <1>1 DEF NotAfter, Editions, CatalogInv
  <2>4. world.dirs[d] \in Seq(Range(world.dirs[d]))
    BY <1>1, WorldsAssumption
  <2>5. S[i][d] \in DOMAIN world.dirs[d] /\ L[i][d] \in DOMAIN world.dirs[d]
        /\ edition[d] \in DOMAIN world.dirs[d]
    BY <2>3, <2>4
  <2>6. S[i][d] # L[i][d] /\ L[i][d] # edition[d]
    BY <2>1, <2>2
  <2>7. S[i][d] < L[i][d] /\ L[i][d] < edition[d]
    BY <2>3, <2>6
  <2> QED
    BY <2>1, <2>2, <2>5, <2>7 DEF NoneComesAndGoes
<1>4. Discovered(root, edition) \subseteq Discovered(root, L[i])
  BY <1>2 DEF Discovered
<1>5. Discovered(root, L[i]) \subseteq DOMAIN world.dirs
  BY <1>1, DiscoveredBelow
<1>6. Discovered(root, L[i]) = Discovered(root, edition)
  BY <1>3, <1>4, <1>5
<1> QED
  BY <1>2, <1>6, SamePacks

LEMMA FoundIsFresh ==
    ASSUME CatalogInv, NoneComesAndGoes, NEW entry, Made(entry),
           entry.key[3] = Signature(Now)
    PROVE  entry.catalog = Fresh(entry.key[2])
<1>1. PICK S \in PerRoot, L \in PerRoot : MadeAt(entry, S, L)
  BY DEF Made
<1>2. \A i \in DOMAIN Current.roots :
         PacksBelow(Current.roots[i], L[i]) = PacksBelow(Current.roots[i], edition)
  BY <1>1, SignatureTells DEF MadeAt
<1>3. LoadedAt(L) = [i \in DOMAIN Current.roots |-> LoadRoot(Current.roots[i], edition)]
  BY <1>2, LoadRootOf DEF LoadedAt, PerRoot
<1> QED
  BY <1>1, <1>3 DEF MadeAt, Fresh

-----------------------------------------------------------------------------
(* The steps *)

SettingsStay == world' = world /\ settings' = settings

\* What the invariant says of the past does not depend on what is on disk now.
LEMMA PastStays ==
    ASSUME SettingsStay
    PROVE  /\ Current' = Current /\ Editions' = Editions /\ PerRoot' = PerRoot
           /\ \A S : Signature(S)' = Signature(S)
           /\ \A L : LoadedAt(L)' = LoadedAt(L)
           /\ \A l, locale : CatalogOf(l, locale)' = CatalogOf(l, locale)
           /\ \A a, b : NotAfter(a, b)' = NotAfter(a, b)
<1>1. Current' = Current /\ Editions' = Editions
  BY DEF SettingsStay, Current, Editions
<1>2. PerRoot' = PerRoot
  BY <1>1 DEF PerRoot
<1>3. \A root, e : Discovered(root, e)' = Discovered(root, e)
  BY DEF SettingsStay, Discovered
<1>4. \A root, e : RootStamps(root, e)' = RootStamps(root, e)
  BY <1>3 DEF RootStamps
<1>5. \A root, e : LoadRoot(root, e)' = LoadRoot(root, e)
  <2>1. \A root, e : PacksBelow(root, e)' = PacksBelow(root, e)
    BY <1>3 DEF SettingsStay, PacksBelow
  <2>2. \A root, packs : InDiscoveryOrder(root, packs)' = InDiscoveryOrder(root, packs)
    BY DEF SettingsStay, InDiscoveryOrder
  <2> QED
    BY <2>1, <2>2 DEF SettingsStay, LoadRoot
<1>6. \A S : Signature(S)' = Signature(S)
  BY <1>1, <1>4 DEF Signature
<1>7. \A L : LoadedAt(L)' = LoadedAt(L)
  BY <1>1, <1>5 DEF LoadedAt
<1>8. \A l, locale : CatalogOf(l, locale)' = CatalogOf(l, locale)
  BY <1>1 DEF SettingsStay, CatalogOf, PacksOf, DiagsOf
<1>9. \A a, b : NotAfter(a, b)' = NotAfter(a, b)
  BY DEF SettingsStay, NotAfter
<1> QED
  BY <1>1, <1>2, <1>6, <1>7, <1>8, <1>9

\* Editing leaves the editions of the past behind.
LEMMA MadeStays ==
    ASSUME CatalogInv, SettingsStay, edition' \in Editions, NotAfter(edition, edition'),
           NEW entry, Made(entry)
    PROVE  Made(entry)'
<1>1. PICK S \in PerRoot, L \in PerRoot : MadeAt(entry, S, L)
  BY DEF Made
<1>2. \A i \in DOMAIN Current.roots : NotAfter(L[i], edition')
  BY <1>1, NotAfterTransitive DEF MadeAt, PerRoot, CatalogInv
<1>3. MadeAt(entry, S, L)'
  BY <1>1, <1>2, PastStays DEF MadeAt
<1> QED
  BY <1>3, PastStays DEF Made

LEMMA SeqOfItsRange ==
    ASSUME NEW T, NEW s \in Seq(T)
    PROVE  s \in Seq(Range(s)) /\ Range(s) \subseteq T
  BY DEF Range

LEMMA CacheStays ==
    ASSUME CatalogInv, SettingsStay, cache' = cache, edition' \in Editions,
           NotAfter(edition, edition')
    PROVE  CacheInv'
  BY MadeStays DEF CatalogInv, CacheInv

LEMMA NotAfterItself == ASSUME NEW e \in Editions PROVE NotAfter(e, e)
  BY DEF Editions, NotAfter

\* One more root signed.
LEMMA SignatureGrows ==
    ASSUME NEW n \in Nat, NEW S \in [1 .. n -> Editions]
    PROVE  LET T == [i \in 1 .. n + 1 |-> IF i = n + 1 THEN edition ELSE S[i]]
           IN  Signature(T) = Signature(S) \cup RootStamps(Current.roots[n + 1], edition)
<1> DEFINE T == [i \in 1 .. n + 1 |-> IF i = n + 1 THEN edition ELSE S[i]]
<1>1. 1 .. n + 1 = (1 .. n) \cup {n + 1} /\ DOMAIN S = 1 .. n /\ DOMAIN T = 1 .. n + 1
  OBVIOUS
<1>2. T[n + 1] = edition /\ \A i \in 1 .. n : T[i] = S[i]
  OBVIOUS
<1> HIDE DEF T
<1>3. ASSUME NEW x
      PROVE  x \in Signature(T) <=>
                 x \in Signature(S) \cup RootStamps(Current.roots[n + 1], edition)
  <2>1. x \in Signature(T) <=> \E i \in 1 .. n + 1 : x \in RootStamps(Current.roots[i], T[i])
    BY <1>1 DEF Signature
  <2>2. x \in Signature(S) <=> \E i \in 1 .. n : x \in RootStamps(Current.roots[i], S[i])
    BY <1>1 DEF Signature
  <2> QED
    BY <1>1, <1>2, <2>1, <2>2
<1>4. Signature(T) = Signature(S) \cup RootStamps(Current.roots[n + 1], edition)
  BY <1>3
<1> QED
  BY <1>4 DEF T


LEMMA SignRootKeeps ==
    ASSUME CatalogInv, SignRoot PROVE RequestInv'
<1> DEFINE n == req.signed
           new == req.signature \cup RootStamps(Current.roots[n + 1], edition)
<1>1. /\ req.phase = "signing" /\ n < Len(Current.roots) /\ SettingsStay /\ edition' = edition
      /\ req' = [req EXCEPT !.signed = n + 1, !.signature = new]
  <2>1. req' = [req EXCEPT !.signed = @ + 1, !.signature = @ \cup
                    RootStamps(Current.roots[req.signed + 1], edition)]
    BY DEF SignRoot
  <2> QED
    BY <2>1 DEF SignRoot, SettingsStay
<1>2. SigningInv /\ req.since \in Editions /\ NotAfter(req.since, edition)
      /\ edition \in Editions /\ Len(Current.roots) \in Nat /\ n \in Nat
  BY <1>1, RootsOfSettings DEF CatalogInv, RequestInv, SigningInv
<1>3. PICK S \in [1 .. n -> Editions] :
        /\ req.signature = Signature(S)
        /\ \A i \in 1 .. n : NotAfter(req.since, S[i]) /\ NotAfter(S[i], edition)
  BY <1>2 DEF SigningInv
<1> DEFINE T == [i \in 1 .. n + 1 |-> IF i = n + 1 THEN edition ELSE S[i]]
<1>4. T \in [1 .. n + 1 -> Editions] /\ \A i \in 1 .. n + 1 : T[i] = edition \/ \E j \in 1 .. n : T[i] = S[j]
  BY <1>2
<1>5. new = Signature(T)
  BY <1>2, <1>3, SignatureGrows
<1> HIDE DEF T, new
<1>6. \A i \in 1 .. n + 1 : NotAfter(req.since, T[i]) /\ NotAfter(T[i], edition)
  BY <1>2, <1>3, <1>4, NotAfterItself
<1>7. /\ req' = [phase |-> "signing", signed |-> n + 1, signature |-> new,
                locale |-> req.locale, since |-> req.since]
  BY <1>1, <1>2 DEF SigningInv
<1>8. SigningInv'
  <2>1. /\ req'.signed = n + 1 /\ req'.signature = Signature(T) /\ req'.since = req.since
        /\ req' = [phase |-> "signing", signed |-> req'.signed, signature |-> req'.signature,
                   locale |-> req'.locale, since |-> req'.since]
    BY <1>5, <1>7
  <2>2. n + 1 \in 0 .. Len(Current.roots)
    BY <1>1, <1>2
  <2>3. \E U \in [1 .. req'.signed -> Editions] :
          /\ req'.signature = Signature(U)
          /\ \A i \in 1 .. req'.signed : NotAfter(req'.since, U[i]) /\ NotAfter(U[i], edition)
    BY <1>4, <1>6, <2>1
  <2> QED
    BY <1>1, <2>1, <2>2, <2>3, PastStays DEF SigningInv
<1> QED
  BY <1>1, <1>2, <1>7, <1>8, PastStays DEF RequestInv

LEMMA LoadRootKeeps ==
    ASSUME CatalogInv, LoadExternalPacks PROVE RequestInv'
<1> DEFINE n == Len(req.loaded)
           one == LoadRoot(Current.roots[n + 1], edition)
<1>1. /\ req.phase = "loading" /\ n < Len(Current.roots) /\ SettingsStay /\ edition' = edition
      /\ req' = [req EXCEPT !.loaded = Append(req.loaded, one)]
  BY DEF LoadExternalPacks, SettingsStay
<1>2. LoadingInv /\ req.since \in Editions /\ NotAfter(req.since, edition)
      /\ edition \in Editions /\ Len(Current.roots) \in Nat
      /\ DOMAIN Current.roots = 1 .. Len(Current.roots)
  BY <1>1, RootsOfSettings DEF CatalogInv, RequestInv
<1>3. req.loaded \in Seq(Range(req.loaded)) /\ n \in Nat
  BY <1>2 DEF LoadingInv
<1>4. PICK S \in PerRoot, L \in [1 .. n -> Editions] : LoadingFrom(S, L)
  BY <1>2 DEF LoadingInv
<1>5. PICK M \in [1 .. n + 1 -> Editions] :
        /\ M[n + 1] = edition /\ \A i \in 1 .. n : M[i] = L[i]
        /\ \A i \in 1 .. n + 1 : i = n + 1 \/ i \in 1 .. n
  <2> DEFINE M == [i \in 1 .. n + 1 |-> IF i = n + 1 THEN edition ELSE L[i]]
  <2>1. /\ M \in [1 .. n + 1 -> Editions] /\ M[n + 1] = edition /\ \A i \in 1 .. n : M[i] = L[i]
        /\ \A i \in 1 .. n + 1 : i = n + 1 \/ i \in 1 .. n
    BY <1>2, <1>3
  <2> HIDE DEF M
  <2> QED
    BY <2>1
<1>6. Append(req.loaded, one) = LoadedAt(M)
  <2> DEFINE more == Append(req.loaded, one)
  <2>1. /\ more \in Seq(Range(req.loaded) \cup {one}) /\ Len(more) = n + 1
        /\ more[n + 1] = one /\ \A i \in 1 .. n : more[i] = req.loaded[i]
    BY <1>3
  <2>2. \A i \in 1 .. n : req.loaded[i] = LoadRoot(Current.roots[i], L[i])
    BY <1>4 DEF LoadedAt, LoadingFrom
  <2>3. DOMAIN M = 1 .. n + 1
    OBVIOUS
  <2> HIDE DEF more, one
  <2>4. \A i \in 1 .. n + 1 : more[i] = LoadRoot(Current.roots[i], M[i])
    BY <1>5, <2>1, <2>2 DEF one
  <2>5. more = [i \in 1 .. n + 1 |-> more[i]]
    BY <1>3, <2>1
  <2>6. more = [i \in 1 .. n + 1 |-> LoadRoot(Current.roots[i], M[i])]
    BY <2>4, <2>5
  <2> QED
    BY <2>3, <2>6 DEF LoadedAt, more
<1>7. /\ Append(req.loaded, one) \in Seq(Range(Append(req.loaded, one)))
      /\ Len(Append(req.loaded, one)) = n + 1
  <2> HIDE DEF one
  <2>1. Append(req.loaded, one) \in Seq(Range(req.loaded) \cup {one})
    BY <1>3
  <2>2. Len(Append(req.loaded, one)) = n + 1
    BY <1>3
  <2> QED
    BY <2>1, <2>2, SeqOfItsRange
<1> HIDE DEF one
<1>8. \A i \in 1 .. n + 1 :
         NotAfter(M[i], edition) /\ \A j \in DOMAIN Current.roots : NotAfter(S[j], M[i])
  BY <1>2, <1>4, <1>5, NotAfterItself DEF LoadingFrom
<1>9. req' = [phase |-> "loading", key |-> req.key, loaded |-> Append(req.loaded, one),
              locale |-> req.locale, since |-> req.since]
  BY <1>1, <1>2 DEF LoadingInv
<1>10. req.key[2] = req.locale
  BY <1>2 DEF LoadingInv
<1> DEFINE longer == Append(req.loaded, one)
<1> HIDE DEF longer
<1>11. LoadingInv'
  <2>1. /\ req'.loaded = LoadedAt(M) /\ Len(req'.loaded) = n + 1 /\ req'.key = req.key
        /\ req'.loaded \in Seq(Range(req'.loaded)) /\ req'.locale = req.locale
        /\ req' = [phase |-> "loading", key |-> req'.key, loaded |-> req'.loaded,
                   locale |-> req'.locale, since |-> req'.since]
    BY <1>6, <1>7, <1>9
  <2>2. n + 1 <= Len(Current.roots)
    BY <1>1, <1>2, <1>3
  <2>3. LoadingFrom(S, M)'
    BY <1>1, <1>4, <1>8, <2>1, PastStays DEF LoadingFrom
  <2> QED
    BY <1>1, <1>5, <1>10, <2>1, <2>2, <2>3, PastStays DEF LoadingInv
<1> QED
  BY <1>1, <1>2, <1>9, <1>11, PastStays DEF RequestInv

LEMMA MissKeeps ==
    ASSUME CatalogInv, Miss PROVE RequestInv'
<1>1. /\ req.phase = "signing" /\ req.signed = Len(Current.roots) /\ SettingsStay
      /\ edition' = edition
      /\ req' = [phase |-> "loading", key |-> Key, loaded |-> <<>>,
                 locale |-> req.locale, since |-> req.since]
  BY DEF Miss, SettingsStay
<1>2. /\ SigningInv /\ req.since \in Editions /\ NotAfter(req.since, edition)
      /\ DOMAIN Current.roots = 1 .. Len(Current.roots) /\ Len(Current.roots) \in Nat
  BY <1>1, RootsOfSettings DEF CatalogInv, RequestInv
<1>3. PICK S \in PerRoot :
        /\ req.signature = Signature(S)
        /\ \A i \in DOMAIN Current.roots : NotAfter(S[i], edition)
  BY <1>1, <1>2 DEF SigningInv, PerRoot
<1>4. PICK L \in [1 .. 0 -> Editions] : LoadedAt(L) = <<>>
  <2>1. [i \in {} |-> {}] \in [1 .. 0 -> Editions] /\ LoadedAt([i \in {} |-> {}]) = <<>>
    BY DEF LoadedAt
  <2> QED
    BY <2>1
<1>5. LoadingInv'
  <2>1. /\ req'.loaded = <<>> /\ Len(req'.loaded) = 0 /\ req'.key[2] = req'.locale
        /\ req'.key[3] = req.signature /\ req'.loaded \in Seq(Range(req'.loaded))
        /\ req' = [phase |-> "loading", key |-> req'.key, loaded |-> req'.loaded,
                   locale |-> req'.locale, since |-> req'.since]
    BY <1>1 DEF Key
  <2>2. LoadingFrom(S, L)'
    BY <1>1, <1>3, <1>4, <2>1, PastStays DEF LoadingFrom
  <2>3. L \in [1 .. Len(req'.loaded) -> Editions] /\ Len(req'.loaded) <= Len(Current.roots)
    BY <1>2, <2>1
  <2> QED
    BY <1>1, <2>1, <2>2, <2>3, PastStays DEF LoadingInv
<1> QED
  BY <1>1, <1>2, <1>5, PastStays DEF RequestInv

\* The signature of a request during which nothing was edited is that of the disk.
LEMMA UndisturbedSignature ==
    ASSUME CatalogInv, req.phase = "signing", req.signed = Len(Current.roots),
           req.since = edition
    PROVE  req.signature = Signature(Now)
<1>1. /\ SigningInv /\ edition \in Editions
      /\ DOMAIN Current.roots = 1 .. Len(Current.roots) /\ Len(Current.roots) \in Nat
  BY RootsOfSettings DEF CatalogInv, RequestInv
<1>2. PICK S \in PerRoot :
        /\ req.signature = Signature(S)
        /\ \A i \in DOMAIN Current.roots : NotAfter(edition, S[i]) /\ NotAfter(S[i], edition)
  BY <1>1 DEF SigningInv, PerRoot
<1>3. \A i \in DOMAIN Current.roots : S[i] = edition
  BY <1>1, <1>2, Between DEF PerRoot
<1>4. S = Now
  BY <1>3 DEF PerRoot, Now
<1> QED
  BY <1>2, <1>4

LEMMA FreshStays ==
    ASSUME SettingsStay, edition' = edition, NEW locale
    PROVE  Fresh(locale)' = Fresh(locale)
  BY DEF SettingsStay, Fresh, CatalogOf, PacksOf, DiagsOf, LoadRoot, PacksBelow, Discovered,
         InDiscoveryOrder, Current

LEMMA HitKeeps ==
    ASSUME CatalogInv, Hit PROVE CacheInv' /\ RequestInv' /\ HitIsFresh'
<1>1. PICK at \in DOMAIN cache :
        /\ cache[at].key = Key
        /\ cache' = <<cache[at]>> \o RemoveAt(cache, at)
        /\ req' = Served(cache[at].catalog, TRUE, <<>>)
  BY DEF Hit
<1>2. /\ req.phase = "signing" /\ req.signed = Len(Current.roots) /\ SettingsStay
      /\ edition' = edition
  BY DEF Hit, SettingsStay
<1>3. /\ CacheInv /\ edition \in Editions /\ req.since \in Editions
      /\ NotAfter(req.since, edition) /\ NotAfter(edition, edition)
  BY <1>2, NotAfterItself DEF CatalogInv, RequestInv
<1>4. CacheInv'
  <2>1. cache \in Seq(Range(cache)) /\ cache[at] \in Range(cache)
    BY <1>3 DEF CacheInv, Range
  <2>2. cache' \in Seq(Range(cache))
    BY <1>1, <2>1 DEF RemoveAt
  <2>3. cache' \in Seq(Range(cache')) /\ Range(cache') \subseteq Range(cache)
    BY <2>2, SeqOfItsRange
  <2>4. \A entry \in Range(cache') : Made(entry)'
    BY <1>2, <1>3, <2>3, MadeStays DEF CacheInv
  <2> QED
    BY <2>3, <2>4 DEF CacheInv
<1>5. RequestInv'
  BY <1>1, <1>2, <1>3, PastStays DEF RequestInv, Served
<1>6. ASSUME req'.since = edition', NoneComesAndGoes'
      PROVE  (req.catalog = Fresh(req.locale))'
  <2>1. NoneComesAndGoes
    BY <1>2, <1>6 DEF NoneComesAndGoes, SettingsStay
  <2>2. req.signature = Signature(Now)
    BY <1>1, <1>2, <1>6, UndisturbedSignature DEF Served
  <2>3. cache[at].key[3] = Signature(Now) /\ cache[at].key[2] = req.locale
    BY <1>1, <2>2 DEF Key
  <2>4. Made(cache[at])
    BY <1>3 DEF CacheInv, Range
  <2>5. cache[at].catalog = Fresh(req.locale)
    BY <2>1, <2>3, <2>4, FoundIsFresh
  <2>6. PICK locale : locale = req.locale
    OBVIOUS
  <2>7. req'.catalog = Fresh(locale)' /\ req'.locale = locale
    BY <1>1, <1>2, <2>5, <2>6, FreshStays DEF Served
  <2> QED
    BY <2>7 DEF Fresh, CatalogOf
<1> QED
  BY <1>4, <1>5, <1>6 DEF HitIsFresh

LEMMA BuildKeeps ==
    ASSUME CatalogInv, BuildSchemaCatalog PROVE CacheInv' /\ RequestInv' /\ HitIsFresh'
<1> DEFINE entry == [key |-> req.key, catalog |-> CatalogOf(req.loaded, req.locale)]
           longer == <<entry>> \o cache
<1>1. /\ req.phase = "loading" /\ Len(req.loaded) = Len(Current.roots) /\ SettingsStay
      /\ edition' = edition
      /\ cache' = SubSeq(longer, 1,
                         IF Len(cache) < MaxEntries THEN Len(cache) + 1 ELSE MaxEntries)
      /\ req' = Served(CatalogOf(req.loaded, req.locale), FALSE, PacksOf(req.loaded))
  BY DEF BuildSchemaCatalog, Insert, SettingsStay
<1>2. /\ CacheInv /\ edition \in Editions /\ LoadingInv /\ req.since \in Editions
      /\ NotAfter(req.since, edition) /\ NotAfter(edition, edition)
      /\ DOMAIN Current.roots = 1 .. Len(Current.roots)
  BY <1>1, NotAfterItself, RootsOfSettings DEF CatalogInv, RequestInv
<1>3. Made(entry)
  <2>1. PICK S \in PerRoot, L \in PerRoot : LoadingFrom(S, L)
    BY <1>1, <1>2 DEF LoadingInv, PerRoot
  <2>2. MadeAt(entry, S, L)
    BY <1>1, <1>2, <2>1 DEF MadeAt, LoadingFrom, LoadingInv
  <2> QED
    BY <2>2 DEF Made
<1> HIDE DEF entry
<1>4. CacheInv'
  <2>1. cache \in Seq(Range(cache)) /\ MaxEntries \in Nat
    BY <1>2, WorldsAssumption DEF CacheInv
  <2>2. longer \in Seq({entry} \cup Range(cache)) /\ Len(longer) = Len(cache) + 1
    BY <2>1
  <2> HIDE DEF longer
  <2>3. cache' \in Seq({entry} \cup Range(cache))
    BY <1>1, <2>1, <2>2
  <2>4. cache' \in Seq(Range(cache')) /\ Range(cache') \subseteq {entry} \cup Range(cache)
    BY <2>3, SeqOfItsRange
  <2>5. \A e \in {entry} \cup Range(cache) : Made(e)
    BY <1>2, <1>3 DEF CacheInv
  <2>6. \A e \in Range(cache') : Made(e)'
    BY <1>1, <1>2, <2>4, <2>5, MadeStays
  <2> QED
    BY <2>4, <2>6 DEF CacheInv
<1>5. RequestInv'
  BY <1>1, <1>2, PastStays DEF RequestInv, Served
<1>6. req'.hit = FALSE
  BY <1>1 DEF Served
<1> QED
  BY <1>4, <1>5, <1>6 DEF HitIsFresh

\* An edit puts every request under way behind what is on disk.
LEMMA EditKeeps ==
    ASSUME CatalogInv, NEW d \in DOMAIN world.dirs, EditPack(d)
    PROVE  CatalogInv'
<1>1. /\ edition[d] < Len(world.dirs[d]) /\ edition' = [edition EXCEPT ![d] = @ + 1]
      /\ SettingsStay /\ cache' = cache /\ req' = req
  BY DEF EditPack, SettingsStay
<1>2. /\ edition \in Editions /\ RequestInv /\ world \in Worlds
      /\ \A x \in DOMAIN world.dirs : edition[x] <= Len(world.dirs[x])
  BY DEF CatalogInv
<1>3. Len(world.dirs[d]) \in Nat
  BY <1>2, WorldsAssumption
<1>4. /\ edition' \in Editions /\ NotAfter(edition, edition')
      /\ \A x \in DOMAIN world.dirs : edition'[x] <= Len(world.dirs[x])
  BY <1>1, <1>2, <1>3 DEF Editions, NotAfter
<1>5. CacheInv'
  BY <1>1, <1>4, CacheStays
<1>6. \A e \in Editions : NotAfter(e, edition) => NotAfter(e, edition')
  BY <1>2, <1>4, NotAfterTransitive
<1>7. SigningInv => SigningInv'
  <2> SUFFICES ASSUME SigningInv PROVE SigningInv'
    OBVIOUS
  <2>1. PICK S \in [1 .. req.signed -> Editions] :
          /\ req.signature = Signature(S)
          /\ \A i \in 1 .. req.signed : NotAfter(req.since, S[i]) /\ NotAfter(S[i], edition)
    BY DEF SigningInv
  <2>2. \A i \in 1 .. req.signed : NotAfter(req.since, S[i]) /\ NotAfter(S[i], edition')
    BY <1>6, <2>1
  <2>3. \A i \in 1 .. req.signed : (NotAfter(req.since, S[i]) /\ NotAfter(S[i], edition))'
    BY <1>1, <2>2 DEF NotAfter, SettingsStay
  <2> QED
    BY <1>1, <2>1, <2>3, PastStays DEF SigningInv
<1>8. LoadingInv => LoadingInv'
  <2> SUFFICES ASSUME LoadingInv PROVE LoadingInv'
    OBVIOUS
  <2>1. PICK S \in PerRoot, L \in [1 .. Len(req.loaded) -> Editions] : LoadingFrom(S, L)
    BY DEF LoadingInv
  <2>2. /\ \A i \in DOMAIN Current.roots : NotAfter(S[i], edition')
        /\ \A i \in 1 .. Len(req.loaded) : NotAfter(L[i], edition')
    BY <1>6, <2>1 DEF LoadingFrom, PerRoot
  <2>3. LoadingFrom(S, L)'
    BY <1>1, <2>1, <2>2, PastStays DEF LoadingFrom, NotAfter, SettingsStay
  <2> QED
    BY <1>1, <2>1, <2>3, PastStays DEF LoadingInv
<1>9. RequestInv'
  BY <1>1, <1>2, <1>6, <1>7, <1>8, PastStays DEF RequestInv
<1>10. HitIsFresh'
  <2>1. CASE req.phase = "idle"
    BY <1>1, <2>1 DEF HitIsFresh
  <2>2. CASE req.phase # "idle"
    <3>1. req.since \in Editions /\ NotAfter(req.since, edition)
      BY <1>2, <2>2 DEF RequestInv
    <3>2. req.since[d] < edition'[d]
      BY <1>1, <1>2, <3>1 DEF Editions, NotAfter
    <3>3. req.since # edition'
      BY <1>2, <3>1, <3>2 DEF Editions
    <3> QED
      BY <1>1, <3>3 DEF HitIsFresh
  <2> QED
    BY <2>1, <2>2
<1> QED
  BY <1>1, <1>4, <1>5, <1>9, <1>10, PastStays DEF CatalogInv, SettingsStay

\* A step of the command that changes no entry.
LEMMA CommandKeeps ==
    ASSUME CatalogInv, SettingsStay, edition' = edition, cache' = cache, RequestInv', HitIsFresh'
    PROVE  CatalogInv'
<1>1. edition' \in Editions /\ NotAfter(edition, edition')
  BY NotAfterItself DEF CatalogInv
<1> QED
  BY <1>1, CacheStays, PastStays DEF CatalogInv, SettingsStay

LEMMA CatalogInvInit == Init => CatalogInv
<1> SUFFICES ASSUME Init PROVE CatalogInv
  OBVIOUS
<1>1. /\ world \in Worlds /\ edition = [d \in DOMAIN world.dirs |-> 1] /\ settings = 1
      /\ cache = <<>> /\ req = [phase |-> "idle"]
  BY DEF Init, Idle
<1>2. settings \in DOMAIN world.settings
  <2>1. world.settings # <<>> /\ world.settings \in Seq(Range(world.settings))
    BY <1>1, WorldsAssumption
  <2> QED
    BY <1>1, <2>1
<1>3. edition \in Editions
  BY <1>1 DEF Editions
<1>4. \A d \in DOMAIN world.dirs : edition[d] <= Len(world.dirs[d])
  <2> TAKE d \in DOMAIN world.dirs
  <2>1. world.dirs[d] # <<>> /\ world.dirs[d] \in Seq(Range(world.dirs[d]))
    BY <1>1, WorldsAssumption
  <2>2. Len(world.dirs[d]) \in Nat /\ Len(world.dirs[d]) >= 1
    BY <2>1
  <2> QED
    BY <1>1, <2>2
<1>5. CacheInv
  BY <1>1 DEF CacheInv, Range
<1>6. RequestInv /\ HitIsFresh
  BY <1>1 DEF RequestInv, HitIsFresh
<1> QED
  BY <1>1, <1>2, <1>3, <1>4, <1>5, <1>6 DEF CatalogInv

LEMMA CatalogInvNext == CatalogInv /\ [Next]_vars => CatalogInv'
<1> SUFFICES ASSUME CatalogInv, [Next]_vars PROVE CatalogInv'
  OBVIOUS
<1>1. ASSUME NEW locale \in Locales, Request(locale) PROVE CatalogInv'
  <2>1. /\ SettingsStay /\ edition' = edition /\ cache' = cache
        /\ req' = [phase |-> "signing", signed |-> 0, signature |-> {},
                   locale |-> ResolveCatalogLocale(locale), since |-> edition]
    BY <1>1 DEF Request, SettingsStay
  <2>2. edition \in Editions /\ NotAfter(edition, edition) /\ Len(Current.roots) \in Nat
    BY NotAfterItself, RootsOfSettings DEF CatalogInv
  <2>3. PICK S \in [1 .. 0 -> Editions] : Signature(S) = {}
    <3>1. [i \in {} |-> {}] \in [1 .. 0 -> Editions] /\ Signature([i \in {} |-> {}]) = {}
      BY DEF Signature
    <3> QED
      BY <3>1
  <2>4. SigningInv'
    <3>1. /\ req'.signed = 0 /\ req'.signature = {} /\ 0 \in 0 .. Len(Current.roots)
          /\ req' = [phase |-> "signing", signed |-> req'.signed, signature |-> req'.signature,
                     locale |-> req'.locale, since |-> req'.since]
      BY <2>1, <2>2
    <3>2. S \in [1 .. req'.signed -> Editions] /\ \A i \in 1 .. req'.signed : FALSE
      BY <2>3, <3>1
    <3>3. (\E T \in [1 .. req.signed -> Editions] :
            /\ req.signature = Signature(T)
            /\ \A i \in 1 .. req.signed : NotAfter(req.since, T[i]) /\ NotAfter(T[i], edition))'
      BY <2>1, <2>3, <3>1, <3>2, PastStays
    <3> QED
      BY <2>1, <3>1, <3>3, PastStays DEF SigningInv
  <2>5. RequestInv' /\ HitIsFresh'
    BY <2>1, <2>2, <2>4, PastStays DEF RequestInv, HitIsFresh
  <2> QED
    BY <2>1, <2>5, CommandKeeps
<1>2. CASE SignRoot
  <2>1. SettingsStay /\ edition' = edition /\ cache' = cache /\ req'.phase = "signing"
    BY <1>2 DEF SignRoot, SettingsStay
  <2> QED
    BY <1>2, <2>1, SignRootKeeps, CommandKeeps DEF HitIsFresh
<1>3. CASE Hit
  BY <1>3, HitKeeps DEF CatalogInv, Hit, Editions
<1>4. CASE Miss
  <2>1. SettingsStay /\ edition' = edition /\ cache' = cache /\ req'.phase = "loading"
    BY <1>4 DEF Miss, SettingsStay
  <2> QED
    BY <1>4, <2>1, MissKeeps, CommandKeeps DEF HitIsFresh
<1>5. CASE LoadExternalPacks
  <2>1. SettingsStay /\ edition' = edition /\ cache' = cache /\ req'.phase = "loading"
    BY <1>5 DEF LoadExternalPacks, SettingsStay
  <2> QED
    BY <1>5, <2>1, LoadRootKeeps, CommandKeeps DEF HitIsFresh
<1>6. CASE BuildSchemaCatalog
  BY <1>6, BuildKeeps DEF CatalogInv, BuildSchemaCatalog, Editions
<1>7. CASE Answer
  <2>1. SettingsStay /\ edition' = edition /\ cache' = cache /\ req' = [phase |-> "idle"]
    BY <1>7 DEF Answer, SettingsStay, Idle
  <2>2. RequestInv' /\ HitIsFresh'
    BY <2>1 DEF RequestInv, HitIsFresh
  <2> QED
    BY <2>1, <2>2, CommandKeeps
<1>8. ASSUME NEW next \in DOMAIN world.settings, ChangeSettings(next) PROVE CatalogInv'
  <2>1. /\ world' = world /\ edition' = edition /\ settings' = next /\ cache' = <<>>
        /\ req' = req /\ req.phase = "idle"
    BY <1>8 DEF ChangeSettings
  <2>2. CacheInv'
    BY <2>1 DEF CacheInv, Range
  <2>3. RequestInv' /\ HitIsFresh'
    BY <2>1 DEF RequestInv, HitIsFresh
  <2> QED
    BY <2>1, <2>2, <2>3 DEF CatalogInv, Editions
<1>9. ASSUME NEW d \in DOMAIN world.dirs, EditPack(d) PROVE CatalogInv'
  BY <1>9, EditKeeps
<1>10. CASE UNCHANGED vars
  <2>1. SettingsStay /\ edition' = edition /\ cache' = cache /\ req' = req
    BY <1>10 DEF vars, SettingsStay
  <2>2. SigningInv => SigningInv'
    BY <2>1, PastStays DEF SigningInv
  <2>3. LoadingInv => LoadingInv'
    BY <2>1, PastStays DEF LoadingInv, LoadingFrom
  <2>4. RequestInv'
    BY <2>1, <2>2, <2>3, PastStays DEF CatalogInv, RequestInv
  <2>5. PICK locale : locale = req.locale
    OBVIOUS
  <2>6. Fresh(locale)' = Fresh(locale) /\ (NoneComesAndGoes' <=> NoneComesAndGoes)
    BY <2>1, FreshStays DEF NoneComesAndGoes, SettingsStay
  <2>7. HitIsFresh'
    BY <2>1, <2>5, <2>6 DEF CatalogInv, HitIsFresh, Fresh, CatalogOf
  <2> QED
    BY <2>1, <2>4, <2>7, CommandKeeps
<1> QED
  BY <1>1, <1>2, <1>3, <1>4, <1>5, <1>6, <1>7, <1>8, <1>9, <1>10 DEF Next

\* A catalog served from the cache is what a build would give (HitIsFresh), for any
\* packs, roots, settings and edits, and whatever loading and merging do.
THEOREM HitsAlwaysFresh == Spec => []HitIsFresh
<1>1. CatalogInv => HitIsFresh
  BY DEF CatalogInv
<1> QED
  BY <1>1, CatalogInvInit, CatalogInvNext, PTL DEF Spec

=============================================================================
