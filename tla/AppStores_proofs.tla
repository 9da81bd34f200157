--------------------------- MODULE AppStores_proofs ---------------------------
(***************************************************************************)
(* What AppStores promises, for every number of commands, errors and        *)
(* crashes, when one process uses the files: the form views implement       *)
(* StoreContract, the settings stay consistent and known to the index, and  *)
(* no file is left half written.                                            *)
(***************************************************************************)
EXTENDS AppStores, TLAPS

Known(n) == Ids \cup Processes \X (0 .. (n - 1))

Shapes ==
    /\ disk = [s \in Stores |-> disk[s]]
    /\ tmp = [s \in Stores |-> tmp[s]]
    /\ op = [p \in Processes |-> [pc |-> op[p].pc, store |-> op[p].store, new |-> op[p].new,
                                  reindex |-> op[p].reindex, backup |-> op[p].backup]]
    /\ backups \in Seq({Partial, Garbage} \cup ViewStores(Known(commands)))
    /\ commands \in 0 .. MaxCommands

FileTyped == disk["views"] \in {Absent, Garbage} \cup ViewStores(Known(commands))

\* What is about to replace the views is what one command makes of them.
Writing ==
    \A p \in Processes : op[p].pc \in {"open", "write", "rename"} /\ op[p].store = "views" =>
        /\ op[p].new \in ViewStores(Known(commands))
        /\ ViewsEffect(disk["views"], op[p].new)
        /\ op[p].pc = "rename" => tmp["views"] = op[p].new

\* What a reset is about to remove is what it read, and is in its backup by then.
Resetting ==
    \A p \in Processes : op[p].pc \in {"claim", "backup", "remove"} =>
        /\ op[p].store = "views"
        /\ op[p].new = disk["views"]
        /\ disk["views"] # Absent
        /\ op[p].pc \in {"backup", "remove"} => op[p].backup \in DOMAIN backups
        /\ op[p].pc = "backup" => backups[op[p].backup] = Partial
        /\ op[p].pc = "remove" => backups[op[p].backup] = op[p].new

StoreInv == Shapes /\ FileTyped /\ Writing /\ Resetting

-----------------------------------------------------------------------------
(* The process *)

\* Where a step that writes op leaves the process.
LEMMA OpBegun ==
    ASSUME NEW p \in Processes, Shapes, NEW o, op' = [op EXCEPT ![p] = o]
    PROVE  op'[p] = o
<1>1. DOMAIN op = Processes
  BY DEF Shapes
<1> QED
  BY <1>1

LEMMA OpMoved ==
    ASSUME NEW p \in Processes, Shapes, NEW pc, NEW n,
           \/ op' = [op EXCEPT ![p].pc = pc, ![p].backup = n]
           \/ op' = [op EXCEPT ![p].pc = pc]
    PROVE  op'[p].pc = pc
<1>1. DOMAIN op = Processes
  BY DEF Shapes
<1>2. op[p] = [pc |-> op[p].pc, store |-> op[p].store, new |-> op[p].new,
               reindex |-> op[p].reindex, backup |-> op[p].backup]
  BY DEF Shapes
<1>3. \/ op'[p] = [op[p] EXCEPT !.pc = pc, !.backup = n]
      \/ op'[p] = [op[p] EXCEPT !.pc = pc]
  BY <1>1
<1> QED
  BY <1>2, <1>3

-----------------------------------------------------------------------------
(* Stores *)

LEMMA WithTyped ==
    ASSUME NEW S, NEW T, NEW f \in PartialFunctions(S, T), NEW x \in S, NEW v \in T
    PROVE  With(f, x, v) \in PartialFunctions(S, T)
<1>1. PICK I \in SUBSET S : f \in [I -> T]
  BY DEF PartialFunctions
<1>2. With(f, x, v) \in [I \cup {x} -> T]
  BY <1>1 DEF With
<1>3. I \cup {x} \in SUBSET S
  BY <1>1
<1> QED
  BY <1>2, <1>3 DEF PartialFunctions

LEMMA WithoutTyped ==
    ASSUME NEW S, NEW T, NEW f \in PartialFunctions(S, T), NEW x
    PROVE  Without(f, x) \in PartialFunctions(S, T)
<1>1. PICK I \in SUBSET S : f \in [I -> T]
  BY DEF PartialFunctions
<1>2. Without(f, x) \in [I \ {x} -> T]
  BY <1>1 DEF Without
<1>3. I \ {x} \in SUBSET S
  BY <1>1
<1> QED
  BY <1>2, <1>3 DEF PartialFunctions

LEMMA PartialGrows ==
    ASSUME NEW S, NEW U, S \subseteq U, NEW T
    PROVE  PartialFunctions(S, T) \subseteq PartialFunctions(U, T)
  BY DEF PartialFunctions

LEMMA PartialIsFunction ==
    ASSUME NEW S, NEW T, NEW f \in PartialFunctions(S, T)
    PROVE  /\ f = [x \in DOMAIN f |-> f[x]]
           /\ DOMAIN f \subseteq S
           /\ \A x \in DOMAIN f : f[x] \in T
<1>1. PICK I \in SUBSET S : f \in [I -> T]
  BY DEF PartialFunctions
<1> QED
  BY <1>1

LEMMA StoresGrow ==
    ASSUME NEW S, NEW U, S \subseteq U
    PROVE  ViewStores(S) \subseteq ViewStores(U)
  BY PartialGrows DEF ViewStores

LEMMA KnownGrows ==
    ASSUME NEW n \in Nat
    PROVE  /\ Known(n) \subseteq Known(n + 1)
           /\ ViewStores(Known(n)) \subseteq ViewStores(Known(n + 1))
<1>1. Known(n) \subseteq Known(n + 1)
  BY DEF Known
<1> QED
  BY <1>1, StoresGrow

LEMMA KnownBounded ==
    ASSUME NEW n \in 0 .. (MaxCommands + 1)
    PROVE  /\ {Absent, Garbage, Partial} \cap ViewStores(Known(n)) = {}
           /\ Absent # Garbage /\ Absent # Partial /\ Garbage # Partial
<1>1. Known(n) \subseteq AllIds
  BY StoresAssumption DEF Known, AllIds
<1> QED
  BY <1>1, StoresGrow, StoresAssumption

\* An empty store is one.
LEMMA EmptyTyped ==
    ASSUME NEW S
    PROVE  EmptyViews \in ViewStores(S)
<1>1. [id \in {} |-> None] \in PartialFunctions(S, [target : Targets, name : Names, hidden : BOOLEAN])
  <2>1. [id \in {} |-> None] \in [{} -> [target : Targets, name : Names, hidden : BOOLEAN]]
    OBVIOUS
  <2> QED
    BY <2>1 DEF PartialFunctions
<1>2. [target \in {} |-> None] \in PartialFunctions(Targets, Selections)
  <2>1. [target \in {} |-> None] \in [{} -> Selections]
    OBVIOUS
  <2> QED
    BY <2>1 DEF PartialFunctions
<1> QED
  BY <1>1, <1>2, StoresAssumption DEF EmptyViews, ViewStores, CurrentVersion

\* A store that can be read is one of this version and this project.
LEMMA ReadyTyped ==
    ASSUME NEW n \in 0 .. MaxCommands, NEW c \in {Absent, Garbage} \cup ViewStores(Known(n)), Ready(c)
    PROVE  /\ Views(c) \in ViewStores(Known(n))
           /\ Views(c).version = CurrentVersion
           /\ Views(c).project = Project
<1>1. CASE c = Absent
  BY <1>1, EmptyTyped DEF Views, EmptyViews
<1>2. CASE c # Absent
  BY <1>2 DEF Views, Ready
<1> QED
  BY <1>1, <1>2

LEMMA TypedReady ==
    ASSUME NEW n \in 0 .. (MaxCommands + 1), NEW c \in ViewStores(Known(n)),
           c.version = CurrentVersion, c.project = Project
    PROVE  Ready(c) /\ c # Absent
  BY KnownBounded DEF Ready

-----------------------------------------------------------------------------
(* Commands: what each has written is an effect *)

\* What a command is to show of the content it writes.
Good(new) == new \in ViewStores(Known(commands + 1)) /\ ViewsEffect(disk["views"], new)

LEMMA Current ==
    ASSUME StoreInv, Ready(disk["views"])
    PROVE  /\ commands \in 0 .. MaxCommands /\ commands + 1 \in 0 .. (MaxCommands + 1)
           /\ Views(disk["views"]) \in ViewStores(Known(commands))
           /\ Views(disk["views"]).version = CurrentVersion
           /\ Views(disk["views"]).project = Project
           /\ Known(commands) \subseteq Known(commands + 1)
           /\ Views(disk["views"]) \in ViewStores(Known(commands + 1))
<1>1. commands \in 0 .. MaxCommands
  BY DEF StoreInv, Shapes
<1>2. commands + 1 \in 0 .. (MaxCommands + 1)
  BY <1>1, StoresAssumption
<1> QED
  BY <1>1, <1>2, ReadyTyped, KnownGrows, StoresAssumption DEF StoreInv, FileTyped

LEMMA CreateGood ==
    ASSUME StoreInv, NEW p \in Processes, NEW target \in Targets, NEW name \in Names,
           CreateView(p, target, name)
    PROVE  \E new : SaveViews(p, new) /\ Good(new)
<1> DEFINE o == Views(disk["views"])
           id == <<p, commands>>
           views == With(o.views, id, [target |-> target, name |-> Trim[name], hidden |-> FALSE])
           new == [o EXCEPT !.views = views]
<1>1. Ready(disk["views"]) /\ Trim[name] # Blank /\ SaveViews(p, new)
  BY DEF CreateView, ReadStoreForMutation
<1>2. o \in ViewStores(Known(commands)) /\ o.version = CurrentVersion /\ o.project = Project
  BY <1>1, Current
<1>3. id \in Known(commands + 1) /\ id \notin Known(commands)
  <2>1. commands \in Nat /\ commands \in 0 .. MaxCommands
    BY StoresAssumption DEF StoreInv, Shapes
  <2>2. id \notin Ids
    BY <2>1, StoresAssumption
  <2> QED
    BY <2>1, <2>2 DEF Known
<1>4. o.views \in PartialFunctions(Known(commands + 1),
                                   [target : Targets, name : Names, hidden : BOOLEAN])
  BY <1>1, <1>2, Current, PartialGrows DEF ViewStores
<1>5. Trim[name] \in Names
  BY <1>1, StoresAssumption
<1>6. views \in PartialFunctions(Known(commands + 1),
                                 [target : Targets, name : Names, hidden : BOOLEAN])
  BY <1>3, <1>4, <1>5, WithTyped
<1>7. /\ new \in ViewStores(Known(commands + 1))
      /\ new.views = views /\ new.last = o.last
      /\ new.version = CurrentVersion /\ new.project = Project
  <2> HIDE DEF views, o
  <2>1. o \in ViewStores(Known(commands + 1))
    BY <1>1, Current DEF o
  <2> QED
    BY <1>2, <1>6, <2>1 DEF ViewStores
<1>8. Ready(new) /\ new # Absent
  BY <1>1, <1>7, TypedReady, Current
<1>9. id \notin DOMAIN o.views /\ o.views = [x \in DOMAIN o.views |-> o.views[x]]
  BY <1>2, <1>3, PartialIsFunction DEF ViewStores
<1>10. id \in DOMAIN views \ DOMAIN o.views /\ Without(views, id) = o.views
  BY <1>9 DEF With, Without
<1>11. ViewsEffect(disk["views"], new)
  BY <1>1, <1>7, <1>8, <1>10 DEF ViewsEffect
<1> QED
  BY <1>1, <1>7, <1>11 DEF Good

LEMMA UpdateGood ==
    ASSUME StoreInv, NEW p \in Processes, NEW id \in DOMAIN Views(disk["views"]).views,
           NEW name \in Names \cup {Keep}, NEW hidden \in {TRUE, Keep},
           UpdateView(p, id, name, hidden)
    PROVE  \E new : SaveViews(p, new) /\ Good(new)
<1> DEFINE o == Views(disk["views"])
           View == [target : Targets, name : Names, hidden : BOOLEAN]
           view == Updated(o.views[id], name, hidden)
           views == With(o.views, id, view)
           new == [o EXCEPT !.views = views]
<1>1. Ready(disk["views"]) /\ (name # Keep => Trim[name] # Blank) /\ SaveViews(p, new)
  BY DEF UpdateView, ReadStoreForMutation
<1>2. o \in ViewStores(Known(commands)) /\ o.version = CurrentVersion /\ o.project = Project
  BY <1>1, Current
<1>3. /\ o.views = [x \in DOMAIN o.views |-> o.views[x]]
      /\ id \in Known(commands)
      /\ o.views[id] \in View
  <2>1. o.views \in PartialFunctions(Known(commands), View)
    BY <1>2 DEF ViewStores
  <2>2. id \in DOMAIN o.views
    OBVIOUS
  <2> HIDE DEF View, o
  <2> QED
    BY <2>1, <2>2, PartialIsFunction
<1>4. view \in View /\ view.target = o.views[id].target
  <2>1. (IF name = Keep THEN o.views[id].name ELSE Trim[name]) \in Names
    BY <1>1, <1>3, StoresAssumption
  <2>2. (IF hidden = Keep THEN o.views[id].hidden ELSE hidden) \in BOOLEAN
    BY <1>3
  <2> QED
    BY <1>3, <2>1, <2>2 DEF Updated
<1>5. o.views \in PartialFunctions(Known(commands + 1), View) /\ id \in Known(commands + 1)
  BY <1>1, <1>2, <1>3, Current, PartialGrows DEF ViewStores
<1>6. views \in PartialFunctions(Known(commands + 1), View)
  BY <1>4, <1>5, WithTyped
<1>7. /\ new \in ViewStores(Known(commands + 1))
      /\ new.views = views /\ new.last = o.last
      /\ new.version = CurrentVersion /\ new.project = Project
  <2> HIDE DEF views, o
  <2>1. o \in ViewStores(Known(commands + 1))
    BY <1>1, Current DEF o
  <2> QED
    BY <1>2, <1>6, <2>1 DEF ViewStores
<1>8. Ready(new) /\ new # Absent
  BY <1>1, <1>7, TypedReady, Current
<1>9. /\ id \in DOMAIN o.views \cap DOMAIN views
      /\ views[id].target = o.views[id].target
      /\ Without(views, id) = Without(o.views, id)
  BY <1>3, <1>4 DEF With, Without
<1>10. ViewsEffect(disk["views"], new)
  BY <1>1, <1>7, <1>8, <1>9 DEF ViewsEffect
<1> QED
  BY <1>1, <1>7, <1>10 DEF Good

LEMMA DeleteGood ==
    ASSUME StoreInv, NEW p \in Processes, NEW id, DeleteView(p, id)
    PROVE  \E new : SaveViews(p, new) /\ Good(new)
<1> DEFINE o == Views(disk["views"])
           View == [target : Targets, name : Names, hidden : BOOLEAN]
           views == Without(o.views, id)
           new == [o EXCEPT !.views = views]
<1>1. Ready(disk["views"]) /\ id \in DOMAIN o.views /\ SaveViews(p, new)
  BY DEF DeleteView, ReadStoreForMutation
<1>2. o \in ViewStores(Known(commands)) /\ o.version = CurrentVersion /\ o.project = Project
  BY <1>1, Current
<1>3. views \in PartialFunctions(Known(commands + 1), View)
  BY <1>1, <1>2, Current, PartialGrows, WithoutTyped DEF ViewStores
<1>4. /\ new \in ViewStores(Known(commands + 1))
      /\ new.views = views /\ new.last = o.last
      /\ new.version = CurrentVersion /\ new.project = Project
  <2> HIDE DEF views, o
  <2>1. o \in ViewStores(Known(commands + 1))
    BY <1>1, Current DEF o
  <2> QED
    BY <1>2, <1>3, <2>1 DEF ViewStores
<1>5. Ready(new) /\ new # Absent
  BY <1>1, <1>4, TypedReady, Current
<1>6. ViewsEffect(disk["views"], new)
  BY <1>1, <1>4, <1>5 DEF ViewsEffect
<1> QED
  BY <1>1, <1>4, <1>6 DEF Good

LEMMA SelectGood ==
    ASSUME StoreInv, NEW p \in Processes, NEW target \in Targets, NEW view \in Selections,
           SetLastSelected(p, target, view)
    PROVE  \E new : SaveViews(p, new) /\ Good(new)
<1> DEFINE o == Views(disk["views"])
           last == With(o.last, target, view)
           new == [o EXCEPT !.last = last]
<1>1. Ready(disk["views"]) /\ SaveViews(p, new)
  BY DEF SetLastSelected, ReadStoreForMutation
<1>2. o \in ViewStores(Known(commands)) /\ o.version = CurrentVersion /\ o.project = Project
  BY <1>1, Current
<1>3. o.last \in PartialFunctions(Targets, Selections)
  BY <1>2 DEF ViewStores
<1>4. last \in PartialFunctions(Targets, Selections)
  BY <1>3, WithTyped
<1>5. /\ new \in ViewStores(Known(commands + 1))
      /\ new.views = o.views /\ new.last = last
      /\ new.version = CurrentVersion /\ new.project = Project
  <2> HIDE DEF last, o
  <2>1. o \in ViewStores(Known(commands + 1))
    BY <1>1, Current DEF o
  <2> QED
    BY <1>2, <1>4, <2>1 DEF ViewStores
<1>6. Ready(new) /\ new # Absent
  BY <1>1, <1>5, TypedReady, Current
<1>7. Without(last, target) = Without(o.last, target)
  BY <1>3, PartialIsFunction DEF With, Without
<1>8. ViewsEffect(disk["views"], new)
  BY <1>1, <1>5, <1>6, <1>7 DEF ViewsEffect
<1> QED
  BY <1>1, <1>5, <1>8 DEF Good

-----------------------------------------------------------------------------
(* Steps *)

LEMMA BeginKeeps ==
    ASSUME NEW p, Processes = {p}, StoreInv,
           NEW store \in Stores, NEW new, NEW reindex, Begin(p, store, new, reindex),
           store = "views" => Good(new)
    PROVE  StoreInv' /\ disk' = disk /\ backups' = backups
<1>1. /\ commands' = commands + 1 /\ disk' = disk /\ tmp' = tmp /\ backups' = backups
      /\ op' = [op EXCEPT ![p] = Stage("open", store, new, reindex)]
      /\ commands < MaxCommands
  BY DEF Begin
<1>2. commands \in Nat /\ commands' \in 0 .. MaxCommands
  BY <1>1, StoresAssumption DEF StoreInv, Shapes
<1>3. ViewStores(Known(commands)) \subseteq ViewStores(Known(commands'))
  BY <1>1, <1>2, KnownGrows
<1>4. /\ op' = [q \in Processes |-> op'[q]]
      /\ op'[p] = [pc |-> "open", store |-> store, new |-> new, reindex |-> reindex, backup |-> 0]
  BY <1>1 DEF StoreInv, Shapes, Idle, Stage
<1>5. Shapes'
  <2>1. backups \in Seq({Partial, Garbage} \cup ViewStores(Known(commands')))
    BY <1>3 DEF StoreInv, Shapes
  <2> QED
    BY <1>1, <1>2, <1>4, <2>1 DEF StoreInv, Shapes
<1>6. FileTyped'
  BY <1>1, <1>3 DEF StoreInv, FileTyped
<1>7. Writing'
  BY <1>1, <1>4 DEF Writing, Good
<1>8. Resetting'
  BY <1>1, <1>4 DEF Resetting
<1> QED
  BY <1>1, <1>5, <1>6, <1>7, <1>8 DEF StoreInv

LEMMA ResetKeeps ==
    ASSUME NEW p, Processes = {p}, StoreInv, ResetStore(p)
    PROVE  StoreInv' /\ disk' = disk /\ backups' = backups
<1>1. /\ commands' = commands + 1 /\ disk' = disk /\ tmp' = tmp /\ backups' = backups
      /\ op' = [op EXCEPT ![p] = Stage(IF disk["views"] = Absent THEN "open" ELSE "claim",
                                   "views", Views(disk["views"]), FALSE)]
      /\ commands < MaxCommands
  BY DEF ResetStore
<1>2. commands \in 0 .. MaxCommands /\ commands \in Nat /\ commands' \in 0 .. MaxCommands
  BY <1>1, StoresAssumption DEF StoreInv, Shapes
<1>3. ViewStores(Known(commands)) \subseteq ViewStores(Known(commands'))
  BY <1>1, <1>2, KnownGrows
<1>4. /\ op' = [q \in Processes |-> op'[q]]
      /\ op'[p] = [pc |-> IF disk["views"] = Absent THEN "open" ELSE "claim", store |-> "views",
                   new |-> Views(disk["views"]), reindex |-> FALSE, backup |-> 0]
  BY <1>1 DEF StoreInv, Shapes, Idle, Stage
<1>5. Shapes'
  <2>1. backups \in Seq({Partial, Garbage} \cup ViewStores(Known(commands')))
    BY <1>3 DEF StoreInv, Shapes
  <2> QED
    BY <1>1, <1>2, <1>4, <2>1 DEF StoreInv, Shapes
<1>6. FileTyped'
  BY <1>1, <1>3 DEF StoreInv, FileTyped
<1>7. Writing'
  <2>1. CASE disk["views"] = Absent
    <3>1. EmptyViews \in ViewStores(Known(commands'))
      BY EmptyTyped
    <3>2. Ready(Absent) /\ Views(Absent) = EmptyViews
      BY <1>2, KnownBounded, StoresAssumption DEF Ready, Views
    <3>3. Ready(EmptyViews) /\ EmptyViews # Absent
      BY <1>2, <3>1, TypedReady, StoresAssumption DEF EmptyViews
    <3>4. ViewsEffect(Absent, EmptyViews)
      BY <3>2, <3>3 DEF ViewsEffect
    <3>5. op'[p].pc = "open" /\ op'[p].new = EmptyViews
      BY <1>4, <2>1, <3>2
    <3> QED
      BY <1>1, <2>1, <3>1, <3>4, <3>5 DEF Writing
  <2>2. CASE disk["views"] # Absent
    BY <1>4, <2>2 DEF Writing
  <2> QED
    BY <2>1, <2>2
<1>8. Resetting'
  <2>1. CASE disk["views"] = Absent
    BY <1>4, <2>1 DEF Resetting
  <2>2. CASE disk["views"] # Absent
    <3>1. Views(disk["views"]) = disk["views"]
      BY <2>2 DEF Views
    <3>2. op'[p] = [pc |-> "claim", store |-> "views", new |-> disk["views"], reindex |-> FALSE,
                    backup |-> 0]
      BY <1>4, <2>2, <3>1
    <3>3. op'[p].pc = "claim" /\ op'[p].store = "views" /\ op'[p].new = disk["views"]
      BY <3>2
    <3>4. disk' = disk
      BY <1>1
    <3> QED
      BY <2>2, <3>3, <3>4 DEF Resetting
  <2> QED
    BY <2>1, <2>2
<1> QED
  BY <1>1, <1>5, <1>6, <1>7, <1>8 DEF StoreInv

\* A process that has returned, or has saved and is to reindex, owes nothing.
LEMMA ReturnKeeps ==
    ASSUME NEW p, Processes = {p}, StoreInv,
           \/ op' = [op EXCEPT ![p] = Idle]
           \/ op' = [op EXCEPT ![p].pc = "reindex"],
           tmp' = [s \in Stores |-> tmp'[s]], disk' = [s \in Stores |-> disk'[s]],
           disk'["views"] \in {Absent, Garbage} \cup ViewStores(Known(commands)),
           backups' = backups, commands' = commands
    PROVE  StoreInv'
<1>1. /\ op' = [q \in Processes |-> [pc |-> op'[q].pc, store |-> op'[q].store, new |-> op'[q].new,
                                     reindex |-> op'[q].reindex, backup |-> op'[q].backup]]
      /\ op'[p].pc \in {"idle", "reindex"}
  BY DEF StoreInv, Shapes, Idle, Stage
<1>2. Shapes' /\ FileTyped'
  BY <1>1 DEF StoreInv, Shapes, FileTyped
<1>3. Writing' /\ Resetting'
  BY <1>1 DEF Writing, Resetting
<1> QED
  BY <1>2, <1>3 DEF StoreInv

LEMMA OpenKeeps ==
    ASSUME NEW p, Processes = {p}, StoreInv, OpenTmp(p)
    PROVE  StoreInv' /\ disk' = disk /\ backups' = backups
<1>1. /\ op[p].pc = "open" /\ op' = [op EXCEPT ![p].pc = "write"]
      /\ tmp' = [tmp EXCEPT ![op[p].store] = Partial]
      /\ disk' = disk /\ backups' = backups /\ commands' = commands
  BY DEF OpenTmp, At, GoTo
<1>2. /\ op' = [q \in Processes |-> [pc |-> op'[q].pc, store |-> op'[q].store, new |-> op'[q].new,
                                     reindex |-> op'[q].reindex, backup |-> op'[q].backup]]
      /\ op'[p].pc = "write" /\ op'[p].store = op[p].store /\ op'[p].new = op[p].new
  BY <1>1 DEF StoreInv, Shapes
<1>3. Shapes' /\ FileTyped'
  BY <1>1, <1>2 DEF StoreInv, Shapes, FileTyped
<1>4. Writing' /\ Resetting'
  BY <1>1, <1>2 DEF StoreInv, Writing, Resetting
<1> QED
  BY <1>1, <1>3, <1>4 DEF StoreInv

LEMMA WriteKeeps ==
    ASSUME NEW p, Processes = {p}, StoreInv, WriteTmp(p)
    PROVE  StoreInv' /\ disk' = disk /\ backups' = backups
<1>1. /\ op[p].pc = "write" /\ op' = [op EXCEPT ![p].pc = "rename"]
      /\ tmp' = [tmp EXCEPT ![op[p].store] = op[p].new]
      /\ disk' = disk /\ backups' = backups /\ commands' = commands
  BY DEF WriteTmp, At, GoTo
<1>2. /\ op' = [q \in Processes |-> [pc |-> op'[q].pc, store |-> op'[q].store, new |-> op'[q].new,
                                     reindex |-> op'[q].reindex, backup |-> op'[q].backup]]
      /\ op'[p].pc = "rename" /\ op'[p].store = op[p].store /\ op'[p].new = op[p].new
  BY <1>1 DEF StoreInv, Shapes
<1>3. Shapes' /\ FileTyped'
  BY <1>1, <1>2 DEF StoreInv, Shapes, FileTyped
<1>4. op[p].store = "views" => tmp'["views"] = op[p].new
  BY <1>1 DEF StoreInv, Shapes, Stores
<1>5. Writing' /\ Resetting'
  BY <1>1, <1>2, <1>4 DEF StoreInv, Writing, Resetting
<1> QED
  BY <1>1, <1>3, <1>5 DEF StoreInv

LEMMA RenameKeeps ==
    ASSUME NEW p, Processes = {p}, StoreInv, RenameTmp(p)
    PROVE  /\ StoreInv'
           /\ backups' = backups
           /\ disk'["views"] = disk["views"] \/ ViewsEffect(disk["views"], disk'["views"])
<1>1. /\ op[p].pc = "rename" /\ backups' = backups /\ commands' = commands
      /\ \/ op' = [op EXCEPT ![p] = Idle]
         \/ op' = [op EXCEPT ![p].pc = "reindex"]
      /\ \/ disk' = disk /\ tmp' = tmp
         \/ /\ disk' = [disk EXCEPT ![op[p].store] = tmp[op[p].store]]
            /\ tmp' = [tmp EXCEPT ![op[p].store] = Absent]
  BY DEF RenameTmp, At, GoTo, Done
<1>2. tmp' = [s \in Stores |-> tmp'[s]] /\ disk' = [s \in Stores |-> disk'[s]]
  BY <1>1 DEF StoreInv, Shapes
<1>3. \/ disk'["views"] = disk["views"]
      \/ op[p].store = "views" /\ disk'["views"] = op[p].new
  <2>1. CASE op[p].store = "views"
    BY <1>1, <2>1 DEF StoreInv, Shapes, Writing, Stores
  <2>2. CASE op[p].store # "views"
    BY <1>1, <2>2 DEF StoreInv, Shapes, Stores
  <2> QED
    BY <2>1, <2>2
<1>4. /\ disk'["views"] \in {Absent, Garbage} \cup ViewStores(Known(commands))
      /\ disk'["views"] = disk["views"] \/ ViewsEffect(disk["views"], disk'["views"])
  BY <1>1, <1>3 DEF StoreInv, FileTyped, Writing
<1> QED
  BY <1>1, <1>2, <1>4, ReturnKeeps

LEMMA TriggerKeeps ==
    ASSUME NEW p, Processes = {p}, StoreInv, TriggerReindex(p)
    PROVE  StoreInv' /\ disk' = disk /\ backups' = backups
<1>1. /\ op' = [op EXCEPT ![p] = Idle]
      /\ tmp' = tmp /\ disk' = disk /\ backups' = backups /\ commands' = commands
  BY DEF TriggerReindex, Done
<1>2. tmp' = [s \in Stores |-> tmp'[s]] /\ disk' = [s \in Stores |-> disk'[s]]
  BY <1>1 DEF StoreInv, Shapes
<1> QED
  BY <1>1, <1>2, ReturnKeeps DEF StoreInv, FileTyped

LEMMA FailKeeps ==
    ASSUME NEW p, Processes = {p}, StoreInv, StepFails(p) \/ Crash(p)
    PROVE  StoreInv' /\ disk' = disk /\ backups' = backups
<1>1. /\ op' = [op EXCEPT ![p] = Idle]
      /\ tmp' = tmp /\ disk' = disk /\ backups' = backups /\ commands' = commands
  BY DEF StepFails, Crash, Done
<1>2. tmp' = [s \in Stores |-> tmp'[s]] /\ disk' = [s \in Stores |-> disk'[s]]
  BY <1>1 DEF StoreInv, Shapes
<1> QED
  BY <1>1, <1>2, ReturnKeeps DEF StoreInv, FileTyped

Saved == Range(backups) \ {Partial}

LEMMA ClaimKeeps ==
    ASSUME NEW p, Processes = {p}, StoreInv, ClaimBackup(p)
    PROVE  StoreInv' /\ disk' = disk /\ Saved' = Saved
<1>1. /\ op[p].pc = "claim" /\ backups' = Append(backups, Partial)
      /\ op' = [op EXCEPT ![p].pc = "backup", ![p].backup = Len(backups')]
      /\ disk' = disk /\ tmp' = tmp /\ commands' = commands
  BY DEF ClaimBackup, At
<1>2. /\ backups' \in Seq({Partial, Garbage} \cup ViewStores(Known(commands)))
      /\ Len(backups') \in DOMAIN backups' /\ backups'[Len(backups')] = Partial
      /\ DOMAIN backups' = DOMAIN backups \cup {Len(backups')}
      /\ \A i \in DOMAIN backups : backups'[i] = backups[i]
  BY <1>1 DEF StoreInv, Shapes
<1>3. /\ op' = [q \in Processes |-> [pc |-> op'[q].pc, store |-> op'[q].store, new |-> op'[q].new,
                                     reindex |-> op'[q].reindex, backup |-> op'[q].backup]]
      /\ op'[p].pc = "backup" /\ op'[p].store = op[p].store /\ op'[p].new = op[p].new
      /\ op'[p].backup = Len(backups')
  <2> DEFINE o == op[p]
             next == [op EXCEPT ![p].pc = "backup"]
  <2>1. /\ next = [q \in Processes |-> next[q]]
        /\ next[p] = [pc |-> "backup", store |-> o.store, new |-> o.new, reindex |-> o.reindex,
                      backup |-> o.backup]
    BY DEF StoreInv, Shapes
  <2>2. op' = [next EXCEPT ![p].backup = Len(backups')]
    BY <1>1
  <2> HIDE DEF next
  <2>3. /\ op' = [q \in Processes |-> op'[q]]
        /\ op'[p] = [pc |-> "backup", store |-> o.store, new |-> o.new, reindex |-> o.reindex,
                      backup |-> Len(backups')]
    <3>1. op' = [q \in Processes |-> op'[q]] /\ op'[p] = [next[p] EXCEPT !.backup = Len(backups')]
      BY <2>1, <2>2
    <3> DEFINE r == [pc |-> "backup", store |-> o.store, new |-> o.new, reindex |-> o.reindex,
                     backup |-> o.backup]
    <3> HIDE DEF o
    <3>2. [r EXCEPT !.backup = Len(backups')] =
              [pc |-> "backup", store |-> o.store, new |-> o.new, reindex |-> o.reindex,
               backup |-> Len(backups')]
      OBVIOUS
    <3> QED
      BY <2>1, <3>1, <3>2, Zenon
  <2> QED
    BY <2>3
<1>4. Shapes' /\ FileTyped'
  BY <1>1, <1>2, <1>3 DEF StoreInv, Shapes, FileTyped
<1>5. Writing' /\ Resetting'
  BY <1>1, <1>2, <1>3 DEF StoreInv, Writing, Resetting
<1>6. Saved' = Saved
  BY <1>2 DEF Saved, Range
<1> QED
  BY <1>1, <1>4, <1>5, <1>6 DEF StoreInv

LEMMA BackupKeeps ==
    ASSUME NEW p, Processes = {p}, StoreInv, WriteBackup(p)
    PROVE  StoreInv' /\ disk' = disk /\ Saved' = Saved \cup {disk["views"]}
<1> DEFINE k == op[p].backup
<1>1. /\ op[p].pc = "backup" /\ backups' = [backups EXCEPT ![k] = op[p].new]
      /\ op' = [op EXCEPT ![p].pc = "remove"]
      /\ disk' = disk /\ tmp' = tmp /\ commands' = commands
  BY DEF WriteBackup, At, GoTo
<1>2. /\ k \in DOMAIN backups /\ backups[k] = Partial
      /\ op[p].new = disk["views"] /\ disk["views"] # Absent
      /\ disk["views"] \in {Garbage} \cup ViewStores(Known(commands))
  BY <1>1 DEF StoreInv, Resetting, FileTyped
<1>3. disk["views"] # Partial
  <2>1. commands \in 0 .. (MaxCommands + 1)
    BY StoresAssumption DEF StoreInv, Shapes
  <2> QED
    BY <1>2, <2>1, KnownBounded
<1>4. /\ backups' \in Seq({Partial, Garbage} \cup ViewStores(Known(commands)))
      /\ DOMAIN backups' = DOMAIN backups
      /\ backups'[k] = disk["views"]
      /\ \A i \in DOMAIN backups \ {k} : backups'[i] = backups[i]
  BY <1>1, <1>2 DEF StoreInv, Shapes
<1>5. /\ op' = [q \in Processes |-> [pc |-> op'[q].pc, store |-> op'[q].store, new |-> op'[q].new,
                                     reindex |-> op'[q].reindex, backup |-> op'[q].backup]]
      /\ op'[p].pc = "remove" /\ op'[p].store = op[p].store /\ op'[p].new = op[p].new
      /\ op'[p].backup = k
  BY <1>1 DEF StoreInv, Shapes
<1>6. Shapes' /\ FileTyped'
  BY <1>1, <1>4, <1>5 DEF StoreInv, Shapes, FileTyped
<1>7. Writing' /\ Resetting'
  BY <1>1, <1>2, <1>4, <1>5 DEF StoreInv, Writing, Resetting
<1>8. Saved' = Saved \cup {disk["views"]}
  BY <1>2, <1>3, <1>4 DEF Saved, Range
<1> QED
  BY <1>1, <1>6, <1>7, <1>8 DEF StoreInv

LEMMA RemoveKeeps ==
    ASSUME NEW p, Processes = {p}, StoreInv, RemoveOriginal(p)
    PROVE  StoreInv' /\ backups' = backups /\ disk["views"] \in Saved /\ disk'["views"] = Absent
<1>1. /\ op[p].pc = "remove" /\ disk' = [disk EXCEPT !["views"] = Absent]
      /\ op' = [op EXCEPT ![p] = Stage("open", "views", EmptyViews, FALSE)]
      /\ backups' = backups /\ tmp' = tmp /\ commands' = commands
  BY DEF RemoveOriginal, At
<1>2. commands \in 0 .. MaxCommands /\ commands \in 0 .. (MaxCommands + 1)
  BY StoresAssumption DEF StoreInv, Shapes
<1>3. disk["views"] \in Saved
  <2>1. /\ op[p].backup \in DOMAIN backups /\ backups[op[p].backup] = disk["views"]
        /\ disk["views"] \in {Garbage} \cup ViewStores(Known(commands))
    BY <1>1 DEF StoreInv, Resetting, FileTyped
  <2> QED
    BY <1>2, <2>1, KnownBounded DEF Saved, Range
<1>4. disk'["views"] = Absent /\ disk' = [s \in Stores |-> disk'[s]]
  BY <1>1 DEF StoreInv, Shapes, Stores
<1>5. /\ op' = [q \in Processes |-> [pc |-> op'[q].pc, store |-> op'[q].store, new |-> op'[q].new,
                                     reindex |-> op'[q].reindex, backup |-> op'[q].backup]]
      /\ op'[p].pc = "open" /\ op'[p].new = EmptyViews
  <2>1. op'[p] = [pc |-> "open", store |-> "views", new |-> EmptyViews, reindex |-> FALSE,
                  backup |-> 0]
    BY <1>1, OpBegun DEF StoreInv, Stage
  <2>2. op' = [op EXCEPT ![p] = op'[p]]
    BY <1>1, <2>1 DEF Stage
  <2> QED
    BY <2>1, <2>2 DEF StoreInv, Shapes
<1>6. Shapes' /\ FileTyped'
  BY <1>1, <1>4, <1>5 DEF StoreInv, Shapes, FileTyped
<1>7. EmptyViews \in ViewStores(Known(commands)) /\ ViewsEffect(Absent, EmptyViews)
  <2>1. EmptyViews \in ViewStores(Known(commands))
    BY EmptyTyped
  <2>2. Ready(Absent) /\ Views(Absent) = EmptyViews
    BY <1>2, KnownBounded DEF Ready, Views
  <2>3. Ready(EmptyViews) /\ EmptyViews # Absent
    BY <1>2, <2>1, TypedReady DEF EmptyViews
  <2> QED
    BY <2>1, <2>2, <2>3 DEF ViewsEffect
<1>8. Writing' /\ Resetting'
  BY <1>1, <1>4, <1>5, <1>7 DEF Writing, Resetting
<1> QED
  BY <1>1, <1>3, <1>4, <1>6, <1>8 DEF StoreInv

LEMMA ReplaceKeeps ==
    ASSUME NEW p, Processes = {p}, StoreInv, NEW content \in ForeignViews, ReplaceViews(content)
    PROVE  StoreInv' /\ backups' = backups /\ disk'["views"] = content
<1>1. /\ op[p].pc = "idle" /\ disk' = [disk EXCEPT !["views"] = content]
      /\ op' = op /\ backups' = backups /\ tmp' = tmp /\ commands' = commands
  BY DEF ReplaceViews, At
<1>2. disk'["views"] = content /\ disk' = [s \in Stores |-> disk'[s]]
  BY <1>1 DEF StoreInv, Shapes, Stores
<1>3. content \in {Absent, Garbage} \cup ViewStores(Known(commands))
  <2>1. Ids \subseteq Known(commands)
    BY DEF Known
  <2> QED
    BY <2>1, StoresGrow, StoresAssumption
<1>4. Shapes' /\ FileTyped'
  BY <1>1, <1>2, <1>3 DEF StoreInv, Shapes, FileTyped
<1>5. Writing' /\ Resetting'
  BY <1>1 DEF Writing, Resetting
<1> QED
  BY <1>1, <1>2, <1>4, <1>5 DEF StoreInv

LEMMA InitHolds ==
    ASSUME NEW p, Processes = {p}, Init
    PROVE  StoreInv /\ disk["views"] \in InitialViews /\ Saved = {}
<1>1. PICK settings \in InitialSettings, views \in InitialViews :
          disk = [s \in Stores |-> CASE s = "settings" -> settings
                                     [] s = "views" -> views
                                     [] OTHER -> Absent]
  BY DEF Init
<1>2. disk["views"] = views /\ disk = [s \in Stores |-> disk[s]]
  BY <1>1 DEF Stores
<1>3. /\ tmp = [s \in Stores |-> Absent] /\ backups = <<>> /\ op = [q \in Processes |-> Idle]
      /\ commands = 0
  BY DEF Init
<1>4. op[p] = Idle
  BY <1>3
<1>5. Shapes
  BY <1>2, <1>3, <1>4, StoresAssumption DEF Shapes, Idle, Stage
<1>6. FileTyped
  <2>1. Ids \subseteq Known(commands)
    BY DEF Known
  <2> QED
    BY <1>2, <2>1, StoresGrow, StoresAssumption DEF FileTyped
<1>7. Writing /\ Resetting
  BY <1>4 DEF Writing, Resetting, Idle, Stage
<1>8. Saved = {}
  BY <1>3 DEF Saved, Range
<1> QED
  BY <1>2, <1>5, <1>6, <1>7, <1>8 DEF StoreInv

-----------------------------------------------------------------------------
(* Every step is a step of the contract, or changes nothing of it *)

LEMMA SettingsBegin ==
    ASSUME NEW p, SettingsCommand(p)
    PROVE  \E new, reindex : Begin(p, "settings", new, reindex)
<1> USE DEF SaveSettings
<1>1. CASE \E path \in DOMAIN Canonical, kind \in {"Project", "Source"} : UpsertLocation(p, path, kind)
  BY <1>1, Zenon DEF UpsertLocation
<1>2. CASE \E id \in IdsOf(LoadSettings) : RemoveLocation(p, id)
  BY <1>2, Zenon DEF RemoveLocation
<1>3. CASE \E id \in IdsOf(LoadSettings) : UpdateLocation(p, id, "LocalMod")
  BY <1>3, Zenon DEF UpdateLocation
<1>4. CASE \E id \in IdsOf(LoadSettings) \cup {None} : SetActiveProject(p, id)
  BY <1>4, Zenon DEF SetActiveProject
<1>5. CASE \E version \in GameVersions : UpdateProjectGameVersion(p, version)
  BY <1>5, Zenon DEF UpdateProjectGameVersion
<1>6. CASE \E locale \in Locales : UpdateAppLocale(p, locale)
  BY <1>6, Zenon DEF UpdateAppLocale
<1>7. CASE UpdateSaveBackupsEnabled(p, TRUE)
  BY <1>7, Zenon DEF UpdateSaveBackupsEnabled
<1>8. CASE GetProjectSettings(p)
  BY <1>8, Zenon DEF GetProjectSettings
<1> QED
  BY <1>1, <1>2, <1>3, <1>4, <1>5, <1>6, <1>7, <1>8, Zenon DEF SettingsCommand

LEMMA TemplatesBegin ==
    ASSUME NEW p, TemplatesCommand(p)
    PROVE  \E new : Begin(p, "templates", new, FALSE)
<1>1. CASE SaveTemplate(p)
  BY <1>1, Zenon DEF SaveTemplate
<1>2. CASE \E id \in Templates.templates : DeleteTemplate(p, id)
  BY <1>2, Zenon DEF DeleteTemplate
<1> QED
  BY <1>1, <1>2, Zenon DEF TemplatesCommand

LEMMA ViewsBegin ==
    ASSUME NEW p \in Processes, StoreInv, ViewsCommand(p)
    PROVE  ResetStore(p) \/ \E new : Begin(p, "views", new, FALSE) /\ Good(new)
<1>1. CASE \E target \in Targets, name \in Names : CreateView(p, target, name)
  BY <1>1, CreateGood, Zenon DEF SaveViews
<1>2. CASE \E id \in DOMAIN Views(disk["views"]).views, name \in Names \cup {Keep},
              hidden \in {TRUE, Keep} : UpdateView(p, id, name, hidden)
  BY <1>2, UpdateGood, Zenon DEF SaveViews
<1>3. CASE \E id \in DOMAIN Views(disk["views"]).views : DeleteView(p, id)
  BY <1>3, DeleteGood, Zenon DEF SaveViews
<1>4. CASE \E target \in Targets, view \in Selections : SetLastSelected(p, target, view)
  BY <1>4, SelectGood, Zenon DEF SaveViews
<1> QED
  BY <1>1, <1>2, <1>3, <1>4, Zenon DEF ViewsCommand

ContractStep == [ViewsContract!Next]_(ViewsContract!vars)

LEMMA QuietStep ==
    ASSUME disk'["views"] = disk["views"], Saved' = Saved
    PROVE  ContractStep
  BY DEF ContractStep, ViewsContract!vars, Saved

LEMMA StepImplements ==
    ASSUME NEW p, Processes = {p}, StoreInv, [Next]_vars
    PROVE  StoreInv' /\ ContractStep
<1> USE DEF Saved
<1>1. \A new, reindex : Begin(p, "settings", new, reindex) => StoreInv' /\ ContractStep
  BY BeginKeeps, QuietStep DEF Stores
<1>2. \A new : Begin(p, "templates", new, FALSE) => StoreInv' /\ ContractStep
  BY BeginKeeps, QuietStep DEF Stores
<1>3. \A new : Begin(p, "views", new, FALSE) /\ Good(new) => StoreInv' /\ ContractStep
  BY BeginKeeps, QuietStep DEF Stores
<1>4. CASE SettingsCommand(p)
  BY <1>1, <1>4, SettingsBegin
<1>5. CASE TemplatesCommand(p)
  BY <1>2, <1>5, TemplatesBegin
<1>6. CASE ViewsCommand(p)
  BY <1>3, <1>6, ViewsBegin, ResetKeeps, QuietStep
<1>7. CASE OpenTmp(p)
  BY <1>7, OpenKeeps, QuietStep
<1>8. CASE WriteTmp(p)
  BY <1>8, WriteKeeps, QuietStep
<1>9. CASE RenameTmp(p)
  <2>1. CASE disk'["views"] = disk["views"]
    BY <1>9, <2>1, RenameKeeps, QuietStep
  <2>2. CASE ViewsEffect(disk["views"], disk'["views"])
    BY <1>9, <2>2, RenameKeeps DEF ContractStep, ViewsContract!Next, ViewsContract!Change
  <2> QED
    BY <1>9, <2>1, <2>2, RenameKeeps
<1>10. CASE TriggerReindex(p)
  BY <1>10, TriggerKeeps, QuietStep
<1>11. CASE ClaimBackup(p)
  BY <1>11, ClaimKeeps, QuietStep
<1>12. CASE WriteBackup(p)
  BY <1>12, BackupKeeps DEF ContractStep, ViewsContract!Next, ViewsContract!SetAside
<1>13. CASE RemoveOriginal(p)
  BY <1>13, RemoveKeeps DEF ContractStep, ViewsContract!Next, ViewsContract!Discard
<1>14. CASE StepFails(p) \/ Crash(p)
  BY <1>14, FailKeeps, QuietStep
<1>15. CASE \E path \in DOMAIN Canonical : ToggleFolder(Canonical[path])
  <2>1. UNCHANGED <<disk, tmp, backups, op, commands>>
    BY <1>15 DEF ToggleFolder
  <2> QED
    BY <2>1, QuietStep DEF StoreInv, Shapes, FileTyped, Writing, Resetting
<1>16. CASE \E content \in ForeignViews : ReplaceViews(content)
  BY <1>16, ReplaceKeeps DEF ContractStep, ViewsContract!Next, ViewsContract!Replace
<1>17. CASE UNCHANGED vars
  <2>1. UNCHANGED <<disk, tmp, backups, op, commands>>
    BY <1>17 DEF vars
  <2> QED
    BY <2>1, QuietStep DEF StoreInv, Shapes, FileTyped, Writing, Resetting
<1> QED
  BY <1>4, <1>5, <1>6, <1>7, <1>8, <1>9, <1>10, <1>11, <1>12, <1>13, <1>14, <1>15, <1>16, <1>17
     DEF Next, Steps

\* The form views of a project are a StoreContract, whatever fails and whenever the
\* process ends, as long as one process uses them: every change is one command's
\* effect at once, and a store is emptied only after its content was set aside
\* (form_views/store.rs, write_store and reset_store_in_at).
THEOREM ViewsAlwaysKept ==
    ASSUME NEW p, Processes = {p}
    PROVE  Spec => ViewsKept
<1>1. Init => StoreInv /\ ViewsContract!Init
  BY InitHolds DEF ViewsContract!Init, Saved
<1>2. StoreInv /\ [Next]_vars => StoreInv' /\ [ViewsContract!Next]_(ViewsContract!vars)
  BY StepImplements DEF ContractStep
<1> QED
  BY <1>1, <1>2, PTL DEF Spec, ViewsKept, ViewsContract!Spec

-----------------------------------------------------------------------------
(* The settings *)

SameScope(s, t) ==
    s.locations = t.locations /\ s.gameVersion = t.gameVersion /\ s.active = t.active

\* What is about to replace the settings is consistent; the index is told unless it
\* does not matter to it.
SavingSettings ==
    \A p \in Processes : op[p].pc \in {"open", "write", "rename"} =>
        /\ op[p].store = "settings" =>
               /\ SettingsReadable
               /\ op[p].new \in CurrentSettings(Known(commands)) /\ Consistent(op[p].new)
               /\ op[p].reindex \/ SameScope(op[p].new, LoadSettings)
               /\ op[p].pc = "rename" => tmp["settings"] = op[p].new
        /\ op[p].store # "settings" => op[p].reindex = FALSE

\* Between the rename and the news of it, the file is what the command wrote.
Telling ==
    \A p \in Processes : op[p].pc = "reindex" =>
        /\ disk["settings"] = op[p].new
        /\ op[p].new \in CurrentSettings(Known(commands))

Informed ==
    /\ applied = [p \in Processes |-> applied[p]]
    /\ \A p \in Processes : op[p].pc # "reindex" /\ SettingsReadable =>
           Agrees(applied[p], LoadSettings)

SettingsInv ==
    /\ disk["settings"] \in {Absent, Garbage} \cup StoredSettings(Known(commands))
    /\ LocationsConsistent
    /\ SavingSettings
    /\ Telling
    /\ Informed

LEMMA StoredGrow ==
    ASSUME NEW S, NEW U, S \subseteq U
    PROVE  /\ StoredSettings(S) \subseteq StoredSettings(U)
           /\ CurrentSettings(S) \subseteq CurrentSettings(U)
           /\ CurrentSettings(S) \subseteq StoredSettings(S)
<1>1. \A T : PartialFunctions(S, T) \subseteq PartialFunctions(U, T)
  BY PartialGrows
<1>2. \A I : [I -> Locations(SourceTypes)] \subseteq [I -> Locations(SourceTypes \cup {"expansion"})]
  BY DEF Locations
<1>3. PartialFunctions(S, Locations(SourceTypes))
          \subseteq PartialFunctions(S, Locations(SourceTypes \cup {"expansion"}))
  BY <1>2 DEF PartialFunctions
<1> QED
  BY <1>1, <1>3 DEF StoredSettings, CurrentSettings

LEMMA EmptyPartial ==
    ASSUME NEW S, NEW T
    PROVE  [x \in {} |-> None] \in PartialFunctions(S, T)
<1>1. [x \in {} |-> None] \in [{} -> T]
  OBVIOUS
<1> QED
  BY <1>1 DEF PartialFunctions

LEMMA DefaultTyped ==
    ASSUME NEW S
    PROVE  DefaultSettings \in CurrentSettings(S) /\ Consistent(DefaultSettings)
<1>1. DefaultSettings \in CurrentSettings(S)
  BY EmptyPartial, StoresAssumption DEF DefaultSettings, CurrentSettings
<1>2. Consistent(DefaultSettings)
  BY DEF DefaultSettings, Consistent, IdsOf
<1> QED
  BY <1>1, <1>2

LEMMA MigratedTyped ==
    ASSUME NEW S, NEW raw \in StoredSettings(S)
    PROVE  MigrateSettingsJson(raw) \in CurrentSettings(S)
<1> DEFINE locations == [id \in DOMAIN raw.locations |-> MigrateLocation(raw.locations[id])]
<1>1. PICK I \in SUBSET S : raw.locations \in [I -> Locations(SourceTypes \cup {"expansion"})]
  BY DEF StoredSettings, PartialFunctions
<1>2. \A l \in Locations(SourceTypes \cup {"expansion"}) : MigrateLocation(l) \in Locations(SourceTypes)
  BY DEF Locations, MigrateLocation, SourceTypes
<1>3. locations \in [I -> Locations(SourceTypes)]
  BY <1>1, <1>2
<1>4. locations \in PartialFunctions(S, Locations(SourceTypes))
  BY <1>1, <1>3 DEF PartialFunctions
<1>5. /\ (IF raw.version < 4 THEN 4 ELSE raw.version) \in Nat
      /\ Or(raw.gameVersion, "1.6") \in GameVersions
      /\ ResolveLocale(raw.locale) \in Locales
      /\ raw.active \in S \cup {None}
  BY StoresAssumption DEF StoredSettings, Or, ResolveLocale
<1>6. Or(raw.backups, FALSE) \in BOOLEAN
  BY Zenon DEF StoredSettings, Or
<1> QED
  BY <1>4, <1>5, <1>6 DEF MigrateSettingsJson, CurrentSettings

\* What this version writes is read as it was written.
LEMMA MigratedSame ==
    ASSUME NEW S, NEW s \in CurrentSettings(S)
    PROVE  /\ SameScope(MigrateSettingsJson(s), s)
           /\ Consistent(s) => Consistent(MigrateSettingsJson(s))
<1>1. PICK I \in SUBSET S : s.locations \in [I -> Locations(SourceTypes)]
  BY DEF CurrentSettings, PartialFunctions
<1>2. \A l \in Locations(SourceTypes) : MigrateLocation(l) = l
  BY DEF Locations, MigrateLocation, SourceTypes
<1>3. [id \in DOMAIN s.locations |-> MigrateLocation(s.locations[id])] = s.locations
  BY <1>1, <1>2
<1>4. Or(s.gameVersion, "1.6") = s.gameVersion
  BY StoresAssumption DEF CurrentSettings, Or
<1>5. SameScope(MigrateSettingsJson(s), s)
  BY <1>3, <1>4 DEF MigrateSettingsJson, SameScope
<1> QED
  BY <1>5 DEF SameScope, Consistent, IdsOf, ProjectIds

LEMMA LoadedTyped ==
    ASSUME SettingsInv, SettingsReadable
    PROVE  LoadSettings \in CurrentSettings(Known(commands)) /\ Consistent(LoadSettings)
<1>1. CASE disk["settings"] = Absent
  BY <1>1, DefaultTyped DEF LoadSettings
<1>2. CASE disk["settings"] # Absent
  BY <1>2, MigratedTyped DEF LoadSettings, SettingsInv, LocationsConsistent, SettingsReadable
<1> QED
  BY <1>1, <1>2

LEMMA CurrentFile ==
    ASSUME NEW n \in 0 .. (MaxCommands + 1), NEW s \in CurrentSettings(Known(n))
    PROVE  s # Absent /\ s # Garbage /\ s \in StoredSettings(Known(n))
<1>1. Known(n) \subseteq AllIds
  BY StoresAssumption DEF Known, AllIds
<1> QED
  BY <1>1, StoredGrow, StoresAssumption

-----------------------------------------------------------------------------
(* Settings commands: what each writes is consistent *)

GoodSettings(new, reindex) ==
    /\ new \in CurrentSettings(Known(commands + 1))
    /\ Consistent(new)
    /\ reindex \/ SameScope(new, LoadSettings)

LEMMA LoadedNow ==
    ASSUME StoreInv, SettingsInv, SettingsReadable
    PROVE  /\ LoadSettings \in CurrentSettings(Known(commands + 1))
           /\ Consistent(LoadSettings)
           /\ LoadSettings.locations \in PartialFunctions(Known(commands), Locations(SourceTypes))
           /\ Known(commands) \subseteq Known(commands + 1)
<1>1. commands \in Nat
  BY StoresAssumption DEF StoreInv, Shapes
<1> QED
  BY <1>1, LoadedTyped, KnownGrows, StoredGrow DEF CurrentSettings

LEMMA UpsertGood ==
    ASSUME StoreInv, SettingsInv, SettingsReadable, NEW p \in Processes,
           NEW path \in DOMAIN Canonical, NEW kind \in {"Project", "Source"},
           UpsertLocation(p, path, kind)
    PROVE  \E new : Begin(p, "settings", new, TRUE) /\ GoodSettings(new, TRUE)
<1> DEFINE s == LoadSettings
           id == <<p, commands>>
           l == NewLocation(Canonical[path], kind)
           locations == With(s.locations, id, l)
           new == [s EXCEPT !.locations = locations]
<1>1. Begin(p, "settings", new, TRUE) /\ ~HasDuplicatePath(s, Canonical[path])
  BY DEF UpsertLocation, SaveSettings
<1>2. s \in CurrentSettings(Known(commands + 1)) /\ Consistent(s)
  BY LoadedNow
<1>3. id \in Known(commands + 1) /\ id \notin Known(commands)
  <2>1. commands \in Nat /\ commands \in 0 .. MaxCommands
    BY StoresAssumption DEF StoreInv, Shapes
  <2>2. id \notin Ids
    BY <2>1, StoresAssumption
  <2> QED
    BY <2>1, <2>2 DEF Known
<1>4. l \in Locations(SourceTypes)
  BY DEF NewLocation, Locations, SourceTypes
<1>5. s.locations \in PartialFunctions(Known(commands), Locations(SourceTypes))
  BY LoadedNow
<1>6. locations \in PartialFunctions(Known(commands + 1), Locations(SourceTypes))
  <2>1. s.locations \in PartialFunctions(Known(commands + 1), Locations(SourceTypes))
    BY <1>2 DEF CurrentSettings
  <2> QED
    BY <1>3, <1>4, <2>1, WithTyped
<1>7. id \notin DOMAIN s.locations
  BY <1>3, <1>5, PartialIsFunction
<1> HIDE DEF s, locations, l
<1>8. new \in CurrentSettings(Known(commands + 1)) /\ new.locations = locations /\ new.active = s.active
  BY <1>2, <1>6 DEF CurrentSettings
<1>9. /\ DOMAIN locations = DOMAIN s.locations \cup {id}
      /\ locations[id] = l
      /\ \A m \in DOMAIN s.locations : locations[m] = s.locations[m]
  BY <1>7 DEF locations, With
<1>10. Consistent(new)
  <2>1. new.active # None => new.active \in ProjectIds(new)
    BY <1>2, <1>8, <1>9 DEF Consistent, ProjectIds, IdsOf
  <2>2. \A m \in DOMAIN s.locations : s.locations[m].path # l.path
    BY <1>1 DEF HasDuplicatePath, IdsOf, l, NewLocation
  <2>3. \A m, n \in IdsOf(new) : new.locations[m].path = new.locations[n].path => m = n
    BY <1>2, <1>8, <1>9, <2>2 DEF Consistent, IdsOf
  <2> QED
    BY <2>1, <2>3 DEF Consistent
<1> QED
  BY <1>1, <1>8, <1>10 DEF GoodSettings

LEMMA RemoveGood ==
    ASSUME StoreInv, SettingsInv, SettingsReadable, NEW p \in Processes, NEW id,
           RemoveLocation(p, id)
    PROVE  \E new : Begin(p, "settings", new, TRUE) /\ GoodSettings(new, TRUE)
<1> DEFINE s == LoadSettings
           locations == Without(s.locations, id)
           active == IF s.active = id THEN None ELSE s.active
           new == [s EXCEPT !.locations = locations, !.active = active]
<1>1. Begin(p, "settings", new, TRUE)
  BY DEF RemoveLocation, SaveSettings
<1>2. s \in CurrentSettings(Known(commands + 1)) /\ Consistent(s)
  BY LoadedNow
<1>3. locations \in PartialFunctions(Known(commands + 1), Locations(SourceTypes))
  BY <1>2, WithoutTyped DEF CurrentSettings
<1>4. active \in Known(commands + 1) \cup {None}
  BY <1>2 DEF CurrentSettings
<1> HIDE DEF s, locations, active
<1>5. new \in CurrentSettings(Known(commands + 1)) /\ new.locations = locations /\ new.active = active
  BY <1>2, <1>3, <1>4 DEF CurrentSettings
<1>6. /\ DOMAIN locations = DOMAIN s.locations \ {id}
      /\ \A m \in DOMAIN locations : locations[m] = s.locations[m]
  BY DEF locations, Without
<1>7. active # None => active = s.active /\ active # id
  BY DEF active
<1>8. Consistent(new)
  BY <1>2, <1>5, <1>6, <1>7 DEF Consistent, ProjectIds, IdsOf
<1> QED
  BY <1>1, <1>5, <1>8 DEF GoodSettings

LEMMA RetypeGood ==
    ASSUME StoreInv, SettingsInv, SettingsReadable, NEW p \in Processes, NEW id,
           UpdateLocation(p, id, "LocalMod")
    PROVE  \E new : Begin(p, "settings", new, TRUE) /\ GoodSettings(new, TRUE)
<1> DEFINE s == LoadSettings
           l == [s.locations[id] EXCEPT !.sourceType = "LocalMod"]
           locations == With(s.locations, id, l)
           new == [s EXCEPT !.locations = locations]
<1>1. Begin(p, "settings", new, TRUE) /\ id \in DOMAIN s.locations
  BY DEF UpdateLocation, SaveSettings, IdsOf
<1>2. s \in CurrentSettings(Known(commands + 1)) /\ Consistent(s)
  BY LoadedNow
<1>3. s.locations \in PartialFunctions(Known(commands + 1), Locations(SourceTypes))
  BY <1>2 DEF CurrentSettings
<1>4. id \in Known(commands + 1) /\ s.locations[id] \in Locations(SourceTypes)
  BY <1>1, <1>3, PartialIsFunction
<1>5. /\ l \in Locations(SourceTypes)
      /\ l.path = s.locations[id].path /\ l.kind = s.locations[id].kind
  BY <1>4 DEF Locations, SourceTypes
<1>6. locations \in PartialFunctions(Known(commands + 1), Locations(SourceTypes))
  BY <1>3, <1>4, <1>5, WithTyped
<1> HIDE DEF s, locations, l
<1>7. new \in CurrentSettings(Known(commands + 1)) /\ new.locations = locations /\ new.active = s.active
  BY <1>2, <1>6 DEF CurrentSettings
<1>8. /\ DOMAIN locations = DOMAIN s.locations
      /\ locations[id] = l
      /\ \A m \in DOMAIN s.locations \ {id} : locations[m] = s.locations[m]
  BY <1>1 DEF locations, With
<1>9. \A m \in DOMAIN locations : /\ locations[m].path = s.locations[m].path
                                  /\ locations[m].kind = s.locations[m].kind
  BY <1>5, <1>8
<1>10. Consistent(new)
  BY <1>2, <1>7, <1>8, <1>9 DEF Consistent, ProjectIds, IdsOf
<1> QED
  BY <1>1, <1>7, <1>10 DEF GoodSettings

LEMMA ActivateGood ==
    ASSUME StoreInv, SettingsInv, SettingsReadable, NEW p \in Processes,
           NEW id \in IdsOf(LoadSettings) \cup {None}, SetActiveProject(p, id)
    PROVE  \E new : Begin(p, "settings", new, TRUE) /\ GoodSettings(new, TRUE)
<1> DEFINE s == LoadSettings
           new == [s EXCEPT !.active = id]
<1>1. Begin(p, "settings", new, TRUE) /\ (id # None => id \in ProjectIds(s))
  BY DEF SetActiveProject, SaveSettings
<1>2. s \in CurrentSettings(Known(commands + 1)) /\ Consistent(s)
  BY LoadedNow
<1>3. id \in Known(commands + 1) \cup {None}
  <2>1. s.locations \in PartialFunctions(Known(commands + 1), Locations(SourceTypes))
    BY <1>2 DEF CurrentSettings
  <2> QED
    BY <2>1, PartialIsFunction DEF IdsOf
<1> HIDE DEF s
<1>4. new \in CurrentSettings(Known(commands + 1)) /\ new.locations = s.locations /\ new.active = id
  BY <1>2, <1>3 DEF CurrentSettings
<1>5. Consistent(new)
  BY <1>1, <1>2, <1>4 DEF Consistent, ProjectIds, IdsOf
<1> QED
  BY <1>1, <1>4, <1>5 DEF GoodSettings

LEMMA GetGood ==
    ASSUME StoreInv, SettingsInv, SettingsReadable, NEW p \in Processes, GetProjectSettings(p)
    PROVE  \E new : Begin(p, "settings", new, TRUE) /\ GoodSettings(new, TRUE)
<1> DEFINE s == LoadSettings
           new == DeactivateMissingActiveProject(s)
<1>1. Begin(p, "settings", new, TRUE)
  BY DEF GetProjectSettings, SaveSettings
<1>2. s \in CurrentSettings(Known(commands + 1)) /\ Consistent(s)
  BY LoadedNow
<1> HIDE DEF s
<1>3. /\ new \in CurrentSettings(Known(commands + 1)) /\ new.locations = s.locations
      /\ new.active \in {s.active, None}
  BY <1>2 DEF CurrentSettings, DeactivateMissingActiveProject
<1>4. Consistent(new)
  BY <1>2, <1>3 DEF Consistent, ProjectIds, IdsOf
<1> QED
  BY <1>1, <1>3, <1>4 DEF GoodSettings

LEMMA OtherGood ==
    ASSUME StoreInv, SettingsInv, SettingsReadable, NEW p \in Processes,
           \/ \E version \in GameVersions : UpdateProjectGameVersion(p, version)
           \/ \E locale \in Locales : UpdateAppLocale(p, locale)
           \/ UpdateSaveBackupsEnabled(p, TRUE)
    PROVE  \E new, reindex : Begin(p, "settings", new, reindex) /\ GoodSettings(new, reindex)
<1> DEFINE s == LoadSettings
<1>1. s \in CurrentSettings(Known(commands + 1)) /\ Consistent(s)
  BY LoadedNow
<1>2. ASSUME NEW version \in GameVersions, UpdateProjectGameVersion(p, version)
      PROVE  \E new : Begin(p, "settings", new, TRUE) /\ GoodSettings(new, TRUE)
  <2> DEFINE new == [s EXCEPT !.gameVersion = version]
  <2>1. Begin(p, "settings", new, TRUE)
    BY <1>2 DEF UpdateProjectGameVersion, SaveSettings
  <2> HIDE DEF s
  <2>2. /\ new \in CurrentSettings(Known(commands + 1))
        /\ new.locations = s.locations /\ new.active = s.active
    BY <1>1 DEF CurrentSettings
  <2>3. Consistent(new)
    BY <1>1, <2>2 DEF Consistent, ProjectIds, IdsOf
  <2> QED
    BY <2>1, <2>2, <2>3 DEF GoodSettings
<1>3. ASSUME NEW locale \in Locales, UpdateAppLocale(p, locale)
      PROVE  \E new : Begin(p, "settings", new, FALSE) /\ GoodSettings(new, FALSE)
  <2> DEFINE new == [s EXCEPT !.locale = locale]
  <2>1. Begin(p, "settings", new, FALSE)
    BY <1>3 DEF UpdateAppLocale, SaveSettings
  <2>2. /\ new \in CurrentSettings(Known(commands + 1)) /\ SameScope(new, s)
        /\ new.locations = s.locations /\ new.active = s.active
    <3> HIDE DEF s
    <3> QED
      BY <1>1 DEF CurrentSettings, SameScope
  <2>3. Consistent(new)
    <3> HIDE DEF s
    <3> QED
      BY <1>1, <2>2 DEF Consistent, ProjectIds, IdsOf
  <2> QED
    BY <2>1, <2>2, <2>3 DEF GoodSettings
<1>4. ASSUME UpdateSaveBackupsEnabled(p, TRUE)
      PROVE  \E new : Begin(p, "settings", new, FALSE) /\ GoodSettings(new, FALSE)
  <2> DEFINE new == [s EXCEPT !.backups = TRUE]
  <2>1. Begin(p, "settings", new, FALSE)
    BY <1>4 DEF UpdateSaveBackupsEnabled, SaveSettings
  <2>2. /\ new \in CurrentSettings(Known(commands + 1)) /\ SameScope(new, s)
        /\ new.locations = s.locations /\ new.active = s.active
    <3> HIDE DEF s
    <3> QED
      BY <1>1 DEF CurrentSettings, SameScope
  <2>3. Consistent(new)
    <3> HIDE DEF s
    <3> QED
      BY <1>1, <2>2 DEF Consistent, ProjectIds, IdsOf
  <2> QED
    BY <2>1, <2>2, <2>3 DEF GoodSettings
<1> QED
  BY <1>2, <1>3, <1>4

LEMMA SettingsGood ==
    ASSUME StoreInv, SettingsInv, NEW p \in Processes, SettingsCommand(p)
    PROVE  /\ SettingsReadable
           /\ \E new, reindex : Begin(p, "settings", new, reindex) /\ GoodSettings(new, reindex)
<1>1. SettingsReadable
  BY DEF SettingsCommand
<1>2. CASE \E path \in DOMAIN Canonical, kind \in {"Project", "Source"} : UpsertLocation(p, path, kind)
  BY <1>1, <1>2, UpsertGood
<1>3. CASE \E id \in IdsOf(LoadSettings) : RemoveLocation(p, id)
  BY <1>1, <1>3, RemoveGood
<1>4. CASE \E id \in IdsOf(LoadSettings) : UpdateLocation(p, id, "LocalMod")
  BY <1>1, <1>4, RetypeGood
<1>5. CASE \E id \in IdsOf(LoadSettings) \cup {None} : SetActiveProject(p, id)
  BY <1>1, <1>5, ActivateGood
<1>6. CASE \/ \E version \in GameVersions : UpdateProjectGameVersion(p, version)
           \/ \E locale \in Locales : UpdateAppLocale(p, locale)
           \/ UpdateSaveBackupsEnabled(p, TRUE)
  BY <1>1, <1>6, OtherGood
<1>7. CASE GetProjectSettings(p)
  BY <1>1, <1>7, GetGood
<1> QED
  BY <1>1, <1>2, <1>3, <1>4, <1>5, <1>6, <1>7 DEF SettingsCommand

-----------------------------------------------------------------------------
(* Steps on the settings *)

LEMMA BeginSettingsKeeps ==
    ASSUME NEW p, Processes = {p}, StoreInv, SettingsInv, SettingsReadable,
           NEW new, NEW reindex, Begin(p, "settings", new, reindex), GoodSettings(new, reindex)
    PROVE  SettingsInv'
<1>1. /\ commands' = commands + 1 /\ disk' = disk /\ applied' = applied /\ op[p].pc = "idle"
      /\ op' = [op EXCEPT ![p] = Stage("open", "settings", new, reindex)]
  BY DEF Begin, At
<1>2. op'[p] = [pc |-> "open", store |-> "settings", new |-> new, reindex |-> reindex, backup |-> 0]
  BY <1>1 DEF StoreInv, Shapes, Idle, Stage
<1>3. disk'["settings"] \in {Absent, Garbage} \cup StoredSettings(Known(commands'))
  <2>1. Known(commands) \subseteq Known(commands')
    BY <1>1, LoadedNow
  <2> QED
    BY <1>1, <2>1, StoredGrow DEF SettingsInv
<1>4. LoadSettings' = LoadSettings /\ SettingsReadable'
  BY <1>1 DEF LoadSettings, SettingsReadable
<1>5. LocationsConsistent'
  BY <1>4 DEF SettingsInv, LocationsConsistent
<1>6. SavingSettings'
  BY <1>1, <1>2, <1>4 DEF SavingSettings, GoodSettings
<1>7. Telling' /\ Informed'
  BY <1>1, <1>2, <1>4 DEF SettingsInv, Telling, Informed
<1> QED
  BY <1>3, <1>5, <1>6, <1>7 DEF SettingsInv

\* Steps of the other stores, failures and the end of the process.
LEMMA OtherKeeps ==
    ASSUME NEW p, Processes = {p}, StoreInv, SettingsInv,
           commands' = commands \/ commands' = commands + 1,
           disk'["settings"] = disk["settings"],
           op'[p].pc # "reindex",
           op'[p].pc \in {"open", "write", "rename"} =>
               op'[p].store # "settings" /\ op'[p].reindex = FALSE,
           \/ op[p].pc # "reindex" /\ applied' = applied
           \/ applied' = [applied EXCEPT ![p] = StartSettings]
    PROVE  SettingsInv'
<1>1. disk'["settings"] \in {Absent, Garbage} \cup StoredSettings(Known(commands'))
  <2>1. commands \in Nat
    BY StoresAssumption DEF StoreInv, Shapes
  <2>2. Known(commands) \subseteq Known(commands')
    BY <2>1, KnownGrows
  <2> QED
    BY <2>2, StoredGrow DEF SettingsInv
<1>2. LoadSettings' = LoadSettings /\ (SettingsReadable' <=> SettingsReadable)
  BY DEF LoadSettings, SettingsReadable
<1>3. LocationsConsistent'
  BY <1>2 DEF SettingsInv, LocationsConsistent
<1>4. SavingSettings' /\ Telling'
  BY DEF SavingSettings, Telling
<1>5. Informed'
  <2>1. CASE op[p].pc # "reindex" /\ applied' = applied
    BY <1>2, <2>1 DEF SettingsInv, Informed
  <2>2. CASE applied' = [applied EXCEPT ![p] = StartSettings]
    <3>1. applied'[p] = StartSettings /\ applied' = [q \in Processes |-> applied'[q]]
      BY <2>2 DEF SettingsInv, Informed
    <3>2. SettingsReadable => Agrees(StartSettings, LoadSettings)
      <4>1. SettingsReadable => LoadSettings \in CurrentSettings(Known(commands))
        BY LoadedTyped
      <4> HIDE DEF LoadSettings
      <4> QED
        BY <4>1 DEF StartSettings, DeactivateMissingActiveProject, Agrees, CurrentSettings
    <3> QED
      BY <1>2, <3>1, <3>2 DEF Informed
  <2> QED
    BY <2>1, <2>2
<1> QED
  BY <1>1, <1>3, <1>4, <1>5 DEF SettingsInv

LEMMA OpenSettingsKeeps ==
    ASSUME NEW p, Processes = {p}, StoreInv, SettingsInv, OpenTmp(p) \/ WriteTmp(p)
    PROVE  SettingsInv'
<1>1. /\ op[p].pc \in {"open", "write"}
      /\ disk' = disk /\ commands' = commands /\ applied' = applied
      /\ \/ /\ op' = [op EXCEPT ![p].pc = "write"]
            /\ tmp' = [tmp EXCEPT ![op[p].store] = Partial]
         \/ /\ op' = [op EXCEPT ![p].pc = "rename"]
            /\ tmp' = [tmp EXCEPT ![op[p].store] = op[p].new]
  BY DEF OpenTmp, WriteTmp, At, GoTo
<1>2. /\ op'[p].pc \in {"write", "rename"} /\ op'[p].store = op[p].store
      /\ op'[p].new = op[p].new /\ op'[p].reindex = op[p].reindex
      /\ op'[p].pc = "rename" /\ op[p].store = "settings" => tmp'["settings"] = op[p].new
  BY <1>1 DEF StoreInv, Shapes, Stores
<1>3. LoadSettings' = LoadSettings /\ (SettingsReadable' <=> SettingsReadable)
  BY <1>1 DEF LoadSettings, SettingsReadable
<1>4. LocationsConsistent'
  BY <1>3 DEF SettingsInv, LocationsConsistent
<1>5. SavingSettings'
  BY <1>1, <1>2, <1>3 DEF SettingsInv, SavingSettings
<1>6. Telling' /\ Informed'
  BY <1>1, <1>2, <1>3 DEF SettingsInv, Telling, Informed
<1> QED
  BY <1>1, <1>4, <1>5, <1>6 DEF SettingsInv

LEMMA RenameSettingsKeeps ==
    ASSUME NEW p, Processes = {p}, StoreInv, SettingsInv, RenameTmp(p)
    PROVE  SettingsInv'
<1> DEFINE new == op[p].new
<1>1. op[p].pc = "rename" /\ commands' = commands /\ applied' = applied
  BY DEF RenameTmp, At
<1>2. commands \in 0 .. (MaxCommands + 1)
  BY StoresAssumption DEF StoreInv, Shapes
<1>3. CASE op[p].store # "settings"
  <2>1. /\ disk'["settings"] = disk["settings"]
        /\ op' = [op EXCEPT ![p] = Idle]
    BY <1>1, <1>3 DEF RenameTmp, Done, GoTo, StoreInv, Shapes, Stores, SettingsInv, SavingSettings
  <2>2. op'[p].pc = "idle"
    BY <2>1 DEF StoreInv, Shapes, Idle, Stage
  <2> QED
    BY <1>1, <2>1, <2>2, OtherKeeps
<1>4. CASE op[p].store = "settings"
  <2>1. /\ SettingsReadable
        /\ new \in CurrentSettings(Known(commands)) /\ Consistent(new)
        /\ op[p].reindex \/ SameScope(new, LoadSettings)
        /\ tmp["settings"] = new
    BY <1>1, <1>4 DEF SettingsInv, SavingSettings
  <2>2. new # Absent /\ new # Garbage /\ new \in StoredSettings(Known(commands))
    BY <1>2, <2>1, CurrentFile
  <2>3. /\ disk' = [disk EXCEPT !["settings"] = new]
        /\ IF op[p].reindex THEN op' = [op EXCEPT ![p].pc = "reindex"] ELSE op' = [op EXCEPT ![p] = Idle]
    BY <1>1, <1>4, <2>1, <2>2 DEF RenameTmp, Done, GoTo
  <2>4. disk'["settings"] = new
    BY <2>3 DEF StoreInv, Shapes, Stores
  <2>5. /\ op[p].reindex => op'[p].pc = "reindex" /\ op'[p].new = new
        /\ ~op[p].reindex => op'[p].pc = "idle"
    BY <2>3 DEF StoreInv, Shapes, Idle, Stage
  <2>6. LoadSettings' = MigrateSettingsJson(new) /\ SettingsReadable'
    BY <2>2, <2>4 DEF LoadSettings, SettingsReadable
  <2>7. SameScope(LoadSettings', new) /\ Consistent(LoadSettings')
    BY <2>1, <2>6, MigratedSame
  <2>8. LocationsConsistent'
    BY <2>7 DEF LocationsConsistent
  <2>9. SavingSettings' /\ Telling'
    BY <1>1, <2>1, <2>4, <2>5 DEF SavingSettings, Telling
  <2>10. Informed'
    <3>1. CASE op[p].reindex
      BY <1>1, <2>5, <3>1 DEF SettingsInv, Informed
    <3>2. CASE ~op[p].reindex
      <4>1. SameScope(LoadSettings', LoadSettings)
        BY <2>1, <2>7, <3>2 DEF SameScope
      <4>2. Agrees(applied[p], LoadSettings)
        BY <1>1, <2>1 DEF SettingsInv, Informed
      <4>3. Agrees(applied'[p], LoadSettings')
        BY <1>1, <4>1, <4>2 DEF Agrees, SameScope
      <4> QED
        BY <1>1, <4>3 DEF SettingsInv, Informed
    <3> QED
      BY <3>1, <3>2
  <2> QED
    BY <1>1, <2>2, <2>4, <2>8, <2>9, <2>10 DEF SettingsInv
<1> QED
  BY <1>3, <1>4

LEMMA TriggerSettingsKeeps ==
    ASSUME NEW p, Processes = {p}, StoreInv, SettingsInv, TriggerReindex(p)
    PROVE  SettingsInv'
<1> DEFINE new == op[p].new
<1>1. /\ op[p].pc = "reindex" /\ commands' = commands /\ disk' = disk
      /\ applied' = [applied EXCEPT ![p] = new] /\ op' = [op EXCEPT ![p] = Idle]
  BY DEF TriggerReindex, At, Done
<1>2. disk["settings"] = new /\ new \in CurrentSettings(Known(commands))
  BY <1>1 DEF SettingsInv, Telling
<1>3. op'[p].pc = "idle"
  BY <1>1 DEF StoreInv, Shapes, Idle, Stage
<1>4. LoadSettings' = LoadSettings /\ (SettingsReadable' <=> SettingsReadable)
  BY <1>1 DEF LoadSettings, SettingsReadable
<1>5. Agrees(new, LoadSettings)
  <2>1. commands \in 0 .. (MaxCommands + 1)
    BY StoresAssumption DEF StoreInv, Shapes
  <2>2. LoadSettings = MigrateSettingsJson(new)
    BY <1>2, <2>1, CurrentFile DEF LoadSettings
  <2> QED
    BY <1>2, <2>2, MigratedSame DEF Agrees, SameScope
<1>6. applied' = [q \in Processes |-> applied'[q]] /\ applied'[p] = new
  BY <1>1 DEF SettingsInv, Informed
<1>7. LocationsConsistent' /\ SavingSettings' /\ Telling' /\ Informed'
  BY <1>3, <1>4, <1>5, <1>6 DEF SettingsInv, LocationsConsistent, SavingSettings, Telling, Informed
<1> QED
  BY <1>1, <1>7 DEF SettingsInv

LEMMA InitSettings ==
    ASSUME NEW p, Processes = {p}, Init
    PROVE  SettingsInv
<1>1. PICK settings \in InitialSettings, views \in InitialViews :
          disk = [s \in Stores |-> CASE s = "settings" -> settings
                                     [] s = "views" -> views
                                     [] OTHER -> Absent]
  BY DEF Init
<1>2. /\ disk["settings"] = settings /\ op[p] = Idle
      /\ applied = [q \in Processes |-> StartSettings]
  BY <1>1 DEF Init, Stores
<1>3. settings \in {Absent, Garbage} \cup StoredSettings(Known(commands))
  <2>1. Ids \subseteq Known(commands)
    BY DEF Known
  <2> QED
    BY <2>1, StoredGrow, StoresAssumption
<1>4. SettingsReadable => Consistent(LoadSettings) /\ LoadSettings \in CurrentSettings(Known(commands))
  <2>1. CASE settings = Absent
    BY <1>2, <2>1, DefaultTyped DEF LoadSettings
  <2>2. CASE settings \notin {Absent, Garbage}
    BY <1>2, <1>3, <2>2, MigratedTyped, StoresAssumption DEF LoadSettings
  <2>3. CASE settings = Garbage
    BY <1>2, <2>3 DEF SettingsReadable
  <2> QED
    BY <2>1, <2>2, <2>3
<1>5. SavingSettings /\ Telling
  BY <1>2 DEF SavingSettings, Telling, Idle, Stage
<1>6. Informed
  <2>1. SettingsReadable => Agrees(StartSettings, LoadSettings)
    <3> HIDE DEF LoadSettings
    <3> QED
      BY <1>4 DEF StartSettings, DeactivateMissingActiveProject, Agrees, CurrentSettings
  <2> QED
    BY <1>2, <2>1 DEF Informed
<1> QED
  BY <1>2, <1>3, <1>4, <1>5, <1>6 DEF SettingsInv, LocationsConsistent

\* What the steps of the other stores, failures and the end of the process leave alone.
LEMMA OtherSteps ==
    ASSUME NEW p, Processes = {p}, StoreInv, SettingsInv,
           \/ \E store, new : store # "settings" /\ Begin(p, store, new, FALSE)
           \/ ResetStore(p) \/ ClaimBackup(p) \/ WriteBackup(p) \/ RemoveOriginal(p)
           \/ StepFails(p) \/ Crash(p)
    PROVE  SettingsInv'
<1> USE DEF At, GoTo, Done, Idle, Stage
<1>1. CASE \E store, new : store # "settings" /\ Begin(p, store, new, FALSE)
  <2>1. PICK store, new : store # "settings" /\ Begin(p, store, new, FALSE)
    BY <1>1
  <2>2. /\ commands' = commands + 1 /\ disk' = disk /\ applied' = applied /\ op[p].pc = "idle"
        /\ op' = [op EXCEPT ![p] = [pc |-> "open", store |-> store, new |-> new,
                                    reindex |-> FALSE, backup |-> 0]]
    BY <2>1 DEF Begin, Stage
  <2>3. op'[p].pc = "open" /\ op'[p].store = store /\ op'[p].reindex = FALSE
    BY <2>2, OpBegun DEF StoreInv
  <2> QED
    BY <2>1, <2>2, <2>3, OtherKeeps
<1>2. CASE ResetStore(p)
  <2> DEFINE pc == IF disk["views"] = Absent THEN "open" ELSE "claim"
  <2>1. /\ commands' = commands + 1 /\ disk' = disk /\ applied' = applied /\ op[p].pc = "idle"
        /\ op' = [op EXCEPT ![p] = [pc |-> pc, store |-> "views", new |-> Views(disk["views"]),
                                    reindex |-> FALSE, backup |-> 0]]
    BY <1>2 DEF ResetStore, Stage
  <2>2. op'[p] = [pc |-> pc, store |-> "views", new |-> Views(disk["views"]),
                  reindex |-> FALSE, backup |-> 0]
    BY <2>1, OpBegun DEF StoreInv
  <2>3. op'[p].pc \in {"open", "claim"} /\ op'[p].store = "views" /\ op'[p].reindex = FALSE
    BY <2>2
  <2> QED
    BY <2>1, <2>2, <2>3, OtherKeeps
<1>3. CASE ClaimBackup(p) \/ WriteBackup(p)
  <2>1. /\ commands' = commands /\ disk' = disk /\ applied' = applied /\ op[p].pc # "reindex"
        /\ \/ op' = [op EXCEPT ![p].pc = "backup", ![p].backup = Len(backups')]
           \/ op' = [op EXCEPT ![p].pc = "remove"]
    BY <1>3 DEF ClaimBackup, WriteBackup
  <2>2. op'[p].pc \in {"backup", "remove"}
    BY <2>1, OpMoved DEF StoreInv
  <2> QED
    BY <2>1, <2>2, OtherKeeps
<1>4. CASE RemoveOriginal(p)
  <2>1. /\ commands' = commands /\ applied' = applied /\ op[p].pc # "reindex"
        /\ disk' = [disk EXCEPT !["views"] = Absent]
        /\ op' = [op EXCEPT ![p] = [pc |-> "open", store |-> "views", new |-> EmptyViews,
                                    reindex |-> FALSE, backup |-> 0]]
    BY <1>4 DEF RemoveOriginal, Stage
  <2>2. /\ op'[p].pc = "open" /\ op'[p].store = "views" /\ op'[p].reindex = FALSE
        /\ disk'["settings"] = disk["settings"]
    BY <2>1, OpBegun DEF StoreInv, Shapes, Stores
  <2> QED
    BY <2>1, <2>2, OtherKeeps
<1>5. CASE StepFails(p)
  <2>1. /\ commands' = commands /\ disk' = disk /\ applied' = applied /\ op[p].pc # "reindex"
        /\ op' = [op EXCEPT ![p] = Idle]
    BY <1>5 DEF StepFails
  <2>2. op'[p].pc = "idle"
    BY <2>1 DEF StoreInv, Shapes
  <2> QED
    BY <2>1, <2>2, OtherKeeps
<1>6. CASE Crash(p)
  <2>1. /\ commands' = commands /\ disk' = disk /\ applied' = [applied EXCEPT ![p] = StartSettings]
        /\ op' = [op EXCEPT ![p] = Idle]
    BY <1>6 DEF Crash
  <2>2. op'[p].pc = "idle"
    BY <2>1 DEF StoreInv, Shapes
  <2> QED
    BY <2>1, <2>2, OtherKeeps
<1> QED
  BY <1>1, <1>2, <1>3, <1>4, <1>5, <1>6

LEMMA UntouchedSettings ==
    ASSUME StoreInv, SettingsInv, disk'["settings"] = disk["settings"],
           UNCHANGED <<tmp, op, applied, commands>>
    PROVE  SettingsInv'
<1>1. LoadSettings' = LoadSettings /\ (SettingsReadable' <=> SettingsReadable)
  BY DEF LoadSettings, SettingsReadable
<1>2. SavingSettings' /\ Telling' /\ Informed'
  BY <1>1 DEF SettingsInv, SavingSettings, Telling, Informed
<1> QED
  BY <1>1, <1>2 DEF SettingsInv, LocationsConsistent

LEMMA SettingsStep ==
    ASSUME NEW p, Processes = {p}, StoreInv, SettingsInv, [Next]_vars
    PROVE  SettingsInv'
<1>1. CASE SettingsCommand(p)
  BY <1>1, SettingsGood, BeginSettingsKeeps
<1>2. CASE TemplatesCommand(p)
  BY <1>2, TemplatesBegin, OtherSteps
<1>3. CASE ViewsCommand(p)
  BY <1>3, ViewsBegin, OtherSteps
<1>4. CASE OpenTmp(p) \/ WriteTmp(p)
  BY <1>4, OpenSettingsKeeps
<1>5. CASE RenameTmp(p)
  BY <1>5, RenameSettingsKeeps
<1>6. CASE TriggerReindex(p)
  BY <1>6, TriggerSettingsKeeps
<1>7. CASE \/ ClaimBackup(p) \/ WriteBackup(p) \/ RemoveOriginal(p)
           \/ StepFails(p) \/ Crash(p)
  BY <1>7, OtherSteps
<1>8. CASE \E path \in DOMAIN Canonical : ToggleFolder(Canonical[path])
  BY <1>8, UntouchedSettings DEF ToggleFolder
<1>9. CASE \E content \in ForeignViews : ReplaceViews(content)
  BY <1>9, UntouchedSettings DEF ReplaceViews, StoreInv, Shapes, Stores
<1>10. CASE UNCHANGED vars
  BY <1>10, UntouchedSettings DEF vars
<1> QED
  BY <1>1, <1>2, <1>3, <1>4, <1>5, <1>6, <1>7, <1>8, <1>9, <1>10 DEF Next, Steps

LEMMA StoresInductive ==
    ASSUME NEW p, Processes = {p}
    PROVE  Spec => [](StoreInv /\ SettingsInv)
<1>1. Init => StoreInv /\ SettingsInv
  BY InitHolds, InitSettings
<1>2. StoreInv /\ SettingsInv /\ [Next]_vars => StoreInv' /\ SettingsInv'
  BY StepImplements, SettingsStep
<1> QED
  BY <1>1, <1>2, PTL DEF Spec

\* However often folders are added under several spellings, removed while active or come
\* and go, and wherever a command is cut short, the settings file names no folder twice
\* and no active project that is not registered (services/project_settings.rs).
THEOREM LocationsAlwaysConsistent ==
    ASSUME NEW p, Processes = {p}
    PROVE  Spec => []LocationsConsistent
<1>1. SettingsInv => LocationsConsistent
  BY DEF SettingsInv
<1> QED
  BY <1>1, StoresInductive, PTL

\* Whenever no command runs, the watchers and the index were last told of the settings
\* the file holds: no failed write, no end of the process between the rename and the
\* news of it, and no change that spares the index leaves them behind
\* (commands/settings.rs, trigger_settings_reindex).
THEOREM IndexAlwaysKnowsSettings ==
    ASSUME NEW p, Processes = {p}
    PROVE  Spec => []IndexKnowsSettings
<1>1. SettingsInv => IndexKnowsSettings
  BY DEF SettingsInv, Informed, IndexKnowsSettings, At
<1> QED
  BY <1>1, StoresInductive, PTL

-----------------------------------------------------------------------------
(* What the files hold *)

\* What is about to replace the views or the templates is well formed.
SavingSound ==
    \A p \in Processes : op[p].pc \in {"open", "write", "rename"} =>
        /\ op[p].store = "views" => NamesDistinct(op[p].new.views)
        /\ op[p].store = "templates" =>
               /\ op[p].new \in TemplateStores
               /\ op[p].pc = "rename" => tmp["templates"] = op[p].new

SoundInv ==
    /\ faults \in 0 .. MaxFaults
    /\ \A p \in Processes : op[p].pc \in {"idle", "open", "write", "rename", "reindex",
                                          "claim", "backup", "remove"}
    /\ disk["templates"] \in {Absent} \cup TemplateStores
    /\ Ready(disk["views"]) => NamesDistinct(Views(disk["views"]).views)
    /\ SavingSound

\* What a command is to show of the content it writes.
Sound(store, new) ==
    /\ store = "views" => NamesDistinct(new.views)
    /\ store = "templates" => new \in TemplateStores

LEMMA NameAdded ==
    ASSUME NEW views, NEW id, NEW view, NamesDistinct(views),
           \A w \in DOMAIN views \ {id} : views[w].target = view.target => views[w].name # view.name
    PROVE  NamesDistinct(With(views, id, view))
  BY DEF NamesDistinct, With

LEMMA CreateSound ==
    ASSUME StoreInv, SoundInv, NEW p, NEW target \in Targets, NEW name \in Names,
           CreateView(p, target, name)
    PROVE  \E new : Begin(p, "views", new, FALSE) /\ Sound("views", new)
<1> DEFINE o == Views(disk["views"])
           id == <<p, commands>>
           view == [target |-> target, name |-> Trim[name], hidden |-> FALSE]
           views == With(o.views, id, view)
           new == [o EXCEPT !.views = views]
<1>1. /\ Ready(disk["views"]) /\ Trim[name] # Blank /\ SaveViews(p, new)
      /\ ~NameConflicts(o.views, target, Trim[name], {})
  BY DEF CreateView, ReadStoreForMutation
<1>2. Trim[Trim[name]] = Trim[name]
  BY <1>1, StoresAssumption
<1>3. \A w \in DOMAIN o.views : o.views[w].target = target => o.views[w].name # Trim[name]
  BY <1>1, <1>2 DEF NameConflicts
<1>4. NamesDistinct(views)
  <2>1. NamesDistinct(o.views)
    BY <1>1 DEF SoundInv
  <2> HIDE DEF o
  <2> QED
    BY <1>3, <2>1, NameAdded
<1>5. new.views = views
  <2>1. o \in ViewStores(Known(commands))
    BY <1>1, Current
  <2> HIDE DEF views, o
  <2> QED
    BY <2>1 DEF ViewStores
<1> QED
  BY <1>1, <1>4, <1>5 DEF SaveViews, Sound

LEMMA UpdateSound ==
    ASSUME StoreInv, SoundInv, NEW p, NEW id \in DOMAIN Views(disk["views"]).views,
           NEW name \in Names \cup {Keep}, NEW hidden, UpdateView(p, id, name, hidden)
    PROVE  \E new : Begin(p, "views", new, FALSE) /\ Sound("views", new)
<1> DEFINE o == Views(disk["views"])
           view == Updated(o.views[id], name, hidden)
           views == With(o.views, id, view)
           new == [o EXCEPT !.views = views]
<1>1. /\ Ready(disk["views"]) /\ SaveViews(p, new)
      /\ name # Keep => /\ Trim[name] # Blank
                        /\ ~NameConflicts(o.views, o.views[id].target, Trim[name], {id})
  BY DEF UpdateView, ReadStoreForMutation
<1>2. name # Keep => Trim[Trim[name]] = Trim[name]
  BY <1>1, StoresAssumption
<1>3. NamesDistinct(o.views)
  BY <1>1 DEF SoundInv
<1>4. /\ view.target = o.views[id].target
      /\ view.name = IF name = Keep THEN o.views[id].name ELSE Trim[name]
  BY DEF Updated
<1>5. \A w \in DOMAIN o.views \ {id} : o.views[w].target = view.target => o.views[w].name # view.name
  <2> HIDE DEF o, view
  <2>1. CASE name = Keep
    <3>1. id \in DOMAIN o.views
      BY DEF o
    <3> QED
      BY <1>3, <1>4, <2>1, <3>1 DEF NamesDistinct
  <2>2. CASE name # Keep
    BY <1>1, <1>2, <1>4, <2>2 DEF NameConflicts
  <2> QED
    BY <2>1, <2>2
<1>6. NamesDistinct(views)
  <2> HIDE DEF o, view
  <2> QED
    BY <1>3, <1>5, NameAdded
<1>7. new.views = views
  <2>1. o \in ViewStores(Known(commands))
    BY <1>1, Current
  <2> HIDE DEF views, o
  <2> QED
    BY <2>1 DEF ViewStores
<1> QED
  BY <1>1, <1>6, <1>7 DEF SaveViews, Sound

LEMMA DeleteSound ==
    ASSUME StoreInv, SoundInv, NEW p, NEW id, DeleteView(p, id)
    PROVE  \E new : Begin(p, "views", new, FALSE) /\ Sound("views", new)
<1> DEFINE o == Views(disk["views"])
           views == Without(o.views, id)
           new == [o EXCEPT !.views = views]
<1>1. Ready(disk["views"]) /\ SaveViews(p, new)
  BY DEF DeleteView, ReadStoreForMutation
<1>2. NamesDistinct(views)
  BY <1>1 DEF SoundInv, NamesDistinct, Without
<1>3. new.views = views
  <2>1. o \in ViewStores(Known(commands))
    BY <1>1, Current
  <2> HIDE DEF views, o
  <2> QED
    BY <2>1 DEF ViewStores
<1> QED
  BY <1>1, <1>2, <1>3 DEF SaveViews, Sound

LEMMA SelectSound ==
    ASSUME StoreInv, SoundInv, NEW p, NEW target, NEW view, SetLastSelected(p, target, view)
    PROVE  \E new : Begin(p, "views", new, FALSE) /\ Sound("views", new)
<1> DEFINE o == Views(disk["views"])
           last == With(o.last, target, view)
           new == [o EXCEPT !.last = last]
<1>1. Ready(disk["views"]) /\ SaveViews(p, new)
  BY DEF SetLastSelected, ReadStoreForMutation
<1>2. new.views = o.views
  <2>1. o \in ViewStores(Known(commands))
    BY <1>1, Current
  <2> HIDE DEF last, o
  <2> QED
    BY <2>1 DEF ViewStores
<1> QED
  BY <1>1, <1>2 DEF SaveViews, Sound, SoundInv

LEMMA TemplatesSound ==
    ASSUME StoreInv, SoundInv, NEW p \in Processes, TemplatesCommand(p)
    PROVE  \E new : Begin(p, "templates", new, FALSE) /\ Sound("templates", new)
<1>1. commands \in 0 .. MaxCommands
  BY DEF StoreInv, Shapes
<1>2. Templates \in TemplateStores
  BY DEF SoundInv, Templates, EmptyTemplates, TemplateStores
<1>3. CASE SaveTemplate(p)
  <2> DEFINE new == [version |-> CurrentVersion,
                     templates |-> Templates.templates \cup {<<p, commands>>}]
  <2>1. new \in TemplateStores
    BY <1>1, <1>2 DEF TemplateStores
  <2>2. Begin(p, "templates", new, FALSE)
    BY <1>3, Zenon DEF SaveTemplate
  <2> QED
    BY <2>1, <2>2 DEF Sound
<1>4. CASE \E id \in Templates.templates : DeleteTemplate(p, id)
  <2>1. PICK id \in Templates.templates : DeleteTemplate(p, id)
    BY <1>4
  <2> DEFINE new == [Templates EXCEPT !.templates = @ \ {id}]
  <2>2. new \in TemplateStores
    BY <1>2 DEF TemplateStores
  <2>3. Begin(p, "templates", new, FALSE)
    BY <2>1, Zenon DEF DeleteTemplate
  <2> QED
    BY <2>2, <2>3 DEF Sound
<1> QED
  BY <1>3, <1>4 DEF TemplatesCommand

LEMMA BeginSound ==
    ASSUME NEW p, Processes = {p}, StoreInv, SoundInv, NEW store, NEW new, NEW reindex,
           Begin(p, store, new, reindex), Sound(store, new)
    PROVE  SoundInv'
<1>1. /\ disk' = disk /\ faults' = faults
      /\ op' = [op EXCEPT ![p] = [pc |-> "open", store |-> store, new |-> new,
                                  reindex |-> reindex, backup |-> 0]]
  BY DEF Begin, Stage
<1>2. op'[p].pc = "open" /\ op'[p].store = store /\ op'[p].new = new
  BY <1>1, OpBegun DEF StoreInv
<1> QED
  BY <1>1, <1>2 DEF SoundInv, SavingSound, Sound

\* Nothing is written, and no command is about to write anything else than before.
LEMMA QuietSound ==
    ASSUME NEW p, Processes = {p}, SoundInv, disk' = disk, faults' \in 0 .. MaxFaults,
           op'[p].pc \in {"idle", "reindex", "claim", "backup", "remove"}
    PROVE  SoundInv'
  BY DEF SoundInv, SavingSound

LEMMA StepSound ==
    ASSUME NEW p, Processes = {p}, StoreInv, SoundInv, [Next]_vars
    PROVE  SoundInv'
<1> USE DEF At, GoTo, Done, Idle, Stage
<1>1. CASE SettingsCommand(p)
  <2>1. PICK new, reindex : Begin(p, "settings", new, reindex)
    BY <1>1, SettingsBegin
  <2> QED
    BY <2>1, BeginSound DEF Sound
<1>2. CASE TemplatesCommand(p)
  BY <1>2, TemplatesSound, BeginSound
<1>3. CASE ViewsCommand(p)
  <2>1. CASE ResetStore(p)
    <3>1. /\ disk' = disk /\ faults' = faults
          /\ op' = [op EXCEPT ![p] = [pc |-> IF disk["views"] = Absent THEN "open" ELSE "claim",
                                      store |-> "views", new |-> Views(disk["views"]),
                                      reindex |-> FALSE, backup |-> 0]]
      BY <2>1 DEF ResetStore, Stage
    <3>2. /\ op'[p].pc = IF disk["views"] = Absent THEN "open" ELSE "claim"
          /\ op'[p].store = "views" /\ op'[p].new = Views(disk["views"])
      <4>1. op'[p] = [pc |-> IF disk["views"] = Absent THEN "open" ELSE "claim",
                      store |-> "views", new |-> Views(disk["views"]),
                      reindex |-> FALSE, backup |-> 0]
        BY <3>1, OpBegun DEF StoreInv
      <4> QED
        BY <4>1
    <3>3. disk["views"] = Absent => NamesDistinct(Views(disk["views"]).views)
      BY DEF Views, EmptyViews, NamesDistinct
    <3> QED
      BY <3>1, <3>2, <3>3 DEF SoundInv, SavingSound
  <2>2. CASE \E new : Begin(p, "views", new, FALSE) /\ Sound("views", new)
    BY <2>2, BeginSound
  <2> QED
    BY <1>3, <2>1, <2>2, CreateSound, UpdateSound, DeleteSound, SelectSound, Zenon DEF ViewsCommand
<1>4. CASE OpenTmp(p) \/ WriteTmp(p)
  <2>1. /\ op[p].pc \in {"open", "write"} /\ disk' = disk /\ faults' = faults
        /\ \/ /\ op' = [op EXCEPT ![p].pc = "write"]
           \/ /\ op' = [op EXCEPT ![p].pc = "rename"]
              /\ tmp' = [tmp EXCEPT ![op[p].store] = op[p].new]
    BY <1>4 DEF OpenTmp, WriteTmp
  <2>2. /\ op'[p].pc \in {"write", "rename"}
        /\ op'[p].store = op[p].store /\ op'[p].new = op[p].new
        /\ op'[p].pc = "rename" /\ op[p].store = "templates" => tmp'["templates"] = op[p].new
    BY <2>1 DEF StoreInv, Shapes, Stores
  <2> QED
    BY <2>1, <2>2 DEF SoundInv, SavingSound
<1>5. CASE RenameTmp(p)
  <2>1. op[p].pc = "rename" /\ faults' = faults
    BY <1>5 DEF RenameTmp
  <2>2. op'[p].pc \in {"idle", "reindex"}
    BY <1>5 DEF RenameTmp, StoreInv, Shapes
  <2>3. disk' = disk \/ disk' = [disk EXCEPT ![op[p].store] = tmp[op[p].store]]
    BY <1>5 DEF RenameTmp
  <2>4. disk'["templates"] \in {Absent} \cup TemplateStores
    BY <2>1, <2>3 DEF SoundInv, SavingSound, StoreInv, Shapes, Stores
  <2>5. Ready(disk'["views"]) => NamesDistinct(Views(disk'["views"]).views)
    <3>1. CASE disk'["views"] = disk["views"]
      BY <3>1 DEF SoundInv
    <3>2. CASE disk'["views"] # disk["views"]
      <4>1. op[p].store = "views" /\ disk'["views"] = tmp["views"]
        BY <2>3, <3>2 DEF StoreInv, Shapes, Stores
      <4>2. tmp["views"] = op[p].new /\ op[p].new \in ViewStores(Known(commands))
        BY <2>1, <4>1 DEF StoreInv, Writing
      <4>3. op[p].new # Absent
        <5>1. commands \in 0 .. (MaxCommands + 1)
          BY StoresAssumption DEF StoreInv, Shapes
        <5> QED
          BY <4>2, <5>1, KnownBounded
      <4> QED
        BY <2>1, <4>1, <4>2, <4>3 DEF SoundInv, SavingSound, Views
    <3> QED
      BY <3>1, <3>2
  <2> QED
    BY <2>1, <2>2, <2>4, <2>5 DEF SoundInv, SavingSound
<1>6. CASE TriggerReindex(p)
  <2>1. disk' = disk /\ faults' = faults /\ op'[p].pc = "idle"
    BY <1>6 DEF TriggerReindex, StoreInv, Shapes
  <2> QED
    BY <2>1, QuietSound DEF SoundInv
<1>7. CASE ClaimBackup(p) \/ WriteBackup(p)
  <2>1. /\ disk' = disk /\ faults' = faults
        /\ \/ op' = [op EXCEPT ![p].pc = "backup", ![p].backup = Len(backups')]
           \/ op' = [op EXCEPT ![p].pc = "remove"]
    BY <1>7 DEF ClaimBackup, WriteBackup
  <2>2. op'[p].pc \in {"backup", "remove"}
    BY <2>1, OpMoved DEF StoreInv
  <2> QED
    BY <2>1, <2>2, QuietSound DEF SoundInv
<1>8. CASE RemoveOriginal(p)
  <2>1. /\ faults' = faults /\ disk' = [disk EXCEPT !["views"] = Absent]
        /\ op' = [op EXCEPT ![p] = [pc |-> "open", store |-> "views", new |-> EmptyViews,
                                    reindex |-> FALSE, backup |-> 0]]
    BY <1>8 DEF RemoveOriginal, Stage
  <2>2. /\ op'[p].pc = "open" /\ op'[p].store = "views" /\ op'[p].new = EmptyViews
        /\ disk'["templates"] = disk["templates"] /\ disk'["views"] = Absent
    BY <2>1, OpBegun DEF StoreInv, Shapes, Stores
  <2>3. NamesDistinct(EmptyViews.views)
    BY DEF EmptyViews, NamesDistinct
  <2> QED
    BY <2>1, <2>2, <2>3 DEF SoundInv, SavingSound, Views
<1>9. CASE StepFails(p) \/ Crash(p)
  <2>1. disk' = disk /\ faults < MaxFaults /\ faults' = faults + 1 /\ op' = [op EXCEPT ![p] = Idle]
    BY <1>9 DEF StepFails, Crash
  <2>2. op'[p].pc = "idle"
    BY <2>1 DEF StoreInv, Shapes
  <2>3. faults' \in 0 .. MaxFaults
    BY <2>1, StoresAssumption DEF SoundInv
  <2> QED
    BY <2>1, <2>2, <2>3, QuietSound
<1>10. CASE \E path \in DOMAIN Canonical : ToggleFolder(Canonical[path])
  <2>1. UNCHANGED <<disk, tmp, op>> /\ faults < MaxFaults /\ faults' = faults + 1
    BY <1>10 DEF ToggleFolder
  <2> QED
    BY <2>1, StoresAssumption DEF SoundInv, SavingSound
<1>11. CASE \E content \in ForeignViews : ReplaceViews(content)
  <2>1. PICK content \in ForeignViews : ReplaceViews(content)
    BY <1>11
  <2>2. /\ disk' = [disk EXCEPT !["views"] = content] /\ op' = op /\ op[p].pc = "idle"
        /\ faults < MaxFaults /\ faults' = faults + 1
    BY <2>1 DEF ReplaceViews
  <2>3. disk'["templates"] = disk["templates"] /\ disk'["views"] = content
    BY <2>2 DEF StoreInv, Shapes, Stores
  <2>4. faults' \in 0 .. MaxFaults
    BY <2>2, StoresAssumption DEF SoundInv
  <2> QED
    BY <2>2, <2>3, <2>4, FilesNamed DEF SoundInv, SavingSound
<1>12. CASE UNCHANGED vars
  BY <1>12 DEF vars, SoundInv, SavingSound
<1> QED
  BY <1>1, <1>2, <1>3, <1>4, <1>5, <1>6, <1>7, <1>8, <1>9, <1>10, <1>11, <1>12 DEF Next, Steps

LEMMA InitSound ==
    ASSUME NEW p, Processes = {p}, Init
    PROVE  SoundInv
<1>1. PICK settings \in InitialSettings, views \in InitialViews :
          disk = [s \in Stores |-> CASE s = "settings" -> settings
                                     [] s = "views" -> views
                                     [] OTHER -> Absent]
  BY DEF Init
<1>2. disk["views"] = views /\ disk["templates"] = Absent
  BY <1>1 DEF Stores
<1>3. op[p].pc = "idle" /\ faults \in 0 .. MaxFaults
  BY StoresAssumption DEF Init, Idle, Stage
<1> QED
  BY <1>2, <1>3, FilesNamed DEF SoundInv, SavingSound

\* Whatever is cut short or put there by someone else, no file of the application is
\* ever left half written, and the views listed for a target have distinct names
\* (form_views/store.rs, create_view_in and update_view_in).
THEOREM StoresAlwaysSound ==
    ASSUME NEW p, Processes = {p}
    PROVE  Spec => []StoresSound
<1>1. Init => SoundInv
  BY InitSound
<1>2. StoreInv /\ SoundInv /\ [Next]_vars => SoundInv'
  BY StepSound
<1>3. StoreInv /\ SettingsInv /\ SoundInv => StoresSound
  <2> SUFFICES ASSUME StoreInv, SettingsInv, SoundInv PROVE StoresSound
    OBVIOUS
  <2>1. commands \in 0 .. MaxCommands /\ commands \in 0 .. (MaxCommands + 1)
    BY StoresAssumption DEF StoreInv, Shapes
  <2>2. Known(commands) \subseteq AllIds
    BY <2>1, StoresAssumption DEF Known, AllIds
  <2>3. disk["settings"] # Partial
    BY <2>2, StoredGrow, StoresAssumption DEF SettingsInv
  <2>4. disk["views"] # Partial
    BY <2>1, KnownBounded DEF StoreInv, FileTyped
  <2>5. disk["templates"] # Partial
    BY StoresAssumption DEF SoundInv
  <2>6. StoresTypeOK
    BY <2>1, <2>3, <2>4, <2>5 DEF StoresTypeOK, SoundInv, Stores
  <2>7. ViewsDistinct
    BY DEF ViewsDistinct, SoundInv, ListViews, NamesDistinct
  <2> QED
    BY <2>6, <2>7 DEF StoresSound
<1> QED
  BY <1>1, <1>2, <1>3, StoresInductive, PTL DEF Spec

=============================================================================
