------------------------------ MODULE MCAppStores ------------------------------
(* One project with two paths to its folder, and a source.                    *)
EXTENDS AppStores

MCProject == <<"proj">>

MCCanonical == "link" :> "home" @@ "home" :> "home" @@ "lib" :> "lib"

MCTrim == "a" :> "a" @@ " a" :> "a" @@ "b" :> "b" @@ " " :> Blank

\* No file, a damaged one, and one of version 1.
MCInitialSettings ==
    {Absent, Garbage,
     [version |-> 1, gameVersion |-> None, locale |-> None, backups |-> None,
      locations |-> Project :> [path |-> "home", kind |-> "Project",
                                sourceType |-> "expansion", readOnly |-> FALSE],
      active |-> Project]}

Stored(version, project) ==
    [version |-> version, project |-> project,
     last |-> [target \in {} |-> "default"],
     views |-> <<"view">> :> [target |-> "t1", name |-> "a", hidden |-> FALSE]]

MCIds == {Project, <<"elsewhere">>, <<"view">>}

MCInitialViews == {Absent, Stored(1, Project)}

MCForeignViews == {Garbage, Stored(2, Project), Stored(1, <<"elsewhere">>)}
=============================================================================
