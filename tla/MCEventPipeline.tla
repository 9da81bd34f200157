---------------------------- MODULE MCEventPipeline ----------------------------
(* A project with a version folder, a shared file name and a sub-folder, and *)
(* a second project.                                                         *)
EXTENDS EventPipeline

Location(id) == [id |-> id, kind |-> "Project", sourceType |-> "LocalMod", readOnly |-> FALSE]

MCLocations == <<Location("proj"), Location("other")>>

MCFileOrder == << <<"other", <<"Defs", "a.xml">>>>,
                  <<"proj", <<"1.6", "Defs", "a.xml">>>>,
                  <<"proj", <<"Defs", "a.xml">>>>,
                  <<"proj", <<"Defs", "sub", "b.xml">>>> >>

MCDirs == << <<"1.6">>, <<"1.6", "Defs">>, <<"Defs">>, <<"Defs", "sub">> >>

MCFolders == { <<"Defs", "sub">> }

\* Only the root is listed: the version folder is not loaded.
MCBlockChoices == { << [key |-> "1.6", entries |-> << <<>> >>] >> }

MCVersions == "1.6" :> 6 @@ "Defs" :> 0

MCDocument ==
    "text1" :> [fatal |-> FALSE, diagnostics |-> 0,
                summaries |-> <<[type |-> "Thing", name |-> "n1"]>>] @@
    "text2" :> [fatal |-> FALSE, diagnostics |-> 1,
                summaries |-> <<[type |-> "Sound", name |-> "n1"],
                                [type |-> "Thing", name |-> NoName],
                                [type |-> "Thing", name |-> "n2"]>>] 

\* Every file there, the version folder's copy missing, the sub-folder's file missing.
MCInitialDisks ==
    {[f \in Range(MCFileOrder) |-> IF f[2] \in missing THEN Gone ELSE "text1"] :
        missing \in {{}, {<<"1.6", "Defs", "a.xml">>}, {<<"Defs", "sub", "b.xml">>}}}
=============================================================================
