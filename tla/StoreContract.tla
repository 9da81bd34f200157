----------------------------- MODULE StoreContract -----------------------------
(***************************************************************************)
(* What a store file of the application promises its user, without temporary*)
(* files, steps and crashes: it is replaced at once by the effect of one    *)
(* command on what it held, and is only ever emptied after its content was  *)
(* set aside.                                                               *)
(***************************************************************************)
CONSTANTS
    Initial,          \* what the file may hold at first
    Foreign,          \* what a user or another version may put there
    Nothing,          \* no file
    IsEffect(_, _)    \* whether a command makes the second of the first

VARIABLES
    content,  \* what the file holds
    saved     \* the contents set aside

vars == <<content, saved>>

Init == content \in Initial /\ saved = {}

Change == IsEffect(content, content') /\ UNCHANGED saved

SetAside == saved' = saved \cup {content} /\ UNCHANGED content

Discard == content \in saved /\ content' = Nothing /\ UNCHANGED saved

Replace == content' \in Foreign /\ UNCHANGED saved

Next == Change \/ SetAside \/ Discard \/ Replace

Spec == Init /\ [][Next]_vars

=============================================================================
