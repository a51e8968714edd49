------------------------------ MODULE MCConsole ------------------------------
(***************************************************************************)
(* The three parts of the web console.  They share no variable: a          *)
(* behaviour drives one of them, chosen at the start, and leaves the       *)
(* others as they are.                                                     *)
(***************************************************************************)
EXTENDS CommandCenter, DraftForm, ConsolePages

VARIABLE driven     \* the part this behaviour drives

allVars == <<consoleVars, draftVars, pagesVars, driven>>

Init ==
    /\ driven \in {"command center", "draft form", "pages"}
    /\ ConsoleInit /\ DraftInit /\ PagesInit
    /\ configured => driven = "draft form"

Next ==
    /\ \/ driven = "command center" /\ ConsoleNext /\ UNCHANGED <<draftVars, pagesVars>>
       \/ driven = "draft form" /\ DraftNext /\ UNCHANGED <<consoleVars, pagesVars>>
       \/ driven = "pages" /\ PagesNext /\ UNCHANGED <<consoleVars, draftVars>>
    /\ UNCHANGED driven

\* Nothing that must happen is enabled in the parts a behaviour does not drive.
Spec == Init /\ [][Next]_allVars /\ ConsoleFairness /\ PagesFairness
==============================================================================
