----------------------------- MODULE PlannerNotes -----------------------------
(***************************************************************************)
(* The notes of a planner month (planner-opening.js): the user types while *)
(* a save is under way.  A save that failed for the page is taken to be    *)
(* over on the server too (the request was aborted): it is not stored      *)
(* after a later one.                                                      *)
(***************************************************************************)
CONSTANT Texts

VARIABLES
    stored,     \* the notes of the month
    notes,      \* the text area
    status,     \* the status text
    disabled,   \* of the button
    stage,      \* of the request under way
    savedText   \* what it saves

vars == <<stored, notes, status, disabled, stage, savedText>>

Type(text) ==
    /\ notes' = text
    /\ status' = "Unsaved changes"
    /\ UNCHANGED <<stored, disabled, stage, savedText>>

Submit ==
    /\ ~disabled
    /\ disabled' = TRUE
    /\ savedText' = notes
    /\ status' = "Saving"
    /\ stage' = "sent"
    /\ UNCHANGED <<stored, notes>>

Commit == /\ stage = "sent"
          /\ stored' = savedText
          /\ stage' = "saved"
          /\ UNCHANGED <<notes, status, disabled, savedText>>

\* The finally of the handler.
Over == stage' = "none" /\ disabled' = FALSE /\ UNCHANGED <<stored, notes, savedText>>

\* Mutant: the answer is about the text that is shown.
AlwaysSaved == /\ stage = "saved"
               /\ status' = "Notes saved."
               /\ Over

\* The answer is about the text that was sent.
Answer == /\ stage = "saved"
          /\ status' = IF notes = savedText THEN "Notes saved." ELSE "Unsaved changes"
          /\ Over

\* The save was refused, or the answer is lost or another page.
Fail == /\ stage # "none"
        /\ status' = "Could not save notes."
        /\ Over

Init == /\ stored \in Texts
        /\ notes = stored
        /\ status = ""
        /\ disabled = FALSE
        /\ stage = "none"
        /\ savedText = stored

Next == (\E text \in Texts : Type(text)) \/ Submit \/ Commit \/ Answer \/ Fail

Spec == Init /\ [][Next]_vars

-----------------------------------------------------------------------------
\* The status tells the truth about the text shown: "saved" only of what is stored,
\* "saving" only while a request is under way, and the button is disabled exactly as
\* long (the submit handler compares what it sent with what is typed by then).
StatusIsTrue ==
    /\ status \in {"", "Notes saved."} => notes = stored
    /\ status = "Saving" => stage # "none"
    /\ disabled <=> stage # "none"
=============================================================================
