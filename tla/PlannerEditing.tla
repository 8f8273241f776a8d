---------------------------- MODULE PlannerEditing ----------------------------
(***************************************************************************)
(* The forms of the planner's month page (planner-opening.js) for one      *)
(* account and one planned item: the switch that includes the account, the *)
(* editor of its opening balance, and the button that pauses the item.     *)
(*                                                                         *)
(* Each form saves with a request and replaces parts of the page with      *)
(* those of the answer, which the server renders after it has saved.  The  *)
(* parts contain the other forms, so an answer removes forms whose own     *)
(* request is under way, with their error texts.                           *)
(*                                                                         *)
(* What a part shows is the server's settings it is rendered from.  A save *)
(* that failed for the page before the server carried it out is taken to   *)
(* be over there too: it is not stored after a later one.                  *)
(***************************************************************************)
EXTENDS Naturals

CONSTANTS
    Openings,   \* opening balances; 0 follows the current balance of the account
    MaxSaves    \* bound on requests

VARIABLES
    server,     \* the settings as stored
    page,       \* page[s]: the settings section s was rendered from
    toggle,     \* position of the switch
    editing,    \* the opening editor is shown
    instance,   \* instance[s]: how often section s was replaced
    wired,      \* wired[f]: listeners registered on form f in the page
    busy,       \* busy[f]: its controls are disabled
    error,      \* error[f]: its alert is shown
    saves,      \* requests under way
    sent,       \* requests so far; numbers them
    doubt       \* sections the page cannot vouch for: a save overlapped another, or
                \* its answer was lost

vars == <<server, page, toggle, editing, instance, wired, busy, error, saves, sent, doubt>>

Forms == {"inclusion", "opening", "pause"}

\* The account's row; the item's table; and the summary, chart, notices and
\* account summary, which are replaced together.
Sections == {"row", "table", "shared"}

Home(f) == IF f = "pause" THEN "table" ELSE "row"

\* On is 1, off is 0.
Flip(shown) == 1 - shown

\* The ids that update() replaces; "planner-accounts" contains the rows.
Replaced(f) == IF f = "pause" THEN Sections ELSE {"row", "shared"}

Field(f) == CASE f = "inclusion" -> "include" [] f = "opening" -> "opening" [] f = "pause" -> "paused"

Settings == [include : {0, 1}, opening : Openings, paused : {0, 1}]

\* A table shows its items; closing balances depend on all settings.
Rendered(s, settings) == IF s = "table" THEN <<settings.paused>> ELSE <<settings>>

-----------------------------------------------------------------------------
(* The user.                                                               *)

\* The handlers of submit and change: the control is disabled, the alert hidden and
\* the request sent.
Send(f, value) ==
    /\ wired[f] > 0 /\ ~busy[f]
    /\ sent < MaxSaves
    /\ sent' = sent + 1
    /\ saves' = {[k EXCEPT !.alone = FALSE] : k \in saves} \cup
                {[id |-> sent + 1, form |-> f, instance |-> instance[Home(f)], value |-> value,
                  stage |-> "sent", answer |-> server, alone |-> saves = {}]}
    /\ busy' = [busy EXCEPT ![f] = TRUE]
    /\ error' = [error EXCEPT ![f] = FALSE]
    /\ UNCHANGED <<server, page, instance, wired, doubt>>

Include == /\ toggle' = Flip(toggle)
           /\ Send("inclusion", Flip(toggle))
           /\ UNCHANGED editing

\* The hidden field of the form holds the state to change to.
Pause == /\ Send("pause", Flip(page["table"][1]))
         /\ UNCHANGED <<toggle, editing>>

EditOpening == /\ ~editing /\ ~busy["opening"]
               /\ editing' = TRUE
               /\ UNCHANGED <<server, page, toggle, instance, wired, busy, error, saves, sent, doubt>>

CancelOpening == /\ editing /\ ~busy["opening"]
                 /\ editing' = FALSE
                 /\ error' = [error EXCEPT !["opening"] = FALSE]
                 /\ UNCHANGED <<server, page, toggle, instance, wired, busy, saves, sent, doubt>>

\* Save with an amount, or "Follow current balance".
SaveOpening(value) == /\ editing
                      /\ Send("opening", value)
                      /\ UNCHANGED <<toggle, editing>>

-----------------------------------------------------------------------------
(* The server.                                                             *)

Advance(k, changed) == saves' = (saves \ {k}) \cup {changed}

Commit(k) == /\ k.stage = "sent"
             /\ server' = [server EXCEPT ![Field(k.form)] = k.value]
             /\ Advance(k, [k EXCEPT !.stage = "saved"])
             /\ UNCHANGED <<page, toggle, editing, instance, wired, busy, error, sent, doubt>>

\* The month is read anew for the answer.
Render(k) == /\ k.stage = "saved"
             /\ Advance(k, [k EXCEPT !.stage = "rendered", !.answer = server])
             /\ UNCHANGED <<server, page, toggle, editing, instance, wired, busy, error, sent, doubt>>

-----------------------------------------------------------------------------
(* The answer.                                                             *)

InPage(k) == k.instance = instance[Home(k.form)]

\* Mutant: a switch keeps the position that was refused.
KeepPosition(k) == UNCHANGED toggle

\* A switch goes back to where it was.
TurnBack(k) == toggle' = IF InPage(k) /\ k.form = "inclusion" THEN Flip(toggle) ELSE toggle

\* The catch and finally of a handler, on the form that sent the request: when it
\* was replaced meanwhile nothing of it is seen.
ShowError(k) ==
    /\ saves' = saves \ {k}
    /\ error' = [error EXCEPT ![k.form] = @ \/ InPage(k)]
    /\ busy' = [busy EXCEPT ![k.form] = @ /\ ~InPage(k)]
    /\ TurnBack(k)
    /\ UNCHANGED <<server, page, editing, instance, wired, sent>>

\* A business rule or anything else stopped the save.
Refuse(k) == k.stage = "sent" /\ ShowError(k) /\ UNCHANGED doubt

\* The settings were saved, but the answer is lost, is another page or lacks a part.
LoseAnswer(k) == /\ k.stage # "sent"
                 /\ ShowError(k)
                 /\ doubt' = doubt \cup Replaced(k.form)

\* Mutant: forms are registered again although they were.
RegisterAgain(fresh) == [f \in Forms |-> IF f \in fresh THEN 1 ELSE wired[f] + 1]

\* initialize(): the forms without its mark, the fresh ones, get their listeners.
Initialize(fresh) == [f \in Forms |-> IF f \in fresh THEN 1 ELSE wired[f]]

\* The rest of update().
Apply(k) ==
    LET parts == Replaced(k.form)
        fresh == {f \in Forms : Home(f) \in parts}
    IN /\ k.stage = "rendered"
       /\ saves' = saves \ {k}
       /\ page' = [s \in Sections |-> IF s \in parts THEN Rendered(s, k.answer) ELSE page[s]]
       /\ instance' = [s \in Sections |-> IF s \in parts THEN instance[s] + 1 ELSE instance[s]]
       /\ toggle' = k.answer.include
       /\ editing' = FALSE
       /\ busy' = [f \in Forms |-> busy[f] /\ f \notin fresh]
       /\ error' = [f \in Forms |-> error[f] /\ f \notin fresh]
       /\ wired' = Initialize(fresh)
       /\ doubt' = IF k.alone THEN doubt \ parts ELSE doubt \cup parts
       /\ UNCHANGED <<server, sent>>

-----------------------------------------------------------------------------
Init == /\ server \in Settings
        /\ page = [s \in Sections |-> Rendered(s, server)]
        /\ toggle = server.include
        /\ editing = FALSE
        /\ instance = [s \in Sections |-> 0]
        /\ wired = [f \in Forms |-> 1]
        /\ busy = [f \in Forms |-> FALSE]
        /\ error = [f \in Forms |-> FALSE]
        /\ saves = {}
        /\ sent = 0
        /\ doubt = {}

Next == \/ Include \/ Pause \/ EditOpening \/ CancelOpening
        \/ \E value \in Openings : SaveOpening(value)
        \/ \E k \in saves : Commit(k) \/ Render(k) \/ Refuse(k) \/ LoseAnswer(k) \/ Apply(k)

Spec == Init /\ [][Next]_vars

-----------------------------------------------------------------------------
(* Properties.                                                             *)

\* When nothing is under way, the page shows the stored settings, the position of the
\* switch included, in every section that was last replaced by a save no other save
\* overlapped; refused saves leave it so (update).
SettledIsShown ==
    saves = {} =>
        /\ \A s \in Sections \ doubt : page[s] = Rendered(s, server)
        /\ "row" \notin doubt => toggle = server.include

\* Every form in the page answers its user once: it has its listeners, once, however
\* often it was replaced, and is disabled exactly while a request of its own, one at
\* most, is under way (initialize; the finally of the handlers).
FormsStayLive ==
    /\ \A f \in Forms : /\ wired[f] = 1
                        /\ busy[f] <=> \E k \in saves : k.form = f /\ InPage(k)
    /\ \A j, k \in saves : j.form = k.form /\ InPage(j) /\ InPage(k) => j = k
=============================================================================
