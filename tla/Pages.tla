-------------------------------- MODULE Pages ---------------------------------
(***************************************************************************)
(* The pages with scripts of their own, one of which is open in a browser  *)
(* tab: a module each.  They share no state, and the variables of a page   *)
(* that is not open are off.  The planner's notes stand beside its forms   *)
(* but neither touches the other; an amount field is part of several pages.*)
(***************************************************************************)
EXTENDS Naturals

CONSTANTS
    Users, Addresses, Spellings, Normal, Reported, MaxLoads,    \* RequestActivity
    Openings, MaxSaves,                                         \* PlannerEditing
    NoteTexts,                                                  \* PlannerNotes
    Accounts, Currencies, CurrencyOf, Whole, Amounts,           \* PlannerForm
    Formats, Stored, Keys, MaxLength,                           \* MoneyInput
    Codes, MaxKey,                                              \* CurrencySettings
    None,       \* an empty field or choice
    Off         \* value of the variables of a page that is not open

VARIABLES
    tab,    \* the page that is open
    users, userSelect, ipInput, clientsFilter, loads, issued, state, resultsHidden,
    shownAddress, clients, clientsPanelHidden, listed, detailsHidden, clientAddress,
    clientState, banAreaHidden, banIp, banFormHidden, unbanAddress, unbanFormHidden,
    detailsRequest, inspections,
    server, page, toggle, editing, instance, wired, busy, error, saves, sent, doubt,
    stored, notes, status, disabled, stage, savedText,
    transfer, account, target, currency, amount, accountAmount, targetAmount,
    shownAmount, shownTarget, open, listOptions, listActive, posted,
    display, canonical, format, allowNegative, fixedDecimals,
    items, key, nextKey, offered, addSelect, defaultSelect, removable, active, shown

activityVars ==
    <<users, userSelect, ipInput, clientsFilter, loads, issued, state, resultsHidden,
      shownAddress, clients, clientsPanelHidden, listed, detailsHidden, clientAddress,
      clientState, banAreaHidden, banIp, banFormHidden, unbanAddress, unbanFormHidden,
      detailsRequest, inspections>>
editingVars ==
    <<server, page, toggle, editing, instance, wired, busy, error, saves, sent, doubt>>
notesVars ==
    <<stored, notes, status, disabled, stage, savedText>>
formVars ==
    <<transfer, account, target, currency, amount, accountAmount, targetAmount,
      shownAmount, shownTarget, open, listOptions, listActive, posted>>
moneyVars ==
    <<display, canonical, format, allowNegative, fixedDecimals>>
settingsVars ==
    <<items, key, nextKey, offered, addSelect, defaultSelect, removable, active, shown>>

vars == <<tab, activityVars, editingVars, notesVars, formVars, moneyVars, settingsVars>>

Activity == INSTANCE RequestActivity WITH Texts <- Spellings
Editing == INSTANCE PlannerEditing
Notes == INSTANCE PlannerNotes WITH Texts <- NoteTexts
Form == INSTANCE PlannerForm WITH offered <- listOptions, active <- listActive
Money == INSTANCE MoneyInput
Settings == INSTANCE CurrencySettings

ASSUME PagesAssumption ==
    Activity!Assumptions /\ Settings!Assumptions /\ Form!Assumptions

NoActivity ==
    /\ users = Off /\ userSelect = Off /\ ipInput = Off /\ clientsFilter = Off
    /\ loads = Off /\ issued = Off /\ state = Off /\ resultsHidden = Off
    /\ shownAddress = Off /\ clients = Off /\ clientsPanelHidden = Off /\ listed = Off
    /\ detailsHidden = Off /\ clientAddress = Off /\ clientState = Off /\ banAreaHidden = Off
    /\ banIp = Off /\ banFormHidden = Off /\ unbanAddress = Off /\ unbanFormHidden = Off
    /\ detailsRequest = Off /\ inspections = Off
NoEditing ==
    /\ server = Off /\ page = Off /\ toggle = Off /\ editing = Off
    /\ instance = Off /\ wired = Off /\ busy = Off /\ error = Off
    /\ saves = Off /\ sent = Off /\ doubt = Off
NoNotes ==
    /\ stored = Off /\ notes = Off /\ status = Off /\ disabled = Off
    /\ stage = Off /\ savedText = Off
NoForm ==
    /\ transfer = Off /\ account = Off /\ target = Off /\ currency = Off
    /\ amount = Off /\ accountAmount = Off /\ targetAmount = Off /\ shownAmount = Off
    /\ shownTarget = Off /\ open = Off /\ listOptions = Off /\ listActive = Off
    /\ posted = Off
NoMoney ==
    /\ display = Off /\ canonical = Off /\ format = Off /\ allowNegative = Off
    /\ fixedDecimals = Off
NoSettings ==
    /\ items = Off /\ key = Off /\ nextKey = Off /\ offered = Off
    /\ addSelect = Off /\ defaultSelect = Off /\ removable = Off /\ active = Off
    /\ shown = Off

Init ==
    \/ tab = "activity" /\ Activity!Init /\ NoEditing /\ NoNotes /\ NoForm /\ NoMoney /\ NoSettings
    \/ tab = "planner" /\ Editing!Init /\ NoActivity /\ NoNotes /\ NoForm /\ NoMoney /\ NoSettings
    \/ tab = "notes" /\ Notes!Init /\ NoActivity /\ NoEditing /\ NoForm /\ NoMoney /\ NoSettings
    \/ tab = "form" /\ Form!Init /\ NoActivity /\ NoEditing /\ NoNotes /\ NoMoney /\ NoSettings
    \/ tab = "money" /\ Money!Init /\ NoActivity /\ NoEditing /\ NoNotes /\ NoForm /\ NoSettings
    \/ tab = "settings" /\ Settings!Init /\ NoActivity /\ NoEditing /\ NoNotes /\ NoForm /\ NoMoney

ActivityStep ==
    /\ tab = "activity" /\ Activity!Next
    /\ UNCHANGED <<tab, editingVars, notesVars, formVars, moneyVars, settingsVars>>

EditingStep ==
    /\ tab = "planner" /\ Editing!Next
    /\ UNCHANGED <<tab, activityVars, notesVars, formVars, moneyVars, settingsVars>>

NotesStep ==
    /\ tab = "notes" /\ Notes!Next
    /\ UNCHANGED <<tab, activityVars, editingVars, formVars, moneyVars, settingsVars>>

FormStep ==
    /\ tab = "form" /\ Form!Next
    /\ UNCHANGED <<tab, activityVars, editingVars, notesVars, moneyVars, settingsVars>>

MoneyStep ==
    /\ tab = "money" /\ Money!Next
    /\ UNCHANGED <<tab, activityVars, editingVars, notesVars, formVars, settingsVars>>

SettingsStep ==
    /\ tab = "settings" /\ Settings!Next
    /\ UNCHANGED <<tab, activityVars, editingVars, notesVars, formVars, moneyVars>>

Next == ActivityStep \/ EditingStep \/ NotesStep \/ FormStep \/ MoneyStep \/ SettingsStep

Spec == Init /\ [][Next]_vars

-----------------------------------------------------------------------------
(* The properties of the pages, where they are stated, of the page that is open. *)

\* Results, details and list belong together, however loads overlap (loadActivity).
ResultsAgree == tab = "activity" => Activity!ResultsAgree

\* A ban is for the address in the heading above it (renderBanArea).
BanNamesShownAddress == tab = "activity" => Activity!BanNamesShownAddress

\* What says it is loading waits for an answer (loadActivity, loadClientDetails).
NoEndlessLoading == tab = "activity" => Activity!NoEndlessLoading

\* With no save under way the page shows what is stored (update).
SettledIsShown == tab = "planner" => Editing!SettledIsShown

\* Every form has its listeners once and is disabled only while it saves (initialize).
FormsStayLive == tab = "planner" => Editing!FormsStayLive

\* The status of the notes is about the text shown (the submit handler).
StatusIsTrue == tab = "notes" => Notes!StatusIsTrue

\* A plan that is posted keeps the rules of plans and is the one shown (sync).
PostedPlanAgrees == tab = "form" => Form!PostedPlanAgrees

\* An open list offers what can be chosen now (open, choose).
ListsAreCurrent == tab = "form" => Form!ListsAreCurrent

\* Items, editors, selects and default agree, and formats are posted once (add, remove).
SettingsAgree == tab = "settings" => Settings!SettingsAgree

\* A form posts the amount its field shows, whatever was done to it (formatInput).
PostsWhatIsShown == tab = "money" => Money!PostsWhatIsShown
=============================================================================
