----------------------------- MODULE PagesProofs ------------------------------
(***************************************************************************)
(* Proofs about the pages: for each page an inductive invariant, that its  *)
(* own steps keep, and the theorem for the tab, whose other steps do not   *)
(* touch the page.                                                         *)
(***************************************************************************)
EXTENDS Pages, WellFoundedInduction, TLAPS

(***************************************************************************)
(* The notes.                                                              *)
(***************************************************************************)

NotesInv ==
    /\ Notes!StatusIsTrue
    /\ stage = "saved" => stored = savedText
    /\ stage # "none" => status \in {"Saving", "Unsaved changes"}
    /\ disabled \in BOOLEAN

\* A saved request stored what it was sent with until it is answered.
LEMMA NotesKept ==
    ASSUME NotesInv, Notes!Next
    PROVE  NotesInv'
<1>1. CASE \E text \in NoteTexts : Notes!Type(text)
  <2> PICK text \in NoteTexts : Notes!Type(text) BY <1>1
  <2> QED BY DEF NotesInv, Notes!StatusIsTrue, Notes!Type
<1>2. CASE Notes!Submit
  BY <1>2 DEF NotesInv, Notes!StatusIsTrue, Notes!Submit
<1>3. CASE Notes!Commit
  BY <1>3 DEF NotesInv, Notes!StatusIsTrue, Notes!Commit
<1>4. CASE Notes!Answer
  BY <1>4 DEF NotesInv, Notes!StatusIsTrue, Notes!Answer, Notes!Over
<1>5. CASE Notes!Fail
  BY <1>5 DEF NotesInv, Notes!StatusIsTrue, Notes!Fail, Notes!Over
<1> QED BY <1>1, <1>2, <1>3, <1>4, <1>5 DEF Notes!Next

\* The status of the notes is true of the text shown, whatever is typed meanwhile.
THEOREM NotesStatusIsTrue == Spec => []StatusIsTrue
<1> DEFINE I == tab = "notes" => NotesInv
<1>1. Init => I
  BY DEF Init, Notes!Init, NotesInv, Notes!StatusIsTrue
<1>2. I /\ [Next]_vars => I'
  <2> SUFFICES ASSUME I, [Next]_vars PROVE I' OBVIOUS
  <2>1. CASE NotesStep
    BY <2>1, NotesKept DEF NotesStep
  <2>2. CASE ActivityStep \/ EditingStep \/ FormStep \/ MoneyStep \/ SettingsStep
    BY <2>2 DEF ActivityStep, EditingStep, FormStep, MoneyStep, SettingsStep
  <2>3. CASE UNCHANGED vars
    <3>1. UNCHANGED <<tab, stored, notes, status, disabled, stage, savedText>>
      BY <2>3 DEF vars, notesVars
    <3> QED BY <3>1 DEF NotesInv, Notes!StatusIsTrue
  <2> QED BY <2>1, <2>2, <2>3 DEF Next
<1>3. I => StatusIsTrue
  BY DEF StatusIsTrue, NotesInv
<1> QED BY <1>1, <1>2, <1>3, PTL DEF Spec

(***************************************************************************)
(* The request activity.                                                   *)
(***************************************************************************)

\* Details under way have numbers up to that of the details asked for last, and are
\* about the address in the heading if they have that number.
Numbered ==
    /\ detailsRequest \in Nat
    /\ \A i \in inspections : i.id \in Nat /\ i.id <= detailsRequest
    /\ \A i \in inspections : i.id = detailsRequest => ~detailsHidden /\ i.address = clientAddress

\* The heading is the address of the results, also while they are hidden.
HeadingAgrees ==
    IF shownAddress = None THEN detailsHidden
    ELSE ~detailsHidden /\ clientAddress = shownAddress

ListAgrees ==
    ~resultsHidden => clientsPanelHidden \/ listed = Activity!Matching(clients, clientsFilter)

\* The forms name the address of the heading, also while the results are hidden.
FormsAgree ==
    ~detailsHidden /\ ~banAreaHidden => banIp = clientAddress /\ unbanAddress = clientAddress

ActivityInv == Numbered /\ HeadingAgrees /\ ListAgrees /\ FormsAgree /\ Activity!NoEndlessLoading

\* The page of the request activity starts in its invariant.
LEMMA ActivityStarts == Activity!Init => ActivityInv
BY DEF Activity!Init, ActivityInv, Numbered, HeadingAgrees, ListAgrees, FormsAgree,
       Activity!NoEndlessLoading

\* A load hides the results; the details stay as they are.
LEMMA LoadKeeps ==
    ASSUME ActivityInv, NEW user, NEW text, Activity!LoadActivity(user, text)
    PROVE  ActivityInv'
<1>1. Numbered' /\ HeadingAgrees' /\ ListAgrees' /\ FormsAgree'
  BY DEF ActivityInv, Numbered, HeadingAgrees, ListAgrees, FormsAgree, Activity!LoadActivity,
         Activity!details, Activity!banForms
<1>2. Activity!NoEndlessLoading'
  BY DEF ActivityInv, Activity!NoEndlessLoading, Activity!LoadActivity, Activity!details
<1> QED BY <1>1, <1>2 DEF ActivityInv

\* Choosing, typing and searching touch no results but the rows of the list.
LEMMA FiltersKeep ==
    ASSUME ActivityInv,
           \/ \E u \in Users \cup {None} : Activity!SelectUser(u)
           \/ \E t \in Spellings \cup {None} : Activity!TypeAddress(t)
           \/ \E f \in Addresses \cup {None} : Activity!TypeFilter(f)
    PROVE  ActivityInv'
<1>1. CASE \E u \in Users \cup {None} : Activity!SelectUser(u)
  <2> PICK u \in Users \cup {None} : Activity!SelectUser(u) BY <1>1
  <2> QED BY DEF ActivityInv, Numbered, HeadingAgrees, ListAgrees, FormsAgree,
                 Activity!NoEndlessLoading, Activity!SelectUser, Activity!list, Activity!details,
                 Activity!banForms, Activity!Matching
<1>2. CASE \E t \in Spellings \cup {None} : Activity!TypeAddress(t)
  <2> PICK t \in Spellings \cup {None} : Activity!TypeAddress(t) BY <1>2
  <2> QED BY DEF ActivityInv, Numbered, HeadingAgrees, ListAgrees, FormsAgree,
                 Activity!NoEndlessLoading, Activity!TypeAddress, Activity!list, Activity!details,
                 Activity!banForms, Activity!Matching
<1>3. CASE \E f \in Addresses \cup {None} : Activity!TypeFilter(f)
  <2> PICK f \in Addresses \cup {None} : Activity!TypeFilter(f) BY <1>3
  <2> QED BY DEF ActivityInv, Numbered, HeadingAgrees, ListAgrees, FormsAgree,
                 Activity!NoEndlessLoading, Activity!TypeFilter, Activity!details,
                 Activity!banForms, Activity!Matching
<1> QED BY <1>1, <1>2, <1>3

\* Answers without results: refused, failed or unavailable.
LEMMA NoResultsKeep ==
    ASSUME ActivityInv, NEW l, NEW us, Activity!Warn(l) \/ Activity!Unavailable(l, us)
    PROVE  ActivityInv'
<1>1. CASE Activity!Warn(l)
  BY <1>1 DEF ActivityInv, Numbered, HeadingAgrees, ListAgrees, FormsAgree,
              Activity!NoEndlessLoading, Activity!Warn, Activity!filters, Activity!details,
              Activity!banForms, Activity!Matching
<1>2. CASE Activity!Unavailable(l, us)
  BY <1>2 DEF ActivityInv, Numbered, HeadingAgrees, ListAgrees, FormsAgree,
              Activity!NoEndlessLoading, Activity!Unavailable, Activity!details,
              Activity!banForms, Activity!Matching
<1> QED BY <1>1, <1>2

\* Results for an address ask for its details under a new number, those for none take
\* the number away from the details before.
LEMMA AnswerKeeps ==
    ASSUME ActivityInv, NEW l, NEW us, NEW found, NEW message \in {"Empty", "Message"},
           Activity!Answer(l, us, found, message)
    PROVE  ActivityInv'
<1>1. ListAgrees'
  BY DEF ListAgrees, Activity!Answer, Activity!Matching
<1>2. FormsAgree' /\ HeadingAgrees'
  BY DEF ActivityInv, FormsAgree, HeadingAgrees, Activity!Answer, Activity!Invalid,
         Activity!LoadClientDetails, Activity!HideDetails, Activity!banForms
<1>3. Numbered'
  <2>1. CASE l.text # None
    BY <2>1 DEF ActivityInv, Numbered, Activity!Answer, Activity!LoadClientDetails
  <2>2. CASE l.text = None
    BY <2>2 DEF ActivityInv, Numbered, Activity!Answer, Activity!HideDetails
  <2> QED BY <2>1, <2>2
<1>4. Activity!NoEndlessLoading'
  <2>1. CASE l.text # None
    <3> DEFINE asked == [id |-> detailsRequest + 1, address |-> Normal[l.text]]
    <3>1. asked \in inspections' /\ detailsRequest' = detailsRequest + 1
          /\ clientAddress' = Normal[l.text] /\ resultsHidden' = FALSE /\ state' = message
      BY <2>1 DEF Activity!Answer, Activity!LoadClientDetails
    <3>2. asked.id = detailsRequest' /\ asked.address = clientAddress'
      BY <3>1
    <3> HIDE DEF asked
    <3> QED BY <3>1, <3>2 DEF Activity!NoEndlessLoading
  <2>2. CASE l.text = None
    BY <2>2 DEF Activity!NoEndlessLoading, Activity!Answer, Activity!HideDetails
  <2> QED BY <2>1, <2>2
<1> QED BY <1>1, <1>2, <1>3, <1>4 DEF ActivityInv

\* The details asked for last are about the heading; others are dropped.
LEMMA DetailsKeep ==
    ASSUME ActivityInv, NEW i, Activity!AnswerInspection(i)
    PROVE  ActivityInv'
<1>1. CASE \E verdict \in Activity!Verdicts, message \in {"Empty", "Message"} :
              Activity!AnswerDetails(i, verdict, message)
  <2> PICK verdict \in Activity!Verdicts, message \in {"Empty", "Message"} :
              Activity!AnswerDetails(i, verdict, message)
    BY <1>1
  <2> QED BY DEF ActivityInv, Numbered, HeadingAgrees, ListAgrees, FormsAgree,
                 Activity!NoEndlessLoading, Activity!AnswerDetails, Activity!DetailsEnded,
                 Activity!RenderBanArea, Activity!filters, Activity!list, Activity!Matching
<1>2. CASE Activity!DropDetails(i)
  BY <1>2 DEF ActivityInv, Numbered, HeadingAgrees, ListAgrees, FormsAgree,
              Activity!NoEndlessLoading, Activity!DropDetails, Activity!DetailsEnded,
              Activity!filters, Activity!list, Activity!banForms, Activity!Matching
<1>3. CASE Activity!FailDetails(i)
  BY <1>3 DEF ActivityInv, Numbered, HeadingAgrees, ListAgrees, FormsAgree,
              Activity!NoEndlessLoading, Activity!FailDetails, Activity!DetailsEnded,
              Activity!filters, Activity!list, Activity!banForms, Activity!Matching
<1> QED BY <1>1, <1>2, <1>3 DEF Activity!AnswerInspection

\* A page that is loaded again after a ban is a fresh one.
LEMMA ReloadKeeps ==
    ASSUME NEW ip, Activity!Reload(ip)
    PROVE  ActivityInv'
BY DEF Activity!Reload, ActivityInv, Numbered, HeadingAgrees, ListAgrees, FormsAgree,
       Activity!NoEndlessLoading

\* Every step of the request activity keeps its invariant.
LEMMA ActivityKept ==
    ASSUME ActivityInv, Activity!Next
    PROVE  ActivityInv'
<1>1. CASE Activity!Submit \/ Activity!Clear \/ \E a \in Addresses : Activity!Inspect(a)
  BY <1>1, LoadKeeps DEF Activity!Submit, Activity!Clear, Activity!Inspect
<1>2. CASE \/ \E u \in Users \cup {None} : Activity!SelectUser(u)
           \/ \E t \in Spellings \cup {None} : Activity!TypeAddress(t)
           \/ \E f \in Addresses \cup {None} : Activity!TypeFilter(f)
  BY <1>2, FiltersKeep
<1>3. CASE \E l \in loads : Activity!AnswerLoad(l)
  BY <1>3, NoResultsKeep, AnswerKeeps DEF Activity!AnswerLoad, Activity!Reject, Activity!FailLoad
<1>4. CASE \E i \in inspections : Activity!AnswerInspection(i)
  BY <1>4, DetailsKeep
<1>5. CASE Activity!Unban \/ \E ip \in Addresses : Activity!Ban(ip)
  BY <1>5, ReloadKeeps DEF Activity!Ban, Activity!Unban
<1> QED BY <1>1, <1>2, <1>3, <1>4, <1>5 DEF Activity!Next

\* The invariant of the page of the request activity.
LEMMA ActivityInvariance == Spec => [](tab = "activity" => ActivityInv)
<1> DEFINE I == tab = "activity" => ActivityInv
<1>1. Init => I
  BY ActivityStarts DEF Init
<1>2. I /\ [Next]_vars => I'
  <2> SUFFICES ASSUME I, [Next]_vars PROVE I' OBVIOUS
  <2>1. CASE ActivityStep
    BY <2>1, ActivityKept DEF ActivityStep
  <2>2. CASE NotesStep \/ EditingStep \/ FormStep \/ MoneyStep \/ SettingsStep
    BY <2>2 DEF NotesStep, EditingStep, FormStep, MoneyStep, SettingsStep
  <2>3. CASE UNCHANGED vars
    <3>1. UNCHANGED <<tab, loads, state, resultsHidden, shownAddress, clients, clientsPanelHidden,
                      listed, clientsFilter, detailsHidden, clientAddress, clientState,
                      banAreaHidden, banIp, unbanAddress, detailsRequest, inspections>>
      BY <2>3 DEF vars, activityVars
    <3> QED BY <3>1 DEF ActivityInv, Numbered, HeadingAgrees, ListAgrees, FormsAgree,
                        Activity!NoEndlessLoading, Activity!Matching
  <2> QED BY <2>1, <2>2, <2>3 DEF Next
<1> QED BY <1>1, <1>2, PTL DEF Spec

\* Results, details and list belong together, in whatever order loads are answered.
THEOREM ResultsBelongTogether == Spec => []ResultsAgree
<1>1. (tab = "activity" => ActivityInv) => ResultsAgree
  BY DEF ActivityInv, HeadingAgrees, ListAgrees, ResultsAgree, Activity!ResultsAgree
<1> QED BY <1>1, ActivityInvariance, PTL

\* Nobody is banned by a form under another address.
THEOREM BansNameTheirAddress == Spec => []BanNamesShownAddress
<1>1. (tab = "activity" => ActivityInv) => BanNamesShownAddress
  BY DEF ActivityInv, FormsAgree, BanNamesShownAddress, Activity!BanNamesShownAddress,
         Activity!BanAreaVisible
<1> QED BY <1>1, ActivityInvariance, PTL

\* Whatever says it is loading has a request under way.
THEOREM LoadingEnds == Spec => []NoEndlessLoading
<1>1. (tab = "activity" => ActivityInv) => NoEndlessLoading
  BY DEF ActivityInv, NoEndlessLoading
<1> QED BY <1>1, ActivityInvariance, PTL

(***************************************************************************)
(* The currency formats.                                                   *)
(***************************************************************************)

\* A key once given out is below the next one, so an added currency gets a new one.
SettingsInv ==
    /\ items \subseteq Codes
    /\ addSelect \in Codes \cup {None}
    /\ nextKey \in Nat
    /\ \A c \in items : key[c] \in Nat /\ key[c] < nextKey
    /\ Settings!SettingsAgree

\* The settings page starts in its invariant.
LEMMA SettingsStart == Settings!Init => SettingsInv
<1> SUFFICES ASSUME Settings!Init PROVE SettingsInv OBVIOUS
<1>1. nextKey \in Nat
  BY PagesAssumption DEF Settings!Init, Settings!Assumptions
<1> QED BY <1>1 DEF Settings!Init, SettingsInv, Settings!SettingsAgree, Settings!FormatsPostedOnce,
                    Settings!DefaultKept, Settings!ViewsAgree, Settings!Editors

\* A currency that is added gets an editor under a key no other has.
LEMMA AddKeeps ==
    ASSUME SettingsInv, NEW c \in Codes \cup {None}, NEW default,
           Settings!AddNew(c, default), defaultSelect' = default, default \in items \cup {c}
    PROVE  SettingsInv'
<1>1. items' = items \cup {c} /\ c \in Codes /\ c \notin items
  BY DEF SettingsInv, Settings!AddNew, Settings!SettingsAgree, Settings!FormatsPostedOnce
<1>2. DOMAIN key' = items'
  BY <1>1 DEF SettingsInv, Settings!AddNew, Settings!SettingsAgree, Settings!FormatsPostedOnce,
              Settings!Editors
<1>3. key'[c] = nextKey /\ \A d \in items : key'[d] = key[d]
  <2>1. key' = [d \in items \cup {c} |-> IF d = c THEN nextKey ELSE key[d]]
    BY DEF SettingsInv, Settings!AddNew, Settings!NextKey, Settings!SettingsAgree,
           Settings!FormatsPostedOnce
  <2> QED BY <1>1, <2>1
<1>4. nextKey' \in Nat /\ \A d \in items' : key'[d] \in Nat /\ key'[d] < nextKey'
  BY <1>1, <1>3 DEF SettingsInv, Settings!AddNew
<1>5. Settings!FormatsPostedOnce'
  BY <1>1, <1>2, <1>3 DEF SettingsInv, Settings!SettingsAgree, Settings!FormatsPostedOnce,
                          Settings!Editors
<1>6. Settings!DefaultKept' /\ Settings!ViewsAgree'
  BY <1>1 DEF SettingsInv, Settings!SettingsAgree, Settings!FormatsPostedOnce,
              Settings!DefaultKept, Settings!ViewsAgree, Settings!AddNew, Settings!HideOption,
              Settings!RefreshDefault, Settings!Select
<1>7. items' \subseteq Codes /\ addSelect' \in Codes \cup {None}
  BY <1>1 DEF SettingsInv, Settings!AddNew
<1> QED BY <1>4, <1>5, <1>6, <1>7 DEF SettingsInv, Settings!SettingsAgree

\* Every step of the settings page keeps its invariant.
LEMMA SettingsKept ==
    ASSUME SettingsInv, Settings!Next
    PROVE  SettingsInv'
<1>1. CASE \E c \in Codes : Settings!SelectItem(c)
  BY <1>1 DEF SettingsInv, Settings!SelectItem, Settings!Select, Settings!SettingsAgree,
              Settings!FormatsPostedOnce, Settings!DefaultKept, Settings!ViewsAgree,
              Settings!Editors
<1>2. CASE \E c \in Codes \cup {None} : Settings!ChooseOption(c)
  BY <1>2 DEF SettingsInv, Settings!ChooseOption, Settings!SettingsAgree,
              Settings!FormatsPostedOnce, Settings!DefaultKept, Settings!ViewsAgree,
              Settings!Editors
<1>3. CASE Settings!AddChosen
  <2>1. CASE Settings!AddNew(addSelect, defaultSelect) /\ UNCHANGED defaultSelect
    BY <2>1, AddKeeps DEF SettingsInv, Settings!SettingsAgree, Settings!DefaultKept
  <2>2. CASE ~(Settings!AddNew(addSelect, defaultSelect) /\ UNCHANGED defaultSelect)
    BY <1>3, <2>2, PagesAssumption
       DEF SettingsInv, Settings!AddChosen, Settings!Select, Settings!SettingsAgree,
           Settings!FormatsPostedOnce, Settings!DefaultKept, Settings!ViewsAgree,
           Settings!Editors, Settings!Assumptions
  <2> QED BY <2>1, <2>2
<1>4. CASE \E c \in Codes : Settings!ChangeDefault(c)
  <2> PICK c \in Codes : Settings!ChangeDefault(c) BY <1>4
  <2>1. CASE Settings!AddNew(c, c)
    BY <2>1, AddKeeps DEF Settings!ChangeDefault
  <2>2. CASE ~Settings!AddNew(c, c)
    BY <2>2 DEF SettingsInv, Settings!ChangeDefault, Settings!Select, Settings!RefreshDefault,
                Settings!SettingsAgree, Settings!FormatsPostedOnce, Settings!DefaultKept,
                Settings!ViewsAgree, Settings!Editors
  <2> QED BY <2>1, <2>2
<1>5. CASE \E c \in Codes : Settings!Remove(c)
  <2> PICK c \in Codes : Settings!Remove(c) BY <1>5
  <2>1. items' = items \ {c} /\ DOMAIN key' = items' /\ \A d \in items' : key'[d] = key[d]
    BY DEF SettingsInv, Settings!Remove, Settings!SettingsAgree, Settings!FormatsPostedOnce,
           Settings!Editors
  <2>2. Settings!FormatsPostedOnce'
    BY <2>1 DEF SettingsInv, Settings!SettingsAgree, Settings!FormatsPostedOnce, Settings!Editors
  <2>3. Settings!DefaultKept' /\ Settings!ViewsAgree'
    BY <2>1 DEF SettingsInv, Settings!Remove, Settings!Select, Settings!SettingsAgree,
                Settings!FormatsPostedOnce, Settings!DefaultKept, Settings!ViewsAgree
  <2> QED BY <2>1, <2>2, <2>3 DEF SettingsInv, Settings!SettingsAgree, Settings!Remove
<1> QED BY <1>1, <1>2, <1>3, <1>4, <1>5 DEF Settings!Next

\* No two currencies are posted under one key, and all views of them agree.
THEOREM SettingsAlwaysAgree == Spec => []SettingsAgree
<1> DEFINE I == tab = "settings" => SettingsInv
<1>1. Init => I
  BY SettingsStart DEF Init
<1>2. I /\ [Next]_vars => I'
  <2> SUFFICES ASSUME I, [Next]_vars PROVE I' OBVIOUS
  <2>1. CASE SettingsStep
    BY <2>1, SettingsKept DEF SettingsStep
  <2>2. CASE ActivityStep \/ EditingStep \/ NotesStep \/ FormStep \/ MoneyStep
    BY <2>2 DEF ActivityStep, EditingStep, NotesStep, FormStep, MoneyStep
  <2>3. CASE UNCHANGED vars
    <3>1. UNCHANGED <<tab, items, key, nextKey, offered, addSelect, defaultSelect, removable,
                      active, shown>>
      BY <2>3 DEF vars, settingsVars
    <3> QED BY <3>1 DEF SettingsInv, Settings!SettingsAgree, Settings!FormatsPostedOnce,
                        Settings!DefaultKept, Settings!ViewsAgree, Settings!Editors
  <2> QED BY <2>1, <2>2, <2>3 DEF Next
<1>3. I => SettingsAgree
  BY DEF SettingsAgree, SettingsInv
<1> QED BY <1>1, <1>2, <1>3, PTL DEF Spec

(***************************************************************************)
(* The form of a planned item.                                             *)
(***************************************************************************)

\* The hidden fields follow the choices as soon as an account is chosen; the display
\* holds nothing that its format would not show.
FormInv ==
    /\ account \in Form!Options /\ target \in Form!Options
    /\ amount \in Nat /\ shownAmount \in Nat
    /\ account # 0 => currency = CurrencyOf[account]
    /\ shownAmount = Form!Shown(shownAmount, account)
    /\ Form!PostedPlanAgrees

\* What is shown of an amount is shown of it again.
LEMMA ShownTwice ==
    ASSUME NEW v \in Nat, NEW a
    PROVE  Form!Shown(v, a) \in Nat /\ Form!Shown(Form!Shown(v, a), a) = Form!Shown(v, a)
<1>1. v - (v % 2) \in Nat /\ (v - (v % 2)) % 2 = 0
  OBVIOUS
<1> QED BY <1>1 DEF Form!Shown

\* A form as loaded is in its invariant.
LEMMA FormStarts == Form!Init => FormInv
<1> SUFFICES ASSUME Form!Init PROVE FormInv OBVIOUS
<1> PICK c \in Currencies, original, debited, credited \in Amounts \cup {0} :
            Form!Loaded(original, c, debited, credited)
  BY DEF Form!Init
<1>1. account \in Form!Options /\ target \in Form!Options /\ posted = Form!NotPosted
  BY DEF Form!Init, Form!Options
<1>2. amount \in Nat
  BY PagesAssumption DEF Form!Loaded, Form!Assumptions
<1>3. shownAmount \in Nat /\ shownAmount = Form!Shown(shownAmount, account)
  BY <1>2, ShownTwice DEF Form!Loaded
<1>4. account # 0 => currency = CurrencyOf[account]
  BY DEF Form!Loaded, Form!NoAccount
<1> QED BY <1>1, <1>2, <1>3, <1>4 DEF FormInv, Form!PostedPlanAgrees

\* Choosing an account or a target keeps the invariant of the form.
LEMMA ChoiceKeeps ==
    ASSUME FormInv, NEW l \in Form!Lists, NEW v \in Form!Options, Form!Choose(l, v)
    PROVE  FormInv'
<1>1. CASE Form!ChangeAccount(v)
  <2>1. account' = v /\ target' = target /\ amount' = amount /\ UNCHANGED <<transfer, posted>>
        /\ currency' = Form!Forced(v) /\ shownAmount' = Form!Shown(amount, v)
    BY <1>1 DEF Form!ChangeAccount, Form!Sync
  <2>2. shownAmount' \in Nat /\ shownAmount' = Form!Shown(shownAmount', account')
    BY <2>1, ShownTwice DEF FormInv
  <2>3. account' # 0 => currency' = CurrencyOf[account']
    BY <2>1 DEF Form!Forced, Form!NoAccount
  <2> QED BY <2>1, <2>2, <2>3 DEF FormInv, Form!PostedPlanAgrees, Form!NotPosted, Form!Shown
<1>2. CASE Form!ChangeTarget(v)
  <2>1. target' = v /\ UNCHANGED <<transfer, account, currency, amount, shownAmount, posted>>
    BY <1>2 DEF Form!ChangeTarget, Form!Sync
  <2> QED BY <2>1 DEF FormInv, Form!PostedPlanAgrees, Form!NotPosted, Form!Shown
<1> QED BY <1>1, <1>2 DEF Form!Choose

\* Typing an amount keeps the invariant of the form.
LEMMA TypingKeeps ==
    ASSUME FormInv, NEW v \in Amounts, Form!TypeAmount(v) \/ Form!TypeTarget(v)
    PROVE  FormInv'
<1>1. CASE Form!TypeAmount(v)
  <2>1. amount' = Form!Shown(v, account) /\ shownAmount' = Form!Shown(v, account)
        /\ UNCHANGED <<transfer, account, target, currency, posted>>
    BY <1>1 DEF Form!TypeAmount, Form!Sync, Form!selects
  <2>2. v \in Nat
    BY PagesAssumption DEF Form!Assumptions
  <2>3. amount' \in Nat /\ shownAmount' \in Nat /\ shownAmount' = Form!Shown(shownAmount', account')
    BY <2>1, <2>2, ShownTwice
  <2> QED BY <2>1, <2>3 DEF FormInv, Form!PostedPlanAgrees, Form!NotPosted, Form!Shown
<1>2. CASE Form!TypeTarget(v)
  <2>1. UNCHANGED <<transfer, account, target, currency, amount, shownAmount, posted>>
    BY <1>2 DEF Form!TypeTarget, Form!Sync, Form!selects
  <2> QED BY <2>1 DEF FormInv, Form!PostedPlanAgrees, Form!NotPosted, Form!Shown
<1> QED BY <1>1, <1>2

\* A form that is let go has an account, so that its amounts are in that currency.
LEMMA SubmitKeeps ==
    ASSUME FormInv, Form!Submit
    PROVE  FormInv'
<1>1. /\ account # 0 /\ UNCHANGED <<transfer, account, target, currency>>
      /\ amount' = shownAmount /\ shownAmount' = shownAmount
  BY DEF Form!Submit, Form!ReadDisplays, Form!Sync, Form!selects, Form!NoAccount
<1>2. /\ posted'.account = account /\ posted'.currency = currency
      /\ posted'.target = IF transfer /\ target # account THEN target ELSE 0
      /\ posted'.amount = amount' /\ posted'.accountAmount = accountAmount'
      /\ posted'.targetAmount = targetAmount'
  BY DEF Form!Submit, Form!NoAccount
<1>3. accountAmount' = shownAmount
  BY <1>1 DEF FormInv, Form!Submit, Form!ReadDisplays, Form!Sync, Form!CurrencyAt, Form!NoAccount
<1>4. CASE transfer
  <2>1. target # 0 /\ CurrencyOf[target] = CurrencyOf[account] => targetAmount' = shownAmount
    BY <1>1, <1>4 DEF Form!Submit, Form!ReadDisplays, Form!Sync, Form!SameCurrency,
                      Form!CurrencyAt, Form!NoAccount
  <2> QED BY <1>1, <1>2, <1>3, <1>4, <2>1 DEF FormInv, Form!PostedPlanAgrees, Form!Shown, Form!NoAccount
<1>5. CASE ~transfer
  <2>1. targetAmount' = 0
    BY <1>5 DEF Form!Submit, Form!ReadDisplays, Form!Sync
  <2> QED BY <1>1, <1>2, <1>3, <1>5, <2>1 DEF FormInv, Form!PostedPlanAgrees, Form!Shown, Form!NoAccount
<1> QED BY <1>4, <1>5

\* Every step of the form keeps its invariant.
LEMMA FormKept ==
    ASSUME FormInv, Form!Next
    PROVE  FormInv'
<1>1. CASE \E l \in Form!Lists : Form!OpenList(l) \/ Form!CloseList(l) \/ Form!Highlight(l)
  <2>1. UNCHANGED <<transfer, account, target, currency, amount, shownAmount, posted>>
    BY <1>1 DEF Form!OpenList, Form!CloseList, Form!Highlight, Form!selects, Form!amounts
  <2> QED BY <2>1 DEF FormInv, Form!PostedPlanAgrees, Form!NotPosted, Form!Shown
<1>2. CASE \E l \in Form!Lists, v \in Form!Options : Form!Choose(l, v)
  BY <1>2, ChoiceKeeps
<1>3. CASE \E v \in Amounts : Form!TypeAmount(v) \/ Form!TypeTarget(v)
  BY <1>3, TypingKeeps
<1>4. CASE Form!Submit
  BY <1>4, SubmitKeeps
<1> QED BY <1>1, <1>2, <1>3, <1>4 DEF Form!Next

\* Whatever is chosen and typed, a posted plan keeps the rules and is the one shown.
THEOREM PostedPlansAgree == Spec => []PostedPlanAgrees
<1> DEFINE I == tab = "form" => FormInv
<1>1. Init => I
  BY FormStarts DEF Init
<1>2. I /\ [Next]_vars => I'
  <2> SUFFICES ASSUME I, [Next]_vars PROVE I' OBVIOUS
  <2>1. CASE FormStep
    BY <2>1, FormKept DEF FormStep
  <2>2. CASE ActivityStep \/ EditingStep \/ NotesStep \/ MoneyStep \/ SettingsStep
    BY <2>2 DEF ActivityStep, EditingStep, NotesStep, MoneyStep, SettingsStep
  <2>3. CASE UNCHANGED vars
    <3>1. UNCHANGED <<tab, transfer, account, target, currency, amount, shownAmount, posted>>
      BY <2>3 DEF vars, formVars
    <3> QED BY <3>1 DEF FormInv, Form!PostedPlanAgrees, Form!NotPosted, Form!Shown
  <2> QED BY <2>1, <2>2, <2>3 DEF Next
<1>3. I => PostedPlanAgrees
  BY DEF PostedPlanAgrees, FormInv
<1> QED BY <1>1, <1>2, <1>3, PTL DEF Spec

\* The lists have options, and the open one offers what can be chosen now.
ListsInv ==
    /\ account \in Form!Options
    /\ open \subseteq Form!Lists
    /\ listOptions \in [Form!Lists -> SUBSET Form!Options]
    /\ listActive \in [Form!Lists -> Form!Options]
    /\ Form!ListsAreCurrent

\* A set of numbers has a smallest one, and a largest one if they are bounded.
LEMMA ExtremesAreMembers ==
    ASSUME NEW S, S \subseteq Nat, S # {}, NEW bound \in Nat
    PROVE  /\ Form!Min(S) \in S
           /\ (\A w \in S : w < bound) => Form!Max(S) \in S
<1>1. \A T : T \subseteq Nat /\ T # {} => \E x \in T : \A y \in T : x <= y
  <2> SUFFICES ASSUME NEW T, T \subseteq Nat, T # {} PROVE \E x \in T : \A y \in T : x <= y
    OBVIOUS
  <2>1. PICK x \in T : \A y \in T : ~(<<y, x>> \in OpToRel(<, Nat))
    BY NatLessThanWellFounded, WFMin
  <2>2. \A y \in T : ~(y < x)
    BY <2>1 DEF OpToRel
  <2> QED BY <2>2
<1>2. Form!Min(S) \in S
  BY <1>1 DEF Form!Min
<1>3. ASSUME \A w \in S : w < bound PROVE Form!Max(S) \in S
  <2> DEFINE T == {bound - w : w \in S}
  <2>1. \A w \in S : w \in Nat /\ w < bound /\ bound - w \in Nat
    BY <1>3
  <2> PICK w0 \in S : TRUE
    OBVIOUS
  <2>2. T \subseteq Nat /\ bound - w0 \in T
    BY <2>1
  <2>3. PICK x \in T : \A y \in T : x <= y
    BY <1>1, <2>2
  <2>4. PICK m \in S : x = bound - m
    BY <2>3
  <2>5. \A w \in S : m >= w
    <3> SUFFICES ASSUME NEW w \in S PROVE m >= w OBVIOUS
    <3>1. x <= bound - w
      BY <2>3
    <3> QED BY <3>1, <2>1, <2>4
  <2> QED BY <2>5 DEF Form!Max
<1> QED BY <1>2, <1>3

\* The arrows stay among the options.
LEMMA NeighboursAreOptions ==
    ASSUME NEW options, options \subseteq Nat, NEW v \in options
    PROVE  Form!Following(v, options) \in options /\ Form!Preceding(v, options) \in options
<1> DEFINE later == {w \in options : w > v}
           earlier == {w \in options : w < v}
<1>1. later # {} => Form!Min(later) \in options
  <2>1. later \subseteq Nat /\ later \subseteq options
    OBVIOUS
  <2> HIDE DEF later
  <2> QED BY <2>1, ExtremesAreMembers
<1>2. earlier # {} => Form!Max(earlier) \in options
  <2>1. earlier \subseteq Nat /\ earlier \subseteq options /\ (\A w \in earlier : w < v) /\ v \in Nat
    OBVIOUS
  <2> HIDE DEF earlier
  <2> QED BY <2>1, ExtremesAreMembers
<1>3. Form!Following(v, options) = IF later = {} THEN v ELSE Form!Min(later)
  BY DEF Form!Following
<1>4. Form!Preceding(v, options) = IF earlier = {} THEN v ELSE Form!Max(earlier)
  BY DEF Form!Preceding
<1> QED BY <1>1, <1>2, <1>3, <1>4

\* What can be chosen is among the options, and always contains no account.
LEMMA EnabledAreOptions ==
    ASSUME account \in Form!Options, NEW l \in Form!Lists
    PROVE  /\ Form!Enabled(l) \subseteq Form!Options /\ 0 \in Form!Enabled(l) /\ 0 \in Form!Options
           /\ Form!Options \subseteq Nat
BY PagesAssumption DEF Form!Enabled, Form!Options, Form!NoAccount, Form!Assumptions

\* No list is open in a form as loaded.
LEMMA ListsStart == Form!Init => ListsInv
<1> SUFFICES ASSUME Form!Init PROVE ListsInv OBVIOUS
<1>1. /\ account \in Form!Options /\ open = {}
      /\ listOptions = [l \in Form!Lists |-> {}] /\ listActive = [l \in Form!Lists |-> 0]
  BY DEF Form!Init, Form!NoAccount
<1>2. 0 \in Form!Options
  BY DEF Form!Options, Form!NoAccount
<1> QED BY <1>1, <1>2 DEF ListsInv, Form!ListsAreCurrent

\* Every step of the form keeps the lists current.
LEMMA ListsKept ==
    ASSUME ListsInv, Form!Next
    PROVE  ListsInv'
<1>1. ASSUME NEW l \in Form!Lists, Form!OpenList(l)
      PROVE  ListsInv'
  <2>1. /\ open' = {l} /\ account' = account
        /\ listOptions' = [listOptions EXCEPT ![l] = Form!Enabled(l)]
        /\ listActive' = [listActive EXCEPT ![l] =
                              IF Form!Selected(l) \in Form!Enabled(l) THEN Form!Selected(l) ELSE 0]
    BY <1>1 DEF Form!OpenList, Form!Offer, Form!selects, Form!NoAccount
  <2>2. /\ Form!Enabled(l) \subseteq Form!Options /\ 0 \in Form!Enabled(l)
        /\ Form!Enabled(l)' = Form!Enabled(l)
    BY <2>1, EnabledAreOptions DEF ListsInv, Form!Enabled
  <2>3. /\ listOptions'[l] = Form!Enabled(l) /\ listActive'[l] \in Form!Enabled(l)
        /\ listOptions' \in [Form!Lists -> SUBSET Form!Options]
        /\ listActive' \in [Form!Lists -> Form!Options]
    BY <2>1, <2>2 DEF ListsInv
  <2> QED BY <2>1, <2>2, <2>3 DEF ListsInv, Form!ListsAreCurrent
<1>2. ASSUME NEW l \in Form!Lists, Form!CloseList(l)
      PROVE  ListsInv'
  <2>1. /\ l \in open /\ open' = open \ {l} /\ account' = account
        /\ listOptions' = listOptions /\ listActive' = listActive
    BY <1>2 DEF Form!CloseList, Form!selects
  <2>2. open' = {}
    BY <2>1 DEF ListsInv, Form!ListsAreCurrent
  <2> QED BY <2>1, <2>2 DEF ListsInv, Form!ListsAreCurrent
<1>3. ASSUME NEW l \in Form!Lists, Form!Highlight(l)
      PROVE  ListsInv'
  <2>1. PICK v \in listOptions[l] \cup {Form!Following(listActive[l], listOptions[l]),
                                        Form!Preceding(listActive[l], listOptions[l])} :
            listActive' = [listActive EXCEPT ![l] = v]
    BY <1>3 DEF Form!Highlight
  <2>2. l \in open /\ open' = open /\ account' = account /\ listOptions' = listOptions
    BY <1>3 DEF Form!Highlight, Form!selects
  <2>3. /\ open = {l} /\ listOptions[l] = Form!Enabled(l) /\ listActive[l] \in listOptions[l]
        /\ listOptions[l] \subseteq Nat /\ listOptions[l] \subseteq Form!Options
    BY <2>2, EnabledAreOptions DEF ListsInv, Form!ListsAreCurrent
  <2>4. v \in listOptions[l]
    BY <2>1, <2>3, NeighboursAreOptions
  <2>5. listActive'[l] = v /\ listActive' \in [Form!Lists -> Form!Options]
    BY <2>1, <2>3, <2>4 DEF ListsInv
  <2>6. Form!Enabled(l)' = Form!Enabled(l)
    BY <2>2 DEF Form!Enabled
  <2> QED BY <2>2, <2>3, <2>4, <2>5, <2>6 DEF ListsInv, Form!ListsAreCurrent
<1>4. ASSUME NEW l \in Form!Lists, NEW v \in Form!Options, Form!Choose(l, v)
      PROVE  ListsInv'
  <2>1. /\ l \in open /\ open' = open \ {l}
        /\ listOptions' = listOptions /\ listActive' = listActive
    BY <1>4 DEF Form!Choose
  <2>2. open' = {}
    BY <2>1 DEF ListsInv, Form!ListsAreCurrent
  <2>3. account' \in Form!Options
    BY <1>4 DEF ListsInv, Form!Choose, Form!ChangeAccount, Form!ChangeTarget
  <2> QED BY <2>1, <2>2, <2>3 DEF ListsInv, Form!ListsAreCurrent
<1>5. ASSUME NEW v \in Amounts, Form!TypeAmount(v) \/ Form!TypeTarget(v)
      PROVE  ListsInv'
  BY <1>5 DEF ListsInv, Form!ListsAreCurrent, Form!Enabled, Form!TypeAmount, Form!TypeTarget,
              Form!selects, Form!lists
<1>6. ASSUME Form!Submit
      PROVE  ListsInv'
  BY <1>6 DEF ListsInv, Form!ListsAreCurrent, Form!Enabled, Form!Submit, Form!selects, Form!lists
<1> QED BY <1>1, <1>2, <1>3, <1>4, <1>5, <1>6 DEF Form!Next

\* An open list is the only one, offers what can be chosen now and highlights one of it.
THEOREM ListsStayCurrent == Spec => []ListsAreCurrent
<1> DEFINE I == tab = "form" => ListsInv
<1>1. Init => I
  BY ListsStart DEF Init
<1>2. I /\ [Next]_vars => I'
  <2> SUFFICES ASSUME I, [Next]_vars PROVE I' OBVIOUS
  <2>1. CASE FormStep
    BY <2>1, ListsKept DEF FormStep
  <2>2. CASE ActivityStep \/ EditingStep \/ NotesStep \/ MoneyStep \/ SettingsStep
    BY <2>2 DEF ActivityStep, EditingStep, NotesStep, MoneyStep, SettingsStep
  <2>3. CASE UNCHANGED vars
    <3>1. UNCHANGED <<tab, account, open, listOptions, listActive>>
      BY <2>3 DEF vars, formVars
    <3> QED BY <3>1 DEF ListsInv, Form!ListsAreCurrent, Form!Enabled
  <2> QED BY <2>1, <2>2, <2>3 DEF Next
<1>3. I => ListsAreCurrent
  BY DEF ListsAreCurrent, ListsInv
<1> QED BY <1>1, <1>2, <1>3, PTL DEF Spec

(***************************************************************************)
(* The planner's forms.                                                    *)
(***************************************************************************)

\* Saves have the fields of a request, numbers of their own, and come from a form that
\* was in the page.
SavesAreNumbered ==
    /\ sent \in Nat
    /\ \A k \in saves :
        /\ DOMAIN k = {"id", "form", "instance", "value", "stage", "answer", "alone"}
        /\ k.id \in Nat /\ k.id <= sent
        /\ k.form \in Editing!Forms
        /\ k.instance \in Nat /\ k.instance <= instance[Editing!Home(k.form)]
    /\ \A j, k \in saves : j.id = k.id => j = k

\* The state of the forms is defined for each of them.
FormsAreThere ==
    /\ busy \in [Editing!Forms -> BOOLEAN]
    /\ wired \in [Editing!Forms -> Nat]
    /\ instance \in [Editing!Sections -> Nat]

LiveInv == SavesAreNumbered /\ FormsAreThere /\ Editing!FormsStayLive

\* A form sends only when none of its requests is under way in the page.
LEMMA SendKeepsLive ==
    ASSUME LiveInv, NEW f \in Editing!Forms, NEW value, Editing!Send(f, value)
    PROVE  LiveInv'
<1> DEFINE Older(k) == [k EXCEPT !.alone = FALSE]
<1> PICK new : new = [id |-> sent + 1, form |-> f, instance |-> instance[Editing!Home(f)],
                      value |-> value, stage |-> "sent", answer |-> server, alone |-> saves = {}]
  OBVIOUS
<1>0. /\ DOMAIN new = {"id", "form", "instance", "value", "stage", "answer", "alone"}
      /\ new.id = sent + 1 /\ new.form = f /\ new.instance = instance[Editing!Home(f)]
  OBVIOUS
<1>1. /\ saves' = {Older(k) : k \in saves} \cup {new} /\ sent' = sent + 1
      /\ busy' = [busy EXCEPT ![f] = TRUE] /\ ~busy[f]
      /\ UNCHANGED <<instance, wired>>
  BY DEF Editing!Send
<1>2. ASSUME NEW k \in saves
      PROVE  /\ DOMAIN Older(k) = DOMAIN k /\ Older(k).id = k.id /\ Older(k).form = k.form
             /\ Older(k).instance = k.instance
  BY <1>2 DEF LiveInv, SavesAreNumbered
<1>3. Editing!Home(f) \in Editing!Sections
  BY DEF Editing!Forms, Editing!Home, Editing!Sections
<1> HIDE DEF Older
<1>4. SavesAreNumbered'
  <2>1. sent' \in Nat
    BY <1>1 DEF LiveInv, SavesAreNumbered
  <2>2. ASSUME NEW k \in saves'
        PROVE  /\ DOMAIN k = {"id", "form", "instance", "value", "stage", "answer", "alone"}
               /\ k.id \in Nat /\ k.id <= sent'
               /\ k.form \in Editing!Forms
               /\ k.instance \in Nat /\ k.instance <= instance'[Editing!Home(k.form)]
    <3>1. CASE k = new
      BY <1>0, <1>1, <1>3, <3>1 DEF LiveInv, SavesAreNumbered, FormsAreThere
    <3>2. CASE \E j \in saves : k = Older(j)
      <4> PICK j \in saves : k = Older(j) BY <3>2
      <4> QED BY <1>1, <1>2 DEF LiveInv, SavesAreNumbered
    <3> QED BY <1>1, <2>2, <3>1, <3>2
  <2>3. ASSUME NEW j \in saves', NEW k \in saves', j.id = k.id PROVE j = k
    <3>1. ASSUME NEW i \in saves' PROVE i = new \/ \E o \in saves : i = Older(o)
      BY <1>1, <3>1
    <3>2. ASSUME NEW o \in saves PROVE Older(o).id # new.id
      BY <1>0, <1>2, <3>2 DEF LiveInv, SavesAreNumbered
    <3>3. ASSUME NEW o \in saves, NEW p \in saves, Older(o).id = Older(p).id PROVE o = p
      BY <1>2, <3>3 DEF LiveInv, SavesAreNumbered
    <3> QED BY <2>3, <3>1, <3>2, <3>3
  <2> QED BY <2>1, <2>2, <2>3 DEF SavesAreNumbered
<1>5. FormsAreThere'
  BY <1>1 DEF LiveInv, FormsAreThere
<1>6. ASSUME NEW k \in saves PROVE Editing!InPage(Older(k))' = Editing!InPage(k)
  BY <1>1, <1>2, <1>6 DEF Editing!InPage
<1>7. Editing!InPage(new)' /\ new.form = f
  BY <1>0, <1>1 DEF Editing!InPage
<1>8. ASSUME NEW g \in Editing!Forms
      PROVE  wired'[g] = 1 /\ (busy'[g] <=> \E k \in saves' : k.form = g /\ Editing!InPage(k)')
  <2>1. CASE g = f
    <3>1. new \in saves' /\ new.form = g /\ Editing!InPage(new)'
      BY <1>1, <1>7, <2>1
    <3>2. wired'[g] = 1
      BY <1>1 DEF LiveInv, Editing!FormsStayLive
    <3>3. busy'[g]
      BY <1>1, <2>1 DEF LiveInv, FormsAreThere
    <3> QED BY <3>1, <3>2, <3>3
  <2>2. CASE g # f
    BY <1>1, <1>2, <1>6, <1>7, <2>2 DEF LiveInv, FormsAreThere, Editing!FormsStayLive
  <2> QED BY <2>1, <2>2
<1>9. ASSUME NEW j \in saves', NEW k \in saves', j.form = k.form,
             Editing!InPage(j)', Editing!InPage(k)'
      PROVE  j = k
  <2>1. ASSUME NEW o \in saves, o.form = f PROVE ~Editing!InPage(o)
    BY <1>1, <2>1 DEF LiveInv, Editing!FormsStayLive
  <2> QED BY <1>1, <1>2, <1>6, <1>7, <1>9, <2>1 DEF LiveInv, Editing!FormsStayLive
<1> QED BY <1>4, <1>5, <1>8, <1>9 DEF LiveInv, Editing!FormsStayLive

\* The server's steps change nothing of a save but its stage and answer.
LEMMA ServerKeepsLive ==
    ASSUME LiveInv, NEW k \in saves, Editing!Commit(k) \/ Editing!Render(k)
    PROVE  LiveInv'
<1>1. PICK c : /\ saves' = (saves \ {k}) \cup {c}
               /\ DOMAIN c = DOMAIN k /\ c.id = k.id /\ c.form = k.form /\ c.instance = k.instance
  <2>1. DOMAIN k = {"id", "form", "instance", "value", "stage", "answer", "alone"}
    BY DEF LiveInv, SavesAreNumbered
  <2>2. CASE Editing!Commit(k)
    <3> DEFINE c == [k EXCEPT !.stage = "saved"]
    <3>1. saves' = (saves \ {k}) \cup {c}
      BY <2>2 DEF Editing!Commit, Editing!Advance
    <3>2. DOMAIN c = DOMAIN k /\ c.id = k.id /\ c.form = k.form /\ c.instance = k.instance
      BY <2>1
    <3> HIDE DEF c
    <3> QED BY <3>1, <3>2
  <2>3. CASE Editing!Render(k)
    <3> DEFINE c == [k EXCEPT !.stage = "rendered", !.answer = server]
    <3>1. saves' = (saves \ {k}) \cup {c}
      BY <2>3 DEF Editing!Render, Editing!Advance
    <3>2. DOMAIN c = DOMAIN k /\ c.id = k.id /\ c.form = k.form /\ c.instance = k.instance
      BY <2>1
    <3> HIDE DEF c
    <3> QED BY <3>1, <3>2
  <2> QED BY <2>2, <2>3
<1>2. UNCHANGED <<sent, busy, wired, instance>>
  BY DEF Editing!Commit, Editing!Render
<1>3. SavesAreNumbered'
  BY <1>1, <1>2 DEF LiveInv, SavesAreNumbered
<1>4. Editing!InPage(c)' = Editing!InPage(k) /\ \A j : Editing!InPage(j)' = Editing!InPage(j)
  BY <1>1, <1>2 DEF Editing!InPage
<1>5. Editing!FormsStayLive'
  BY <1>1, <1>2, <1>4 DEF LiveInv, Editing!FormsStayLive
<1> QED BY <1>2, <1>3, <1>5 DEF LiveInv, FormsAreThere

\* An error ends the request that disabled the form, if the form is still in the page.
LEMMA ErrorKeepsLive ==
    ASSUME LiveInv, NEW k \in saves, Editing!ShowError(k)
    PROVE  LiveInv'
<1>1. /\ saves' = saves \ {k} /\ UNCHANGED <<sent, wired, instance>>
      /\ busy' = [busy EXCEPT ![k.form] = @ /\ ~Editing!InPage(k)]
  BY DEF Editing!ShowError
<1>2. SavesAreNumbered'
  BY <1>1 DEF LiveInv, SavesAreNumbered
<1>3. FormsAreThere'
  BY <1>1 DEF LiveInv, FormsAreThere
<1>4. \A j : Editing!InPage(j)' = Editing!InPage(j)
  BY <1>1 DEF Editing!InPage
<1>5. k.form \in Editing!Forms
  BY DEF LiveInv, SavesAreNumbered
<1>6. ASSUME NEW g \in Editing!Forms
      PROVE  busy'[g] <=> \E j \in saves' : j.form = g /\ Editing!InPage(j)'
  <2>1. CASE g = k.form /\ Editing!InPage(k)
    BY <1>1, <1>4, <2>1 DEF LiveInv, FormsAreThere, Editing!FormsStayLive
  <2>2. CASE ~(g = k.form /\ Editing!InPage(k))
    BY <1>1, <1>4, <2>2 DEF LiveInv, FormsAreThere, Editing!FormsStayLive
  <2> QED BY <2>1, <2>2
<1>7. Editing!FormsStayLive'
  BY <1>1, <1>4, <1>6 DEF LiveInv, Editing!FormsStayLive
<1> QED BY <1>2, <1>3, <1>7 DEF LiveInv

\* The fresh forms have no request in the page: those under way came from older ones.
LEMMA ApplyKeepsLive ==
    ASSUME LiveInv, NEW k \in saves, Editing!Apply(k)
    PROVE  LiveInv'
<1> DEFINE parts == Editing!Replaced(k.form)
           fresh == {f \in Editing!Forms : Editing!Home(f) \in parts}
<1>1. /\ saves' = saves \ {k} /\ UNCHANGED sent
      /\ instance' = [s \in Editing!Sections |-> IF s \in parts THEN instance[s] + 1 ELSE instance[s]]
      /\ busy' = [f \in Editing!Forms |-> busy[f] /\ f \notin fresh]
      /\ wired' = [f \in Editing!Forms |-> IF f \in fresh THEN 1 ELSE wired[f]]
  BY DEF Editing!Apply, Editing!Initialize
<1>2. \A f \in Editing!Forms : Editing!Home(f) \in Editing!Sections
  BY DEF Editing!Forms, Editing!Home, Editing!Sections
<1>3. k.form \in fresh
  BY DEF LiveInv, SavesAreNumbered, Editing!Forms, Editing!Home, Editing!Replaced, Editing!Sections
<1> HIDE DEF parts
<1>4. FormsAreThere'
  BY <1>1 DEF LiveInv, FormsAreThere
<1>5. SavesAreNumbered'
  BY <1>1, <1>2 DEF LiveInv, SavesAreNumbered, FormsAreThere
<1>6. ASSUME NEW j \in saves
      PROVE  Editing!InPage(j)' <=> Editing!InPage(j) /\ j.form \notin fresh
  BY <1>1, <1>2, <1>6 DEF LiveInv, SavesAreNumbered, FormsAreThere, Editing!InPage
<1> HIDE DEF fresh
<1>7. ASSUME NEW g \in Editing!Forms
      PROVE  wired'[g] = 1 /\ (busy'[g] <=> \E j \in saves' : j.form = g /\ Editing!InPage(j)')
  <2>1. wired'[g] = 1
    BY <1>1 DEF LiveInv, Editing!FormsStayLive
  <2>2. CASE g \in fresh
    BY <1>1, <1>6, <2>1, <2>2
  <2>3. CASE g \notin fresh
    BY <1>1, <1>3, <1>6, <2>1, <2>3 DEF LiveInv, Editing!FormsStayLive
  <2> QED BY <2>2, <2>3
<1>8. Editing!FormsStayLive'
  BY <1>1, <1>6, <1>7 DEF LiveInv, Editing!FormsStayLive
<1> QED BY <1>4, <1>5, <1>8 DEF LiveInv

\* A save that committed and whose answer is not in yet: the page may lag behind it.
Behind(s) == \E k \in saves : k.stage # "sent" /\ s \in Editing!Replaced(k.form)

Switching == \E k \in saves : k.form = "inclusion" /\ Editing!InPage(k)

\* Settings, requests and switch have an inclusion to turn.
SwitchHasPosition ==
    /\ DOMAIN server = {"include", "opening", "paused"} /\ server.include \in {0, 1}
    /\ toggle \in {0, 1}
    /\ \A k \in saves : /\ k.stage \in {"sent", "saved", "rendered"}
                        /\ k.form = "inclusion" => k.value \in {0, 1}
                        /\ k.answer.include \in {0, 1}

\* A save that none overlapped is the only one, and its answer is the latest.
AloneIsLatest ==
    \A k \in saves : k.alone => saves = {k} /\ (k.stage = "rendered" => k.answer = server)

\* Sections in no doubt are current but for committed saves, the switch is ahead of the
\* settings while its own request is under way.
PageFollows ==
    /\ \A s \in Editing!Sections \ doubt : Behind(s) \/ page[s] = Editing!Rendered(s, server)
    /\ "row" \notin doubt =>
         Behind("row") \/ toggle = IF Switching THEN Editing!Flip(server.include) ELSE server.include

EditingInv == LiveInv /\ SwitchHasPosition /\ AloneIsLatest /\ PageFollows

\* A request changes nothing of the older ones but that they are not alone.
LEMMA SendKeepsSettled ==
    ASSUME EditingInv, NEW f \in Editing!Forms, NEW value, Editing!Send(f, value),
           IF f = "inclusion" THEN value = toggle' /\ toggle' = Editing!Flip(toggle) ELSE UNCHANGED toggle
    PROVE  SwitchHasPosition' /\ AloneIsLatest' /\ PageFollows'
<1> DEFINE Older(k) == [k EXCEPT !.alone = FALSE]
<1> PICK new : new = [id |-> sent + 1, form |-> f, instance |-> instance[Editing!Home(f)],
                      value |-> value, stage |-> "sent", answer |-> server, alone |-> saves = {}]
  OBVIOUS
<1>1. /\ new.form = f /\ new.instance = instance[Editing!Home(f)] /\ new.value = value
      /\ new.stage = "sent" /\ new.answer = server /\ (new.alone => saves = {})
  OBVIOUS
<1>2. /\ saves' = {Older(k) : k \in saves} \cup {new}
      /\ ~busy[f] /\ UNCHANGED <<server, page, instance, doubt>>
  BY DEF Editing!Send
<1>3. ASSUME NEW k \in saves
      PROVE  /\ Older(k).form = k.form /\ Older(k).instance = k.instance /\ Older(k).value = k.value
             /\ Older(k).stage = k.stage /\ Older(k).answer = k.answer /\ ~Older(k).alone
  BY <1>3 DEF EditingInv, LiveInv, SavesAreNumbered
<1> HIDE DEF Older
<1>4. SwitchHasPosition'
  <2>1. toggle' \in {0, 1} /\ (f = "inclusion" => value \in {0, 1})
    BY DEF EditingInv, SwitchHasPosition, Editing!Flip
  <2> QED BY <1>1, <1>2, <1>3, <2>1 DEF EditingInv, SwitchHasPosition
<1>5. AloneIsLatest'
  BY <1>1, <1>2, <1>3 DEF AloneIsLatest
<1>6. \A s : Behind(s) => Behind(s)'
  BY <1>2, <1>3 DEF Behind
<1>7. CASE f = "inclusion"
  <2>1. ~Switching
    BY <1>2, <1>7 DEF EditingInv, LiveInv, Editing!FormsStayLive, Editing!Forms, Switching
  <2>2. Switching'
    BY <1>1, <1>2, <1>7 DEF Switching, Editing!InPage
  <2> QED BY <1>2, <1>4, <1>5, <1>6, <1>7, <2>1, <2>2 DEF EditingInv, PageFollows
<1>8. CASE f # "inclusion"
  <2>1. Switching' <=> Switching
    BY <1>1, <1>2, <1>3, <1>8 DEF Switching, Editing!InPage
  <2> QED BY <1>2, <1>4, <1>5, <1>6, <1>8, <2>1 DEF EditingInv, PageFollows
<1> QED BY <1>7, <1>8

\* What a commit changes is in the sections its answer replaces.
LEMMA CommitKeepsSettled ==
    ASSUME EditingInv, NEW k \in saves, Editing!Commit(k)
    PROVE  SwitchHasPosition' /\ AloneIsLatest' /\ PageFollows'
<1> PICK c : c = [k EXCEPT !.stage = "saved"]
  OBVIOUS
<1>1. /\ saves' = (saves \ {k}) \cup {c} /\ server' = [server EXCEPT ![Editing!Field(k.form)] = k.value]
      /\ UNCHANGED <<page, toggle, doubt>>
  BY DEF Editing!Commit, Editing!Advance
<1>2. /\ c.form = k.form /\ c.value = k.value /\ c.stage = "saved" /\ c.answer = k.answer
      /\ c.alone = k.alone
  BY DEF EditingInv, LiveInv, SavesAreNumbered
<1>3. k.form \in Editing!Forms
  BY DEF EditingInv, LiveInv, SavesAreNumbered
<1>4. /\ DOMAIN server' = {"include", "opening", "paused"}
      /\ server'.include = IF k.form = "inclusion" THEN k.value ELSE server.include
      /\ k.form # "pause" => server'.paused = server.paused
  BY <1>1, <1>3 DEF EditingInv, SwitchHasPosition, Editing!Field, Editing!Forms
<1>5. SwitchHasPosition'
  BY <1>1, <1>2, <1>4 DEF EditingInv, SwitchHasPosition
<1>6. AloneIsLatest'
  BY <1>1, <1>2 DEF EditingInv, AloneIsLatest
<1>7. \A s : s \in Editing!Replaced(k.form) => Behind(s)'
  BY <1>1, <1>2 DEF Behind
<1>8. \A s : Behind(s) => Behind(s)'
  BY <1>1, <1>2 DEF Behind
<1>9. ASSUME NEW s \in Editing!Sections, s \notin Editing!Replaced(k.form)
      PROVE  Editing!Rendered(s, server') = Editing!Rendered(s, server)
  BY <1>3, <1>4, <1>9 DEF Editing!Sections, Editing!Replaced, Editing!Rendered, Editing!Forms
<1>10. "row" \in Editing!Replaced(k.form)
  BY DEF Editing!Replaced, Editing!Sections
<1>11. PageFollows'
  BY <1>1, <1>7, <1>8, <1>9, <1>10 DEF EditingInv, PageFollows
<1> QED BY <1>5, <1>6, <1>11

\* An answer is rendered from the settings at that time.
LEMMA RenderKeepsSettled ==
    ASSUME EditingInv, NEW k \in saves, Editing!Render(k)
    PROVE  SwitchHasPosition' /\ AloneIsLatest' /\ PageFollows'
<1> PICK c : c = [k EXCEPT !.stage = "rendered", !.answer = server]
  OBVIOUS
<1>1. /\ saves' = (saves \ {k}) \cup {c} /\ k.stage = "saved"
      /\ UNCHANGED <<server, page, toggle, doubt>>
  BY DEF Editing!Render, Editing!Advance
<1>2. /\ c.form = k.form /\ c.value = k.value /\ c.stage = "rendered" /\ c.answer = server
      /\ c.alone = k.alone
  BY DEF EditingInv, LiveInv, SavesAreNumbered
<1>3. SwitchHasPosition'
  BY <1>1, <1>2 DEF EditingInv, SwitchHasPosition
<1>4. AloneIsLatest'
  BY <1>1, <1>2 DEF EditingInv, AloneIsLatest
<1>5. \A s : Behind(s) <=> Behind(s)'
  BY <1>1, <1>2 DEF Behind
<1>6. "row" \in Editing!Replaced(k.form)
  BY DEF Editing!Replaced, Editing!Sections
<1>7. Behind("row")
  BY <1>1, <1>6 DEF Behind
<1>8. PageFollows'
  BY <1>1, <1>5, <1>7 DEF EditingInv, PageFollows
<1> QED BY <1>3, <1>4, <1>8

\* A refused switch turns back; what was saved and not answered is in doubt.
LEMMA ErrorKeepsSettled ==
    ASSUME EditingInv, NEW k \in saves, Editing!Refuse(k) \/ Editing!LoseAnswer(k)
    PROVE  SwitchHasPosition' /\ AloneIsLatest' /\ PageFollows'
<1>1. /\ saves' = saves \ {k} /\ UNCHANGED <<server, page, instance>>
      /\ toggle' = IF Editing!InPage(k) /\ k.form = "inclusion" THEN Editing!Flip(toggle) ELSE toggle
  BY DEF Editing!Refuse, Editing!LoseAnswer, Editing!ShowError, Editing!TurnBack
<1>2. SwitchHasPosition'
  BY <1>1 DEF EditingInv, SwitchHasPosition, Editing!Flip
<1>3. AloneIsLatest'
  BY <1>1 DEF EditingInv, AloneIsLatest
<1>4. "row" \in Editing!Replaced(k.form)
  BY DEF Editing!Replaced, Editing!Sections
<1>5. CASE Editing!Refuse(k)
  <2>1. k.stage = "sent" /\ doubt' = doubt
    BY <1>5 DEF Editing!Refuse
  <2>2. \A s : Behind(s) <=> Behind(s)'
    BY <1>1, <2>1 DEF Behind
  <2>3. CASE Editing!InPage(k) /\ k.form = "inclusion"
    <3>1. Switching
      BY <2>3 DEF Switching
    <3>2. ~Switching'
      BY <1>1, <2>3 DEF EditingInv, LiveInv, Editing!FormsStayLive, Switching, Editing!InPage
    <3>3. Editing!Flip(Editing!Flip(server.include)) = server.include
      BY DEF EditingInv, SwitchHasPosition, Editing!Flip
    <3> QED BY <1>1, <1>2, <1>3, <2>1, <2>2, <2>3, <3>1, <3>2, <3>3 DEF EditingInv, PageFollows
  <2>4. CASE ~(Editing!InPage(k) /\ k.form = "inclusion")
    <3>1. Switching' <=> Switching
      BY <1>1, <2>4 DEF Switching, Editing!InPage
    <3> QED BY <1>1, <1>2, <1>3, <2>1, <2>2, <2>4, <3>1 DEF EditingInv, PageFollows
  <2> QED BY <2>3, <2>4
<1>6. CASE Editing!LoseAnswer(k)
  <2>1. doubt' = doubt \cup Editing!Replaced(k.form)
    BY <1>6 DEF Editing!LoseAnswer
  <2>2. ASSUME NEW s, s \notin Editing!Replaced(k.form) PROVE Behind(s) <=> Behind(s)'
    BY <1>1, <2>2 DEF Behind
  <2> QED BY <1>1, <1>2, <1>3, <1>4, <2>1, <2>2 DEF EditingInv, PageFollows
<1> QED BY <1>5, <1>6

\* An answer no other save overlapped is the stored settings; others leave doubt.
LEMMA ApplyKeepsSettled ==
    ASSUME EditingInv, NEW k \in saves, Editing!Apply(k)
    PROVE  SwitchHasPosition' /\ AloneIsLatest' /\ PageFollows'
<1>1. /\ saves' = saves \ {k} /\ UNCHANGED server /\ toggle' = k.answer.include
      /\ k.stage = "rendered"
      /\ page' = [s \in Editing!Sections |->
                     IF s \in Editing!Replaced(k.form) THEN Editing!Rendered(s, k.answer) ELSE page[s]]
      /\ doubt' = IF k.alone THEN doubt \ Editing!Replaced(k.form)
                  ELSE doubt \cup Editing!Replaced(k.form)
  BY DEF Editing!Apply
<1>2. SwitchHasPosition'
  BY <1>1 DEF EditingInv, SwitchHasPosition
<1>3. AloneIsLatest'
  BY <1>1 DEF EditingInv, AloneIsLatest
<1>4. "row" \in Editing!Replaced(k.form)
  BY DEF Editing!Replaced, Editing!Sections
<1>5. ASSUME NEW s, s \notin Editing!Replaced(k.form) PROVE Behind(s) <=> Behind(s)'
  BY <1>1, <1>5 DEF Behind
<1>6. CASE k.alone
  <2>1. saves' = {} /\ k.answer = server
    BY <1>1, <1>6 DEF EditingInv, AloneIsLatest
  <2>2. ~Switching'
    BY <2>1 DEF Switching
  <2> QED BY <1>1, <1>2, <1>3, <1>4, <1>5, <1>6, <2>1, <2>2 DEF EditingInv, PageFollows
<1>7. CASE ~k.alone
  BY <1>1, <1>2, <1>3, <1>4, <1>5, <1>7 DEF EditingInv, PageFollows
<1> QED BY <1>6, <1>7

\* The planner's forms start in their invariant.
LEMMA EditingStarts == Editing!Init => EditingInv
<1> SUFFICES ASSUME Editing!Init PROVE EditingInv OBVIOUS
<1>1. LiveInv
  BY DEF Editing!Init, LiveInv, SavesAreNumbered, FormsAreThere, Editing!FormsStayLive
<1>2. SwitchHasPosition
  BY DEF Editing!Init, Editing!Settings, SwitchHasPosition
<1>3. AloneIsLatest
  BY DEF Editing!Init, AloneIsLatest
<1>4. PageFollows
  BY DEF Editing!Init, PageFollows, Switching
<1> QED BY <1>1, <1>2, <1>3, <1>4 DEF EditingInv

\* Every step of the planner's forms keeps their invariant.
LEMMA EditingKept ==
    ASSUME EditingInv, Editing!Next
    PROVE  EditingInv'
<1>1. ASSUME NEW f \in Editing!Forms, NEW value, Editing!Send(f, value),
             IF f = "inclusion" THEN value = toggle' /\ toggle' = Editing!Flip(toggle) ELSE UNCHANGED toggle
      PROVE  EditingInv'
  BY <1>1, SendKeepsLive, SendKeepsSettled DEF EditingInv
<1>2. "inclusion" \in Editing!Forms /\ "opening" \in Editing!Forms /\ "pause" \in Editing!Forms
  BY DEF Editing!Forms
<1>3. CASE Editing!Include
  BY <1>1, <1>2, <1>3 DEF Editing!Include
<1>4. CASE Editing!Pause
  BY <1>1, <1>2, <1>4 DEF Editing!Pause
<1>5. CASE Editing!EditOpening \/ Editing!CancelOpening
  <2>1. UNCHANGED <<server, page, toggle, instance, wired, busy, saves, sent, doubt>>
    BY <1>5 DEF Editing!EditOpening, Editing!CancelOpening
  <2> QED BY <2>1 DEF EditingInv, LiveInv, SavesAreNumbered, FormsAreThere, Editing!FormsStayLive,
                      SwitchHasPosition, AloneIsLatest, PageFollows, Behind, Switching, Editing!InPage
<1>6. CASE \E value \in Openings : Editing!SaveOpening(value)
  BY <1>1, <1>2, <1>6 DEF Editing!SaveOpening
<1>7. ASSUME NEW k \in saves, Editing!Commit(k) PROVE EditingInv'
  BY <1>7, ServerKeepsLive, CommitKeepsSettled DEF EditingInv
<1>8. ASSUME NEW k \in saves, Editing!Render(k) PROVE EditingInv'
  BY <1>8, ServerKeepsLive, RenderKeepsSettled DEF EditingInv
<1>9. ASSUME NEW k \in saves, Editing!Refuse(k) \/ Editing!LoseAnswer(k) PROVE EditingInv'
  <2>1. Editing!ShowError(k)
    BY <1>9 DEF Editing!Refuse, Editing!LoseAnswer
  <2> QED BY <1>9, <2>1, ErrorKeepsLive, ErrorKeepsSettled DEF EditingInv
<1>10. ASSUME NEW k \in saves, Editing!Apply(k) PROVE EditingInv'
  BY <1>10, ApplyKeepsLive, ApplyKeepsSettled DEF EditingInv
<1> QED BY <1>3, <1>4, <1>5, <1>6, <1>7, <1>8, <1>9, <1>10 DEF Editing!Next

\* The invariant of the forms holds in the tab.
LEMMA EditingInvariance == Spec => [](tab = "planner" => EditingInv)
<1> DEFINE I == tab = "planner" => EditingInv
<1>1. Init => I
  BY EditingStarts DEF Init
<1>2. I /\ [Next]_vars => I'
  <2> SUFFICES ASSUME I, [Next]_vars PROVE I' OBVIOUS
  <2>1. CASE EditingStep
    BY <2>1, EditingKept DEF EditingStep
  <2>2. CASE ActivityStep \/ NotesStep \/ FormStep \/ MoneyStep \/ SettingsStep
    BY <2>2 DEF ActivityStep, NotesStep, FormStep, MoneyStep, SettingsStep
  <2>3. CASE UNCHANGED vars
    <3>1. UNCHANGED <<tab, server, page, toggle, instance, wired, busy, saves, sent, doubt>>
      BY <2>3 DEF vars, editingVars
    <3> QED BY <3>1 DEF EditingInv, LiveInv, SavesAreNumbered, FormsAreThere, Editing!FormsStayLive,
                        SwitchHasPosition, AloneIsLatest, PageFollows, Behind, Switching, Editing!InPage
  <2> QED BY <2>1, <2>2, <2>3 DEF Next
<1> QED BY <1>1, <1>2, PTL DEF Spec

\* However answers replace forms whose requests are under way, every form in the page
\* has its listeners once and is disabled only while it saves.
THEOREM FormsAlwaysLive == Spec => []FormsStayLive
<1>1. (tab = "planner" => EditingInv) => FormsStayLive
  BY DEF FormsStayLive, EditingInv, LiveInv
<1> QED BY <1>1, EditingInvariance, PTL

\* Once nothing is under way, the page shows what is stored, switch included, in every
\* section last replaced by a save none overlapped.
THEOREM SettledShowsStored == Spec => []SettledIsShown
<1>1. (tab = "planner" => EditingInv) => SettledIsShown
  BY DEF SettledIsShown, EditingInv, PageFollows, Behind, Switching, Editing!SettledIsShown
<1> QED BY <1>1, EditingInvariance, PTL

=============================================================================
