----------------------------- MODULE PlannerForm ------------------------------
(***************************************************************************)
(* The form of a planned item (planner-form.js, planner-select.js): the    *)
(* account and, for a transfer, the target account are chosen in lists     *)
(* that are opened and walked through; the hidden fields that are posted   *)
(* follow the choices and the amounts typed.                               *)
(*                                                                         *)
(* MoneyInput has the texts of the amounts.  Here an amount is a number of *)
(* half units, and a currency without decimals shows whole units only.     *)
(* The type is fixed when the form is rendered; categories, note, date and *)
(* preview are left out.  The field for the amount in the account's        *)
(* currency is always disabled: update() has made the currencies equal.    *)
(***************************************************************************)
EXTENDS Naturals, FiniteSetsExt

CONSTANTS
    Accounts,       \* positive numbers, in the order of the lists
    Currencies,
    CurrencyOf,     \* CurrencyOf[a]: the currency of account a
    Whole,          \* currencies shown without decimals
    Amounts         \* what can be typed or was stored, in half units

\* The choice "Select account"; its currency is NoCurrency.  An empty amount is 0.
NoAccount == 0
NoCurrency == ""

Assumptions ==
    /\ Accounts \subseteq Nat \ {0}
    /\ CurrencyOf \in [Accounts -> Currencies]
    /\ Amounts \subseteq Nat

VARIABLES
    transfer,       \* the type is Transfer
    account, target, currency,              \* the selects
    amount, accountAmount, targetAmount,    \* the hidden amounts
    shownAmount, shownTarget,               \* their displays
    open,           \* lists that are open
    offered,        \* offered[l]: the options in list l
    active,         \* active[l]: the option highlighted
    posted          \* what was submitted last

selects == <<account, target, currency>>
amounts == <<amount, accountAmount, targetAmount, shownAmount, shownTarget>>
lists == <<open, offered, active>>
vars == <<transfer, selects, amounts, lists, posted>>

Lists == {"account", "target"}
Options == Accounts \cup {NoAccount}

CurrencyAt(a) == IF a = NoAccount THEN NoCurrency ELSE CurrencyOf[a]

\* What a display renders of an amount in the format of an account.
Shown(v, a) == IF CurrencyAt(a) \in Whole THEN v - (v % 2) ELSE v

-----------------------------------------------------------------------------
(* update and sync.                                                        *)

\* The currency is that of the account, once there is one.
Forced(a) == IF a = NoAccount THEN currency ELSE CurrencyOf[a]

SameCurrency(a, t) == transfer /\ CurrencyAt(a) = CurrencyAt(t)

\* Sync in a form with account a, target t, currency c, and these amounts.
Sync(a, t, c, value, shown, credited, shownCredit) ==
    /\ amount' = value
    /\ shownAmount' = shown
    /\ accountAmount' = IF transfer \/ c = CurrencyAt(a) THEN value ELSE accountAmount
    /\ targetAmount' = IF ~transfer THEN 0 ELSE IF SameCurrency(a, t) THEN value ELSE credited
    /\ shownTarget' = IF SameCurrency(a, t) THEN shown ELSE shownCredit

\* The displays of the account's amounts are rendered before update.
ChangeAccount(a) ==
    /\ account' = a
    /\ currency' = Forced(a)
    /\ Sync(a, target, Forced(a), amount, Shown(amount, a), targetAmount, shownTarget)
    /\ UNCHANGED <<transfer, target, posted>>

ChangeTarget(t) ==
    /\ target' = t
    /\ Sync(account, t, currency, amount, shownAmount, targetAmount, Shown(targetAmount, t))
    /\ UNCHANGED <<transfer, account, currency, posted>>

-----------------------------------------------------------------------------
(* The lists.                                                              *)

Selected(l) == IF l = "account" THEN account ELSE target

\* An account is no target of its own transfer.
Enabled(l) == IF l = "account" THEN Options ELSE Options \ (IF account = NoAccount THEN {} ELSE {account})

Visible(l) == l = "account" \/ transfer

\* Mutant: the options are taken when the list is opened for the first time.
OfferOnce(l) == offered' = [offered EXCEPT ![l] = IF @ = {} THEN Enabled(l) ELSE @]

\* The options of the select that are not disabled.
Offer(l) == offered' = [offered EXCEPT ![l] = Enabled(l)]

\* closeActive, and the blur of the other list's button, close what was open.
OpenList(l) ==
    /\ l \notin open /\ Visible(l)
    /\ open' = {l}
    /\ Offer(l)
    /\ active' = [active EXCEPT ![l] = IF Selected(l) \in Enabled(l) THEN Selected(l) ELSE NoAccount]
    /\ UNCHANGED <<transfer, selects, amounts, posted>>

\* Escape, Tab, a click beside the list or on its button.
CloseList(l) ==
    /\ l \in open
    /\ open' = open \ {l}
    /\ UNCHANGED <<transfer, selects, amounts, offered, active, posted>>

\* The option after this one, or the last.
Following(v, options) == LET later == {w \in options : w > v} IN IF later = {} THEN v ELSE Min(later)
Preceding(v, options) == LET earlier == {w \in options : w < v} IN IF earlier = {} THEN v ELSE Max(earlier)

\* The arrows, Home and End; a letter finds the first option it begins.
Highlight(l) ==
    /\ l \in open
    /\ \E v \in offered[l] \cup {Following(active[l], offered[l]), Preceding(active[l], offered[l])} :
          active' = [active EXCEPT ![l] = v]
    /\ UNCHANGED <<transfer, selects, amounts, open, offered, posted>>

\* A click on an option, or Enter on the one highlighted.
Choose(l, v) ==
    /\ l \in open /\ v \in offered[l]
    /\ IF l = "account" THEN ChangeAccount(v) ELSE ChangeTarget(v)
    /\ open' = open \ {l}
    /\ UNCHANGED <<offered, active>>

-----------------------------------------------------------------------------
(* The amounts, and the form.                                              *)

\* formatInput and the change event of the hidden field.
TypeAmount(v) ==
    /\ Sync(account, target, currency, Shown(v, account), Shown(v, account), targetAmount, shownTarget)
    /\ UNCHANGED <<transfer, selects, lists, posted>>

\* The display is read-only when the currencies are the same.
TypeTarget(v) ==
    /\ transfer /\ ~SameCurrency(account, target)
    /\ Sync(account, target, currency, amount, shownAmount, Shown(v, target), Shown(v, target))
    /\ UNCHANGED <<transfer, selects, lists, posted>>

\* Mutant: the displays are not read again.
PostAsStored ==
    Sync(account, target, currency, amount, shownAmount, targetAmount, shownTarget)

\* The amounts are read again from the displays, then synchronised.
ReadDisplays ==
    Sync(account, target, currency, shownAmount, shownAmount,
         IF transfer THEN shownTarget ELSE targetAmount, shownTarget)

\* The browser lets a form with all required fields go; a disabled option is not
\* posted though it is selected.  An amount of 0 stands for an empty text and for one
\* that reads 0, which the browser lets go and the server refuses.
Submit ==
    /\ account # NoAccount /\ shownAmount # 0
    /\ transfer => target # NoAccount /\ shownTarget # 0
    /\ ReadDisplays
    /\ posted' = [account |-> account, currency |-> currency,
                  target |-> IF transfer /\ target # account THEN target ELSE NoAccount,
                  amount |-> amount', accountAmount |-> accountAmount',
                  targetAmount |-> targetAmount']
    /\ UNCHANGED <<transfer, selects, lists>>

-----------------------------------------------------------------------------
NotPosted == [account |-> NoAccount, currency |-> NoCurrency, target |-> NoAccount, amount |-> 0,
              accountAmount |-> 0, targetAmount |-> 0]

\* The page as rendered, for a new item, a stored one or one that was refused, after
\* the scripts have run: an amount planned in another currency is replaced by the
\* amount in the account's.
Loaded(original, c, stored, credited) ==
    /\ currency = IF account = NoAccount THEN c ELSE CurrencyOf[account]
    /\ amount = IF ~transfer /\ account # NoAccount /\ c # CurrencyOf[account] THEN stored ELSE original
    /\ shownAmount = Shown(amount, account)
    /\ accountAmount = IF transfer \/ account # NoAccount THEN amount ELSE stored
    /\ targetAmount = IF ~transfer THEN 0 ELSE IF SameCurrency(account, target) THEN amount ELSE credited
    /\ shownTarget = IF SameCurrency(account, target) THEN shownAmount ELSE Shown(credited, target)

Init == /\ transfer \in BOOLEAN
        /\ account \in Options /\ target \in (IF transfer THEN Options ELSE {NoAccount})
        /\ \E c \in Currencies, original, stored, credited \in Amounts \cup {0} :
              Loaded(original, c, stored, credited)
        /\ open = {}
        /\ offered = [l \in Lists |-> {}]
        /\ active = [l \in Lists |-> NoAccount]
        /\ posted = NotPosted

Next == \/ \E l \in Lists : OpenList(l) \/ CloseList(l) \/ Highlight(l)
        \/ \E l \in Lists, v \in Options : Choose(l, v)
        \/ \E v \in Amounts : TypeAmount(v) \/ TypeTarget(v)
        \/ Submit

Spec == Init /\ [][Next]_vars

-----------------------------------------------------------------------------
(* Properties.                                                             *)

\* A form that is let go posts what PlannerRules demands of a plan and what the form
\* shows: the currency is the account's and both amounts are the one displayed, an
\* account is not its own target, a transfer within a currency credits what it debits,
\* and nothing but a transfer has a target (update, sync, and the submit listeners).
PostedPlanAgrees ==
    posted # NotPosted =>
        /\ posted.currency = CurrencyOf[posted.account]
        /\ posted.amount = Shown(posted.amount, posted.account)
        /\ posted.accountAmount = posted.amount
        /\ posted.target # posted.account
        /\ IF transfer
           THEN posted.target # NoAccount /\ CurrencyOf[posted.target] = posted.currency =>
                    posted.targetAmount = posted.amount
           ELSE posted.target = NoAccount /\ posted.targetAmount = 0

\* An open list offers what can be chosen now, highlights one of it, and is the only
\* one that is open: a choice in one list changes the options of the other.
ListsAreCurrent ==
    \A l \in open :
        /\ offered[l] = Enabled(l) /\ active[l] \in offered[l]
        /\ open = {l}
=============================================================================
