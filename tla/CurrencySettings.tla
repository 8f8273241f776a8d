--------------------------- MODULE CurrencySettings ---------------------------
(***************************************************************************)
(* The currency formats on the settings page (settings.js): a list of      *)
(* currencies, one editor for each of which one is shown, a select that    *)
(* adds one and the select of the default currency.                        *)
(*                                                                         *)
(* Editors post their fields under a key; those of the server are numbered *)
(* from zero.  What an editor contains is left out.  Removing a currency   *)
(* selects the first that is left; which that is makes no difference here  *)
(* and is chosen.                                                          *)
(***************************************************************************)
EXTENDS Naturals, FiniteSets

CONSTANTS
    Codes,      \* currencies
    None,       \* the empty choice
    MaxKey      \* bound on the keys given out

VARIABLES
    items,          \* currencies in the list
    key,            \* key[c]: the key of the editor of c; its domain are the editors
    nextKey,
    offered,        \* options of the select that adds a currency
    addSelect,      \* its value
    defaultSelect,  \* the default currency
    removable,      \* editors whose Remove button is shown
    active,         \* the item marked in the list, or None
    shown           \* the editor shown, or None

vars == <<items, key, nextKey, offered, addSelect, defaultSelect, removable, active, shown>>

Editors == DOMAIN key

Assumptions == None \notin Codes /\ MaxKey \in Nat

-----------------------------------------------------------------------------
\* select(code) in a page with these items and editors.
Select(c, inList, withEditor) ==
    /\ active' = IF c \in inList THEN c ELSE None
    /\ shown' = IF c \in withEditor THEN c ELSE None

\* refreshDefault(): every currency but the default can be removed.
RefreshDefault(default, withEditor) == removable' = withEditor \ {default}

\* Mutant: the next key is the number of editors.
CountedKey == Cardinality(Editors)

NextKey == nextKey

HideOption(c) == offered' = offered \ {c}

\* add(code) without an early return, with the default that is selected by then.
AddNew(c, default) ==
    /\ c # None /\ c \notin Editors
    /\ nextKey < MaxKey
    /\ key' = [d \in Editors \cup {c} |-> IF d = c THEN NextKey ELSE key[d]]
    /\ nextKey' = nextKey + 1
    /\ items' = items \cup {c}
    /\ HideOption(c)
    /\ addSelect' = None
    /\ RefreshDefault(default, Editors \cup {c})
    /\ Select(c, items \cup {c}, Editors \cup {c})

SelectItem(c) ==
    /\ c \in items
    /\ Select(c, items, Editors)
    /\ UNCHANGED <<items, key, nextKey, offered, addSelect, defaultSelect, removable>>

\* The user opens the select and picks an option that is not hidden.
ChooseOption(c) ==
    /\ c \in offered \cup {None}
    /\ addSelect' = c
    /\ UNCHANGED <<items, key, nextKey, offered, defaultSelect, removable, active, shown>>

\* The Add button, or Enter in the select; without a choice nothing stays selected.
AddChosen ==
    \/ AddNew(addSelect, defaultSelect) /\ UNCHANGED defaultSelect
    \/ /\ addSelect \in Editors \cup {None}
       /\ Select(addSelect, items, Editors)
       /\ UNCHANGED <<items, key, nextKey, offered, addSelect, defaultSelect, removable>>

ChangeDefault(c) ==
    /\ defaultSelect' = c
    /\ \/ AddNew(c, c)
       \/ /\ c \in Editors
          /\ Select(c, items, Editors)
          /\ RefreshDefault(c, Editors)
          /\ UNCHANGED <<items, key, nextKey, offered, addSelect>>

\* The Remove button of the editor that is shown.
Remove(c) ==
    /\ c = shown /\ c \in removable
    /\ c # defaultSelect
    /\ items' = items \ {c}
    /\ key' = [d \in Editors \ {c} |-> key[d]]
    /\ offered' = offered \cup {c}
    /\ removable' = removable \ {c}
    /\ \/ \E d \in items \ {c} : Select(d, items \ {c}, Editors \ {c})
       \/ items \ {c} = {} /\ Select(None, {}, Editors \ {c})
    /\ UNCHANGED <<nextKey, addSelect, defaultSelect>>

-----------------------------------------------------------------------------
\* The page of the server: the default currency is always among the formats
\* (SettingsController.ToViewModel), and is selected.
Init == /\ items \in SUBSET Codes
        /\ defaultSelect \in items
        /\ nextKey \in 0..MaxKey
        /\ key \in [items -> 0..(nextKey - 1)]
        /\ {key[c] : c \in items} = 0..(nextKey - 1)
        /\ \A c, d \in items : key[c] = key[d] => c = d
        /\ offered = Codes \ items
        /\ addSelect = None
        /\ removable = items \ {defaultSelect}
        /\ active = defaultSelect
        /\ shown = defaultSelect

Next == \/ \E c \in Codes : SelectItem(c) \/ ChangeDefault(c) \/ Remove(c)
        \/ \E c \in Codes \cup {None} : ChooseOption(c)
        \/ AddChosen

Spec == Init /\ [][Next]_vars

-----------------------------------------------------------------------------
(* Properties.                                                             *)

\* What the form posts: one format for each listed currency, under a key of its own,
\* so that none overwrites the fields of another.
FormatsPostedOnce ==
    /\ Editors = items
    /\ \A c, d \in Editors : key[c] = key[d] => c = d

\* The default currency has a format and cannot be removed, however it is changed.
DefaultKept == defaultSelect \in items /\ removable = items \ {defaultSelect}

\* The editor shown is that of the item marked, and exactly the currencies that are
\* not listed can be added.
ViewsAgree ==
    /\ active = shown /\ active \in items \cup {None}
    /\ offered = Codes \ items

\* The four places that list currencies, the items, the editors, the select that adds
\* one and the default, tell the same after every change of one (add, remove,
\* refreshDefault), and the formats are posted one by one.
SettingsAgree == FormatsPostedOnce /\ DefaultKept /\ ViewsAgree
=============================================================================
