------------------------------ MODULE MoneyInput ------------------------------
(***************************************************************************)
(* An amount field of a web form (money-input.js): the text the user sees  *)
(* and edits, in the number format of the chosen currency, and the hidden  *)
(* field that is posted, with a point and without separators.              *)
(*                                                                         *)
(* Texts are sequences of characters.  The caret is left out: characters   *)
(* are typed and deleted anywhere.  The options that a page gives a field  *)
(* for good are chosen: fields allow negative amounts with fixed decimals  *)
(* (planner) or without (accounts), or neither, and only a field that      *)
(* allows them is opened with one.                                         *)
(***************************************************************************)
EXTENDS Naturals, Sequences, SequencesExt

CONSTANTS
    Formats,    \* [places, decimal, thousands]: the number formats of the currencies
    Stored,     \* amounts the page can be opened with
    Keys,       \* characters that can be typed
    MaxLength   \* bound on the length of a text that is edited

VARIABLES
    display,        \* the text shown
    canonical,      \* the hidden field
    format,         \* of the currency chosen in the form
    allowNegative,  \* data-money-allow-negative
    fixedDecimals   \* data-money-fixed-decimals

vars == <<display, canonical, format, allowNegative, fixedDecimals>>

Digits == {"0", "1", "2", "3", "4", "5", "6", "7", "8", "9"}

OnlyDigits(text) == SelectSeq(text, LAMBDA c : c \in Digits)

LastOf(text, marks) == SelectLastInSeq(text, LAMBDA c : c \in marks)

\* The parts of a text around position i; everything is before position 0.
Before(text, i) == IF i = 0 THEN text ELSE SubSeq(text, 1, i - 1)
After(text, i) == IF i = 0 THEN <<>> ELSE SubSeq(text, i + 1, Len(text))

Cut(digits, places) == SubSeq(digits, 1, IF Len(digits) < places THEN Len(digits) ELSE places)

\* Zeros before another digit are dropped.
DropZeros(digits) ==
    LET first == SelectInSeq(digits, LAMBDA c : c # "0")
    IN IF digits = <<>> THEN <<>>
       ELSE SubSeq(digits, IF first = 0 THEN Len(digits) ELSE first, Len(digits))

-----------------------------------------------------------------------------
(* parse, render and the two functions that use them.                      *)

\* A leading minus sign, after blanks.
Minus(text) ==
    /\ allowNegative
    /\ \E i \in 1..Len(text) : text[i] = "-" /\ \A j \in 1..(i - 1) : text[j] = " "

\* Mutant: thousands separators are not removed.
KeepSeparators(text, f) == SelectSeq(text, LAMBDA c : c # " ")

\* The text without thousands separators and blanks.
Normalized(text, f) == SelectSeq(text, LAMBDA c : c \notin {f.thousands, " "})

\* Without the format's decimal separator, a point or a comma is one.
Parse(text, f) ==
    LET normalized == Normalized(text, f)
        configured == LastOf(normalized, {f.decimal})
        mark == IF configured > 0 THEN configured ELSE LastOf(normalized, {".", ","})
        whole == DropZeros(OnlyDigits(Before(normalized, mark)))
    IN IF OnlyDigits(text) = <<>>
       THEN [integer |-> <<>>, fraction |-> <<>>, hasDecimal |-> FALSE]
       ELSE [integer |-> IF whole = <<>> THEN <<"0">> ELSE whole,
             fraction |-> Cut(OnlyDigits(After(normalized, mark)), f.places),
             hasDecimal |-> mark > 0 /\ f.places > 0]

Sign(negative) == IF negative THEN <<"-">> ELSE <<>>

\* A separator before every third digit from the right, the first digit excepted.
Grouped(digits, separator) ==
    FlattenSeq([i \in 1..Len(digits) |->
        IF i > 1 /\ (Len(digits) - i + 1) % 3 = 0 THEN <<separator, digits[i]>> ELSE <<digits[i]>>])

Render(negative, parts, f) ==
    Sign(negative) \o Grouped(parts.integer, f.thousands)
        \o (IF parts.hasDecimal THEN <<f.decimal>> \o parts.fraction ELSE <<>>)

Canonical(negative, parts) ==
    Sign(negative /\ parts.integer # <<>>) \o parts.integer
        \o (IF parts.fraction # <<>> THEN <<".">> \o parts.fraction ELSE <<>>)

\* formatInput: what was typed is put in form, and the hidden field with it.
FormatInput(text) ==
    LET parts == Parse(text, format)
    IN /\ display' = Render(Minus(text), parts, format)
       /\ canonical' = Canonical(Minus(text), parts)

Pad(fraction, places) ==
    [i \in 1..(IF Len(fraction) < places THEN places ELSE Len(fraction)) |->
        IF i <= Len(fraction) THEN fraction[i] ELSE "0"]

\* The sign of a hidden field.
Negative(value) == value # <<>> /\ value[1] = "-"

\* renderCanonical: what is shown for the hidden field in a format.
RenderCanonical(value, f) ==
    LET mark == LastOf(value, {"."})
        fraction == After(value, mark)
        whole == OnlyDigits(Before(value, mark))
    IN IF value = <<>> THEN <<>>
       ELSE Render(allowNegative /\ Negative(value),
                   [integer |-> IF whole = <<>> THEN <<"0">> ELSE whole,
                    fraction |-> Cut(IF fixedDecimals THEN Pad(fraction, f.places) ELSE fraction, f.places),
                    hasDecimal |-> (fixedDecimals \/ fraction # <<>>) /\ f.places > 0],
                   f)

-----------------------------------------------------------------------------
(* The listeners.                                                          *)

Insert(i, c) == /\ Len(display) < MaxLength
                /\ FormatInput(InsertAt(display, i, c))
                /\ UNCHANGED <<format, allowNegative, fixedDecimals>>

Delete(i) == /\ Len(display) <= MaxLength
             /\ FormatInput(RemoveAt(display, i))
             /\ UNCHANGED <<format, allowNegative, fixedDecimals>>

\* Another account or currency is chosen.
ChangeFormat(f) == /\ format' = f
                   /\ display' = RenderCanonical(canonical, f)
                   /\ UNCHANGED <<canonical, allowNegative, fixedDecimals>>

\* The field loses the focus.
Blur == /\ fixedDecimals
        /\ display' = RenderCanonical(canonical, format)
        /\ UNCHANGED <<canonical, format, allowNegative, fixedDecimals>>

\* Before the form is submitted.
Submit == /\ FormatInput(display)
          /\ UNCHANGED <<format, allowNegative, fixedDecimals>>

Init == /\ format \in Formats
        /\ canonical \in Stored
        /\ allowNegative \in BOOLEAN /\ fixedDecimals \in BOOLEAN
        /\ fixedDecimals \/ Negative(canonical) => allowNegative
        /\ display = RenderCanonical(canonical, format)

Next == \/ \E i \in 1..(Len(display) + 1), c \in Keys : Insert(i, c)
        \/ \E i \in 1..Len(display) : Delete(i)
        \/ \E f \in Formats : ChangeFormat(f)
        \/ Blur
        \/ Submit

Spec == Init /\ [][Next]_vars

-----------------------------------------------------------------------------
(* Properties.                                                             *)

\* The amount a reader of a text sees, with this decimal separator.
Reading(text, decimal) ==
    LET mark == LastOf(text, {decimal})
        fraction == OnlyDigits(After(text, mark))
    IN [negative |-> OnlyDigits(text) # <<>> /\ text[1] = "-",
        integer |-> OnlyDigits(Before(text, mark)),
        fraction |-> Before(fraction, SelectLastInSeq(fraction, LAMBDA c : c # "0") + 1)]

\* Whatever was typed, deleted or switched before, a form that is submitted now posts
\* the amount its field shows, sign included, as it reads in the format of the chosen
\* currency: the submit listener takes the hidden field from the text, which this or
\* another format rendered (formatInput, renderCanonical).
PostsWhatIsShown ==
    Reading(Canonical(Minus(display), Parse(display, format)), ".") = Reading(display, format.decimal)

\* "Formatting changes presentation only": submitting a form changes no amount.
StoredAmountSurvives ==
    [][Submit => Reading(canonical', ".") = Reading(canonical, ".")]_vars
=============================================================================
