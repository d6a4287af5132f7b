----------------------------- MODULE FilterForm -----------------------------
(***************************************************************************)
(* The filter form of the image library (web/src/features/images/          *)
(* image-list-page.tsx), between three representations of a filter: what   *)
(* is in the form, the address of the page and the query of the list.      *)
(*                                                                         *)
(* A size is typed in tenths of a MiB and travels in bytes; a day is       *)
(* chosen in local time and travels as an instant in UTC, counted in       *)
(* hours; a text may have spaces around it.                                *)
(***************************************************************************)
EXTENDS Integers

CONSTANTS
    Tenths,     \* sizes a user types, in tenths of a MiB; 0 is none
    Bytes,      \* sizes in an address made by hand, in bytes
    LocalDays,  \* days a user chooses
    Zones,      \* offsets of the local time in hours
    Blank       \* an absent parameter, an empty field

\* What an instance must satisfy.
FormAssumption ==
    /\ Tenths \subseteq Nat /\ Bytes \subseteq Nat \ {0} /\ LocalDays \subseteq Nat
    /\ Zones \subseteq -12..14 /\ Blank \notin Int \cup {"word", " word "}

VARIABLES
    zone,           \* of this browser
    address,        \* [q, from, to, size]: the parameters in the address
    form,           \* [q, from, to, size]: what the form shows
    advancedOpen,   \* the advanced filters are unfolded
    edited          \* ghost: the form was edited since it was filled in, or
                    \* the address was made by hand

formVars == <<zone, address, form, advancedOpen, edited>>

MiB == 1048576
Empty == [q |-> Blank, from |-> Blank, to |-> Blank, size |-> Blank]
Words == {Blank, "word", " word "}

\* Math.round(a / b) of positive numbers.
Round(a, b) == (2 * a + b) \div (2 * b)

\* trim of a field, and append, which drops an empty one.
append(text) == IF text = " word " THEN "word" ELSE text

\* appendMiB: a positive size.
appendMiB(tenths) == IF tenths = Blank \/ tenths = 0 THEN Blank ELSE Round(tenths * MiB, 10)

\* bytesToMiB: tenths of a MiB.
bytesToMiB(bytes) == IF bytes = Blank \/ bytes = 0 THEN Blank ELSE Round(bytes * 10, MiB)

\* appendDate: the first or the last moment of a local day.
appendDate(day, endOfDay) ==
    IF day = Blank THEN Blank ELSE 24 * day + (IF endOfDay THEN 23 ELSE 0) - zone

\* BROKEN, for mutation: the day of the instant in UTC.
dateParameterValueUTC(instant) == IF instant = Blank THEN Blank ELSE instant \div 24

\* dateParameterValue: the local day of an instant.
dateParameterValue(instant) == IF instant = Blank THEN Blank ELSE (instant + zone) \div 24

\* normalizedFilterQuery: the parameters of the list, trimmed.
normalizedFilterQuery(a) == [a EXCEPT !.q = append(@)]

hasAdvancedParameters(a) == \E name \in {"from", "to", "size"} : a[name] # Blank

\* What an address puts into the form: the fields, and with an effect the dates.
FormOf(a) == [q |-> normalizedFilterQuery(a).q, from |-> dateParameterValue(a.from),
              to |-> dateParameterValue(a.to), size |-> bytesToMiB(a.size)]

\* What applyFilters makes of the form.
AddressOf(f) == [q |-> append(f.q), from |-> appendDate(f.from, FALSE),
                 to |-> appendDate(f.to, TRUE), size |-> appendMiB(f.size)]

Filled(Sizes) == [q : Words, from : Int \cup {Blank}, to : Int \cup {Blank}, size : Sizes]

FormTypeOK ==
    /\ zone \in Zones
    /\ address \in Filled((Nat \ {0}) \cup {Blank})
    /\ form \in Filled(Nat \cup {Blank})
    /\ advancedOpen \in BOOLEAN /\ edited \in BOOLEAN

FormInit ==
    /\ zone \in Zones
    /\ address = Empty /\ form = Empty
    /\ advancedOpen = FALSE /\ edited = FALSE

-----------------------------------------------------------------------------
(* The form.                                                               *)

\* The effect on a new address unfolds advanced filters it has.
UnfoldAdvanced(a) == advancedOpen' = (advancedOpen \/ hasAdvancedParameters(a))

\* Another address: the form is reset to it, and an effect sets the
\* dates; the same address leaves the form as it is.
GoTo(a) ==
    /\ address' = a
    /\ IF a = address THEN UNCHANGED <<form, advancedOpen>>
       ELSE form' = FormOf(a) /\ UnfoldAdvanced(a)

Edit(field, x) ==
    /\ form' = [form EXCEPT ![field] = x]
    /\ edited' = TRUE
    /\ UNCHANGED <<zone, address, advancedOpen>>

applyFilters ==
    /\ GoTo(AddressOf(form))
    /\ edited' = FALSE /\ UNCHANGED zone

resetFilters ==
    /\ address' = Empty
    /\ form' = Empty
    /\ advancedOpen' = FALSE
    /\ edited' = FALSE /\ UNCHANGED zone

\* The history of the browser, or a link made elsewhere.
FollowLink(a) ==
    /\ GoTo(a)
    /\ edited' = TRUE /\ UNCHANGED zone

ToggleAdvanced ==
    /\ advancedOpen' = ~advancedOpen
    /\ UNCHANGED <<zone, address, form, edited>>

FormNext ==
    \/ \E w \in Words : Edit("q", w)
    \/ \E t \in Tenths : Edit("size", t)
    \/ \E d \in LocalDays \cup {Blank} : Edit("from", d) \/ Edit("to", d)
    \/ applyFilters
    \/ resetFilters
    \/ \E d \in LocalDays, b \in Bytes, z \in Zones :
          FollowLink([q |-> " word ", from |-> 24 * d - z, to |-> Blank, size |-> b])
    \/ ToggleAdvanced

FormSpec == FormInit /\ [][FormNext]_formVars

-----------------------------------------------------------------------------
(* Properties.                                                             *)

\* A form nobody has edited stands for the address: applying it again changes
\* neither, whatever the time zone and the rounding of sizes.
UneditedFormIsTheAddress == ~edited => AddressOf(form) = address

\* The form of another browser's address, applied, settles: applying it again
\* changes nothing more.
ApplyingSettles ==
    LET once == AddressOf(FormOf(address))
    IN  AddressOf(FormOf(once)) = once

\* A form nobody has edited stands for the address, and applying the form of
\* an address made by hand settles (filter form of image-list-page.tsx).
FormStandsForAddress == UneditedFormIsTheAddress /\ ApplyingSettles

=============================================================================
