---------------------------- MODULE FormControls ----------------------------
(***************************************************************************)
(* What the fields of the component library tell of their state: form.tsx, *)
(* where a label, a control, a description and a message find each other   *)
(* by identifiers made from one, FieldError of field.tsx, the groups of    *)
(* toggles, the slots of a one-time password, the days of a calendar and   *)
(* the thumbs of a slider.  "" is a text that is missing or empty.         *)
(***************************************************************************)
EXTENDS Naturals, SequencesExt

\* useFormField: the identifiers of one FormItem.
Ids == [item |-> "form-item", description |-> "form-item-description", message |-> "form-item-message"]

\* FormMessage: the error's own text, or what it was given.
MessageBody(f) == IF f.error THEN f.message ELSE f.children

FormControl(f) ==
  [id |-> Ids.item, invalid |-> f.error,
   describedBy |-> IF f.error THEN {Ids.description, Ids.message} ELSE {Ids.description}]

FormLabel(f) == [htmlFor |-> Ids.item, error |-> f.error]

\* The identifiers that are in the page: a description if there is one, a message if
\* it says something.
Rendered(f) ==
  {FormControl(f).id}
    \cup (IF f.description THEN {Ids.description} ELSE {})
    \cup (IF MessageBody(f) # "" THEN {Ids.message} ELSE {})

\* FieldError: one message alone, or a list of those that say something; `errors` is
\* given or not.
FieldError(children, errors) ==
  IF children # "" THEN [alert |-> TRUE, messages |-> <<children>>]
  ELSE IF ~errors.given THEN [alert |-> FALSE, messages |-> <<>>]
  ELSE [alert |-> TRUE, messages |-> SelectSeq(errors.list, LAMBDA message : message # "")]

\* Slider: a thumb for every value, or for both ends where it is told of none.
SliderThumbs(value, defaultValue) ==
  IF value # <<>> THEN Len(value) ELSE IF defaultValue # <<>> THEN Len(defaultValue) ELSE 2

\* ToggleGroupItem: the group's choice comes first.
ToggleVariant(group, item) == IF group # "" THEN group ELSE item

\* InputOTPSlot: a slot the input does not have is blank.
OTPSlot(slots, index) ==
  IF index \in DOMAIN slots THEN slots[index] ELSE [char |-> "", caret |-> FALSE, active |-> FALSE]

\* CalendarDayButton: what a day is marked as.
DayMarks(day) ==
  (IF day.selected /\ day.range = {} THEN {"single"} ELSE {}) \cup day.range

-----------------------------------------------------------------------------
\* Whoever cannot see the field hears of its error and its description: a control is
\* invalid, its label marked and the message part of its description when an error is
\* shown, and it names nothing that is not there but the missing description, or the
\* message of an error without text (107-157).
ErrorsAnnounced(f) ==
  LET control == FormControl(f) IN
  /\ control.invalid = f.error /\ FormLabel(f) = [htmlFor |-> control.id, error |-> f.error]
  /\ f.error /\ Ids.message \in Rendered(f) => Ids.message \in control.describedBy
  /\ f.description => Ids.description \in control.describedBy
  /\ control.describedBy \ Rendered(f) \subseteq
       (IF f.description THEN {} ELSE {Ids.description})
         \cup (IF f.error /\ f.message = "" THEN {Ids.message} ELSE {})

\* Every message is listed once and in order unless children replace them all, and
\* nothing is announced where no errors are given (field.tsx 193-230).
MessagesListed(children, errors) ==
  LET shown == FieldError(children, errors) IN
  children = "" =>
    IF ~errors.given THEN ~shown.alert
    ELSE shown.messages = SelectSeq(errors.list, LAMBDA message : message # "")

\* A slider that is told its values, or those it starts with, has a thumb for each
\* (slider.tsx 16-23, 53-59).
ThumbsOfValues(value, defaultValue) ==
  /\ value # <<>> => SliderThumbs(value, defaultValue) = Len(value)
  /\ value = <<>> /\ defaultValue # <<>> => SliderThumbs(value, defaultValue) = Len(defaultValue)

\* The items of a group that chose its look look alike whatever each asks for, and the
\* slots of a password show each of its characters once and in order, and nothing past
\* the last (toggle-group.tsx 51-60, input-otp.tsx 44-62).
GroupsAgree(group, looks, slots) ==
  /\ group # "" => \A one, two \in looks : ToggleVariant(group, one) = ToggleVariant(group, two)
  /\ [i \in 1 .. Len(slots) + 1 |-> OTPSlot(slots, i).char]
       = Append([i \in DOMAIN slots |-> slots[i].char], "")

\* A selected day carries a mark, and the single one never beside that of a range
\* (calendar.tsx 186-195).
DaysMarked(day) ==
  /\ day.selected => DayMarks(day) # {}
  /\ "single" \in DayMarks(day) => DayMarks(day) = {"single"}
=============================================================================
