------------------------------ MODULE Controls ------------------------------
(***************************************************************************)
(* The controls of the component library that keep a value, one of them at *)
(* a time: the choices, the switches, and the slider, which shows beside   *)
(* its thumb a value that it keeps on its own.                             *)
(***************************************************************************)
EXTENDS Naturals

CONSTANTS Values,    \* what a control may hold: at least two
          NoValue    \* nothing chosen

ASSUME ControlsAssumption == NoValue \notin Values

(* The controls of the gallery: those a press on the chosen item clears, and *)
(* those that keep a choice once they have one.                              *)
GalleryAccordion   == "accordion"
GalleryToggleGroup == "toggle-group"
GalleryTabs        == "tabs"
GalleryRadioGroup  == "radio-group"
GallerySelectValue == "select"

AccordionClears   == {GalleryAccordion}    \* type="single" collapsible
ToggleGroupClears == {GalleryToggleGroup}  \* type="single"
TabsKeeps         == {GalleryTabs}
RadioGroupKeeps   == {GalleryRadioGroup}
SelectKeeps       == {GallerySelectValue}
Clearable == AccordionClears \cup ToggleGroupClears
Keeping   == TabsKeeps \cup RadioGroupKeeps \cup SelectKeeps

GalleryCheckbox    == "checkbox"
GalleryCollapsible == "collapsible"
GalleryToggle      == "toggle"
ControlledSwitch   == "switch"
CheckboxRoot    == {GalleryCheckbox}
CollapsibleRoot == {GalleryCollapsible}
ToggleRoot      == {GalleryToggle}
SwitchRoot      == {ControlledSwitch}
Binary == CheckboxRoot \cup CollapsibleRoot \cup ToggleRoot \cup SwitchRoot

(* The slider: held by its parent, by a parent that refuses, or by itself *)
ControlledSlider == "controlledSlider"
Sliders == {ControlledSlider, "refusedSlider", "ownSlider"}

VARIABLES
  control,   \* the control at hand
  chosen,    \* a choice: the item.  A slider: the value of the thumb (Radix, or `value`)
  on,        \* a switch
  initial,   \* slider: resolvedDefaultValue
  internal,  \* slider: internalValues
  pending,   \* slider: is its effect still to run
  overtaken  \* history: was the default renewed, or the thumb moved before the effect ran

sliderVars  == <<initial, internal, pending, overtaken>>
controlVars == <<control, chosen, on, sliderVars>>

ControlsTypeOK ==
  /\ control \in Clearable \cup Keeping \cup Binary \cup Sliders
  /\ chosen \in Values \cup {NoValue}
  /\ chosen = NoValue => control \in Clearable \cup Keeping \cup Binary
  /\ on \in BOOLEAN
  /\ initial \in Values /\ internal \in Values
  /\ pending \in BOOLEAN /\ overtaken \in BOOLEAN

(* A press on an item *)
Choose(v) ==
  /\ control \in Clearable \cup Keeping
  /\ chosen' = IF chosen = v /\ control \in Clearable THEN NoValue ELSE v
  /\ UNCHANGED <<control, on, sliderVars>>

Flip ==
  /\ control \in Binary
  /\ on' = ~on
  /\ UNCHANGED <<control, chosen, sliderVars>>

IsControlled == control # "ownSlider"
Output == IF IsControlled THEN chosen ELSE internal

(* The thumb is moved.  Radix keeps the value of a slider without `value`. *)
HandleValueChangeForgetsInternal(v) ==
  /\ control \in Sliders /\ v # chosen
  /\ chosen' = IF control = "refusedSlider" THEN chosen ELSE v
  /\ overtaken' = (overtaken \/ pending)
  /\ UNCHANGED <<control, on, initial, internal, pending>>
HandleValueChange(v) ==
  /\ control \in Sliders /\ v # chosen
  /\ chosen' = IF control = "refusedSlider" THEN chosen ELSE v
  /\ internal' = v
  /\ overtaken' = (overtaken \/ pending)
  /\ UNCHANGED <<control, on, initial, pending>>

(* The parent renders with another default, or with an array written inline, *)
(* which is another one every time: the memo is new and so is the effect.    *)
NewDefault(v) ==
  /\ control \in Sliders
  /\ initial' = v /\ pending' = TRUE /\ overtaken' = TRUE
  /\ UNCHANGED <<control, chosen, on, internal>>

RunEffect ==
  /\ pending /\ pending' = FALSE
  /\ internal' = IF IsControlled THEN internal ELSE initial
  /\ UNCHANGED <<control, chosen, on, initial, overtaken>>

ControlsInit ==
  /\ control \in Clearable \cup Keeping \cup Binary \cup Sliders
  /\ initial \in Values /\ internal = initial
  /\ chosen \in IF control \in Sliders THEN {initial} ELSE Values \cup {NoValue}
  /\ on \in IF control \in Binary THEN BOOLEAN ELSE {FALSE}
  /\ pending = (control \in Sliders) /\ overtaken = FALSE

ControlsNext ==
  \/ \E v \in Values : Choose(v) \/ HandleValueChange(v) \/ NewDefault(v)
  \/ Flip \/ RunEffect

ControlsSpec == ControlsInit /\ [][ControlsNext]_controlVars
-----------------------------------------------------------------------------
(* The number a slider shows is the place of its thumb, whoever holds the    *)
(* value, unless the default was renewed after the mount or the thumb was    *)
(* moved before the first effect ran: the effect then sets the number back   *)
(* and leaves the thumb where it is.                                         *)
SliderShowsItsThumb == control \in Sliders /\ ~overtaken => Output = chosen
=============================================================================
