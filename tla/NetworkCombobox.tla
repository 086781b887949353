--------------------------- MODULE NetworkCombobox ---------------------------
(***************************************************************************)
(* The field in which an operator chooses the network of an address        *)
(* (frontend/components/network-combobox.tsx), with the search of          *)
(* lib/network-options.ts and the buttons that send the form.              *)
(*                                                                         *)
(* One text input serves twice: closed it shows the network that is        *)
(* chosen, open it is a search over the presets, by name, ticker or asset, *)
(* or a CAIP-2 id of a network that is no preset.  What the form sends is  *)
(* the network that was chosen last, whatever the input shows.             *)
(*                                                                         *)
(* Texts are trimmed here.  Their lower case, and which text starts with   *)
(* or contains which, are constants.  `sent' is history.                   *)
(***************************************************************************)
EXTENDS Naturals

CONSTANTS
  Options,    \* the presets
  Texts,      \* what may be typed, the texts below included
  Caip2,      \* the id of each preset
  Label,      \* its name
  Terms,      \* the texts it is found by, in lower case
  Lower,      \* the lower case of a text
  Place,      \* its place in the list of presets
  Rank,       \* its place by name
  Starts,     \* pairs of a text and a text it starts with
  Contains,   \* pairs of a text and a text within it
  Colon,      \* texts with a colon
  Blank,
  Null        \* no preset, no match, nothing sent

Caip2s == {Caip2[o] : o \in Options}

ASSUME ComboboxAssumption ==
  /\ Caip2 \in [Options -> Colon] /\ Label \in [Options -> Texts \ Colon]
  /\ Terms \in [Options -> SUBSET Texts] /\ Lower \in [Texts -> Texts]
  /\ Place \in [Options -> Nat] /\ Rank \in [Options -> Nat]
  /\ \A o \in Options :
       {Caip2[o], Lower[Label[o]]} \subseteq Terms[o] /\ Lower[Caip2[o]] = Caip2[o]
  /\ \A o, p \in Options :
       o # p => Caip2[o] \notin Terms[p] /\ Place[o] # Place[p] /\ Rank[o] # Rank[p]
  /\ Blank \in Texts \ Colon /\ \A o \in Options : Blank \notin Terms[o]
  /\ Null \notin Texts \cup Options \cup Nat

VARIABLES
  value,      \* the network of the form
  query,      \* the text of the search
  isOpen,
  focused,    \* the input has the keyboard
  saving,     \* the form is sent and not answered
  sent        \* history: the network sent last, and what the field showed

comboboxVars == <<value, query, isOpen, focused, saving, sent>>

-----------------------------------------------------------------------------
(* The search. *)

\* scoreNetworkOption: 0 for a term, 1 for its start, 2 for a part of it.
Score(o, text) ==
  IF Lower[text] \in Terms[o] THEN 0
  ELSE IF \E t \in Terms[o] : <<t, Lower[text]>> \in Starts THEN 1
  ELSE IF \E t \in Terms[o] : <<t, Lower[text]>> \in Contains THEN 2
  ELSE Null

\* searchNetworkOptions: all presets in their order, or those found, the best first.
Found(text) == {o \in Options : text = Blank \/ Score(o, text) # Null}

\* Mutant of Before: the worst comes first.
WorstBefore(o, p, text) ==
  IF text = Blank THEN Place[o] < Place[p]
  ELSE \/ Score(o, text) > Score(p, text)
       \/ Score(o, text) = Score(p, text) /\ Rank[o] < Rank[p]

Before(o, p, text) ==
  IF text = Blank THEN Place[o] < Place[p]
  ELSE \/ Score(o, text) < Score(p, text)
       \/ Score(o, text) = Score(p, text) /\ Rank[o] < Rank[p]

First(text) ==
  CHOOSE o \in Found(text) : \A p \in Found(text) \ {o} : Before(o, p, text)

\* getNetworkOptionByCaip2.
Preset(text) ==
  IF text \in Caip2s THEN CHOOSE o \in Options : Caip2[o] = text ELSE Null

-----------------------------------------------------------------------------
(* What the component shows. *)

\* The text of a network: its name, or its id.
Baseline(network) == IF Preset(network) = Null THEN network ELSE Label[Preset(network)]

Field == IF isOpen THEN query ELSE Baseline(value)

\* A field that shows the chosen network searches for nothing.
Search == IF isOpen /\ Field = Baseline(value) THEN Blank ELSE Field

\* The network whose picture stands beside the field.
Leading ==
  IF isOpen /\ Search # Blank
  THEN IF Preset(Field) # Null THEN Preset(Field)
       ELSE IF Found(Search) # {} THEN First(Search) ELSE Null
  ELSE Preset(value)

\* `Use custom CAIP-2'.
ShowsCustom ==
  /\ Field # Blank /\ Preset(Field) = Null
  /\ Field \in Colon \/ Found(Search) = {}

-----------------------------------------------------------------------------

InitCombobox ==
  /\ \E o \in Options : (\A p \in Options : Place[o] <= Place[p]) /\ value = Caip2[o]
  /\ query = Blank
  /\ isOpen = FALSE /\ focused = FALSE /\ saving = FALSE
  /\ sent = Null

OpenCombobox == query' = Baseline(value) /\ isOpen' = TRUE
CloseCombobox == query' = Baseline(value) /\ isOpen' = FALSE

CommitSelection(text) ==
  /\ value' = text
  /\ query' = Baseline(text) /\ isOpen' = FALSE
  /\ UNCHANGED <<focused, saving, sent>>

\* The input gets the keyboard, by a click or the Tab key.
Focus ==
  /\ ~ focused /\ ~ saving
  /\ focused' = TRUE
  /\ OpenCombobox
  /\ UNCHANGED <<value, saving, sent>>

Change(text) ==
  /\ focused /\ ~ saving /\ text # Field
  /\ query' = text /\ isOpen' = TRUE
  /\ UNCHANGED <<value, focused, saving, sent>>

Escape ==
  /\ focused /\ ~ saving
  /\ CloseCombobox
  /\ UNCHANGED <<value, focused, saving, sent>>

\* The Enter key: the first preset found, else what was typed.
Enter ==
  /\ focused /\ ~ saving
  /\ IF Found(Search) # {}
     THEN CommitSelection(Caip2[First(Search)])
     ELSE ShowsCustom /\ CommitSelection(Field)

\* The entries of the list are not disabled while the form is being sent.
Pick ==
  /\ isOpen
  /\ \/ \E o \in Found(Search) : CommitSelection(Caip2[o])
     \/ ShowsCustom /\ CommitSelection(Field)

\* The button beside the input; closing, it takes the keyboard.
Toggle ==
  /\ ~ saving
  /\ IF isOpen THEN CloseCombobox ELSE OpenCombobox
  /\ focused' = ~ isOpen
  /\ UNCHANGED <<value, saving, sent>>

\* Mutant of PressOutside: the list stays.
PressOutsideIgnored == focused' = FALSE /\ UNCHANGED <<query, isOpen>>

\* The mouse is pressed outside of the component.
PressOutside ==
  /\ focused' = FALSE
  /\ IF isOpen THEN CloseCombobox ELSE UNCHANGED <<query, isOpen>>

PressElsewhere ==
  /\ isOpen \/ focused
  /\ PressOutside
  /\ UNCHANGED <<value, saving, sent>>

\* The Tab key takes the keyboard away and leaves the list open.
TabAway ==
  /\ focused
  /\ focused' = FALSE
  /\ UNCHANGED <<value, query, isOpen, saving, sent>>

\* `Add to Whitelist' or `Add to Blacklist', clicked or reached by the Tab key.
SendForm(aside) ==
  /\ ~ saving
  /\ saving' = TRUE
  /\ sent' = [network |-> value, field |-> Field', aside |-> aside]

SendByMouse == UNCHANGED value /\ PressOutside /\ SendForm(FALSE)

SendByKey == ~ focused /\ UNCHANGED <<value, query, isOpen, focused>> /\ SendForm(isOpen)

Answered ==
  /\ saving
  /\ saving' = FALSE
  /\ UNCHANGED <<value, query, isOpen, focused, sent>>

NextCombobox ==
  \/ Focus \/ Escape \/ Enter \/ Pick \/ Toggle \/ PressElsewhere \/ TabAway
  \/ \E text \in Texts : Change(text)
  \/ SendByMouse \/ SendByKey \/ Answered

SpecCombobox == InitCombobox /\ [][NextCombobox]_comboboxVars

-----------------------------------------------------------------------------
(* Properties. *)

\* The network sent is the one the field shows, unless the Tab key left a search
\* behind: no click, no Escape and no choice leaves a text in the field that is
\* not what `Add to Whitelist' takes (form.network of page.tsx).
SentIsShown ==
  sent # Null => sent.aside \/ sent.field = Baseline(sent.network)

\* After a search Enter chooses the network whose picture stands beside the field,
\* and what was typed where there is none: the picture and the key, which look the
\* text up in two ways, agree.
EnterTakesPreviewed ==
  [][(Enter /\ isOpen /\ Search # Blank)
       => value' = IF Leading = Null THEN Field ELSE Caip2[Leading]]_comboboxVars
=============================================================================
