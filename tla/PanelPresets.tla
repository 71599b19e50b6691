---------------------------- MODULE PanelPresets ----------------------------
(* The presets of a UI configuration and the panels that edit them: the      *)
(* panel component (panel.component.ts and .html), one of which is shown for *)
(* each panel, and GetPreset of the page around them.                        *)
(*                                                                           *)
(* A panel names its preset, and all that a panel component holds is looked  *)
(* up again by that name after every event.  Two panels may name one preset. *)
(* For a name without a preset GetPreset makes a new one each time: what is  *)
(* checked there is thrown away at the next look-up.  The lists of a preset  *)
(* are kept sorted and asked for membership, so they are sets here.  Icons,  *)
(* paths and microphones are left out.                                       *)
EXTENDS Naturals, Sequences

CONSTANTS Panels, Names,      \* Names has the name of a panel not yet named
          Displays, Inputs,
          MaxListed           \* bound: presets of a configuration when it is shown

ASSUME PresetAssumption == MaxListed \in Nat

VARIABLES presets,            \* config.presets
          panelPreset,        \* panelPreset[p]: panel.preset
          sharing             \* the panels whose features include "share"

vars == <<presets, panelPreset, sharing>>

Preset == [name : Names, displays : SUBSET Displays, shareableDisplays : SUBSET Displays,
           audioDevices : SUBSET Displays, inputs : SUBSET Inputs]

New(n) == [name |-> n, displays |-> {}, shareableDisplays |-> {},
           audioDevices |-> {}, inputs |-> {}]

(* No two presets have one name, though panels are renamed and share names:  *)
(* the page edits the last preset of a name (GetPreset), what the server     *)
(* logs of an update is about the first.                                     *)
NamesUnique ==
  \A i, j \in DOMAIN presets : presets[i].name = presets[j].name => i = j

(* No display of a preset is both controlled and shareable, although either  *)
(* box may be checked at any time, in any panel that names the preset: the   *)
(* handlers of the two boxes call each other.                                *)
NotBoth ==
  \A i \in DOMAIN presets : presets[i].displays \cap presets[i].shareableDisplays = {}

(* The configuration as it was stored, by a page like this one.              *)
Init ==
  /\ \E n \in 0..MaxListed : presets \in [1..n -> Preset]
  /\ NamesUnique /\ NotBoth
  /\ panelPreset \in [Panels -> Names]
  /\ sharing \in SUBSET Panels

-----------------------------------------------------------------------------
(* The lists of a preset.  Checking a display makes it audible and no longer *)
(* shareable; checking a shareable display unchecks it as a display, which   *)
(* makes it inaudible.                                                       *)

Lists(pre, displays, shareable, audio) ==
  [name |-> pre.name, displays |-> displays, shareableDisplays |-> shareable,
   audioDevices |-> audio, inputs |-> pre.inputs]

UpdateAudioDevices(pre, d, checked) ==
  Lists(pre, pre.displays, pre.shareableDisplays,
        IF checked THEN pre.audioDevices \cup {d} ELSE pre.audioDevices \ {d})

Unshare(pre, d) ==
  Lists(pre, pre.displays, pre.shareableDisplays \ {d}, pre.audioDevices)

(* Mutant of Uncheck: the display stays audible.                             *)
UncheckStaysAudible(pre, d) ==
  Lists(pre, pre.displays \ {d}, pre.shareableDisplays, pre.audioDevices)

Uncheck(pre, d) ==
  IF d \in pre.displays
    THEN Lists(pre, pre.displays \ {d}, pre.shareableDisplays, pre.audioDevices \ {d})
    ELSE pre

UpdatePresetDisplays(pre, d, checked) ==
  IF ~checked THEN Uncheck(pre, d)
  ELSE IF d \in pre.displays THEN pre
  ELSE Unshare(Lists(pre, pre.displays \cup {d}, pre.shareableDisplays,
                     pre.audioDevices \cup {d}), d)

Share(pre, d) ==
  Lists(pre, pre.displays, pre.shareableDisplays \cup {d}, pre.audioDevices)

(* Mutant of UpdateShareableDisplays: the display stays checked.             *)
UpdateShareableDisplaysOnly(pre, d, checked) ==
  IF checked THEN Share(pre, d) ELSE Unshare(pre, d)

UpdateShareableDisplays(pre, d, checked) ==
  IF ~checked THEN Unshare(pre, d)
  ELSE IF d \in pre.shareableDisplays THEN pre
  ELSE Uncheck(Share(pre, d), d)

UpdatePresetInputs(pre, i, checked) ==
  [name |-> pre.name, displays |-> pre.displays, audioDevices |-> pre.audioDevices,
   shareableDisplays |-> pre.shareableDisplays,
   inputs |-> IF checked THEN pre.inputs \cup {i} ELSE pre.inputs \ {i}]

-----------------------------------------------------------------------------
(* GetPreset: the last preset of the panel's name.                           *)

Listed(n) == \E i \in DOMAIN presets : presets[i].name = n

GetPreset(p) ==
  CHOOSE i \in DOMAIN presets :
    /\ presets[i].name = panelPreset[p]
    /\ \A j \in DOMAIN presets : presets[j].name = panelPreset[p] => j <= i

Shown(p) == presets[GetPreset(p)]

(* A box of panel p turns the preset the panel shows into pre.               *)
Edit(p, pre) ==
  /\ Listed(panelPreset[p])
  /\ presets' = [presets EXCEPT ![GetPreset(p)] = pre]
  /\ UNCHANGED <<panelPreset, sharing>>

CheckDisplay(p) ==
  \E d \in Displays, checked \in BOOLEAN :
    Edit(p, UpdatePresetDisplays(Shown(p), d, checked))

CheckAudio(p) ==
  \E d \in Displays, checked \in BOOLEAN :
    Edit(p, UpdateAudioDevices(Shown(p), d, checked))

(* These boxes are there while the panel shares.                             *)
CheckShareable(p) ==
  /\ p \in sharing
  /\ \E d \in Displays, checked \in BOOLEAN :
       Edit(p, UpdateShareableDisplays(Shown(p), d, checked))

CheckInput(p) ==
  \E i \in Inputs, checked \in BOOLEAN :
    Edit(p, UpdatePresetInputs(Shown(p), i, checked))

(* ToggleSharing; it leaves the lists of shareable displays as they are.     *)
ToggleSharing(p) ==
  /\ \E d, e \in Displays : d # e
  /\ sharing' = IF p \in sharing THEN sharing \ {p} ELSE sharing \cup {p}
  /\ UNCHANGED <<presets, panelPreset>>

(* Mutant of AddPreset: the new preset is given the name of nothing.         *)
AddPresetUnnamed(n) ==
  presets' = IF Listed(n) THEN presets ELSE Append(presets, New({}))

(* Mutant of AddPreset: nobody asks whether the name has a preset.           *)
AddPresetAlways(n) == presets' = Append(presets, New(n))

AddPreset(n) == presets' = IF Listed(n) THEN presets ELSE Append(presets, New(n))

(* The user leaves the field with the name n in it.                          *)
NamePanel(p, n) ==
  /\ panelPreset' = [panelPreset EXCEPT ![p] = n]
  /\ AddPreset(n)
  /\ UNCHANGED sharing

Next ==
  \E p \in Panels :
    \/ CheckDisplay(p) \/ CheckAudio(p) \/ CheckShareable(p) \/ CheckInput(p)
    \/ ToggleSharing(p)
    \/ \E n \in Names : NamePanel(p, n)

Spec == Init /\ [][Next]_vars

-----------------------------------------------------------------------------
TypeOK ==
  /\ presets \in Seq(Preset)
  /\ panelPreset \in [Panels -> Names]
  /\ sharing \in SUBSET Panels

(* The three lists of a preset and the boxes that call one another's         *)
(* handlers are one choice per display and preset, and a switch for its      *)
(* sound, whichever panels edit and rename in whatever order: the page       *)
(* implements DisplayUse.                                                    *)
PresetOf(n) == presets[CHOOSE i \in DOMAIN presets : presets[i].name = n]

UseOf(pre) ==
  [d \in Displays |-> IF d \in pre.displays THEN "controlled"
                      ELSE IF d \in pre.shareableDisplays THEN "shared" ELSE "off"]

ListedNames == {presets[i].name : i \in DOMAIN presets}

Abstract == INSTANCE DisplayUse WITH
  use   <- [n \in ListedNames |-> UseOf(PresetOf(n))],
  heard <- {x \in ListedNames \X Displays : x[2] \in PresetOf(x[1]).audioDevices}

ImplementsDisplayUse == Abstract!UseSpec
=============================================================================
