------------------------- MODULE PanelPresetsProofs -------------------------
(* Proofs that the panels keep preset names apart, that no display is both   *)
(* controlled and shareable, and that the boxes implement DisplayUse, for    *)
(* any panels, names, displays and inputs.                                   *)
EXTENDS PanelPresets, TLAPS

PresetInv == TypeOK /\ NamesUnique /\ NotBoth

Apart(pre) == pre.displays \cap pre.shareableDisplays = {}

(* What the handler of a box may make of a preset.                           *)
Kept(pre, q) == q \in Preset /\ q.name = pre.name /\ Apart(q)

-----------------------------------------------------------------------------
(* The handlers of the boxes leave a preset a preset, with its name, and     *)
(* keep its displays apart.                                                  *)
LEMMA BoxesKeep ==
  ASSUME NEW pre \in Preset, Apart(pre), NEW d \in Displays, NEW checked \in BOOLEAN
  PROVE  /\ Kept(pre, UpdatePresetDisplays(pre, d, checked))
         /\ Kept(pre, UpdateAudioDevices(pre, d, checked))
         /\ Kept(pre, UpdateShareableDisplays(pre, d, checked))
<1> USE DEF Kept, Apart, Preset, Lists
<1>1. Kept(pre, UpdateAudioDevices(pre, d, checked))
  BY DEF UpdateAudioDevices
<1>2. Kept(pre, Unshare(pre, d))
  BY DEF Unshare
<1>3. Kept(pre, Uncheck(pre, d))
  BY DEF Uncheck
<1>4. Kept(pre, UpdatePresetDisplays(pre, d, checked))
  BY <1>3 DEF UpdatePresetDisplays, Unshare
<1>5. Kept(pre, UpdateShareableDisplays(pre, d, checked))
  BY <1>2 DEF UpdateShareableDisplays, Uncheck, Share
<1> QED BY <1>1, <1>4, <1>5

(* So does the handler of an input's box.                                    *)
LEMMA InputBoxKeeps ==
  ASSUME NEW pre \in Preset, Apart(pre), NEW i \in Inputs, NEW checked \in BOOLEAN
  PROVE  Kept(pre, UpdatePresetInputs(pre, i, checked))
BY DEF Kept, Apart, Preset, UpdatePresetInputs

(* A new preset is one, and lists nothing.                                   *)
LEMMA NewIsPreset ==
  ASSUME NEW n \in Names
  PROVE  New(n) \in Preset /\ New(n).name = n /\ Apart(New(n))
BY DEF New, Preset, Apart

(* GetPreset finds a preset of the panel's name when there is one.           *)
LEMMA GetPresetFinds ==
  ASSUME PresetInv, NEW p \in Panels, Listed(panelPreset[p])
  PROVE  /\ GetPreset(p) \in DOMAIN presets
         /\ presets[GetPreset(p)].name = panelPreset[p]
<1>1. PICK i \in DOMAIN presets : presets[i].name = panelPreset[p]
  BY DEF Listed
<1>2. DOMAIN presets \subseteq Nat
  BY DEF PresetInv, TypeOK
<1>3. \A j \in DOMAIN presets : presets[j].name = panelPreset[p] => j <= i
  BY <1>1, <1>2 DEF PresetInv, NamesUnique
<1> QED BY <1>1, <1>3 DEF GetPreset

(* A panel that shows a preset shows one whose displays are apart.           *)
LEMMA ShownIsPreset ==
  ASSUME PresetInv, NEW p \in Panels, Listed(panelPreset[p])
  PROVE  Shown(p) \in Preset /\ Apart(Shown(p))
<1>1. GetPreset(p) \in DOMAIN presets
  BY GetPresetFinds
<1> QED BY <1>1 DEF Shown, PresetInv, TypeOK, NotBoth, Apart

(* An edit that keeps a preset keeps the invariant.                          *)
LEMMA EditKeeps ==
  ASSUME PresetInv, NEW p \in Panels, NEW q, Edit(p, q), Kept(Shown(p), q)
  PROVE  PresetInv'
<1> DEFINE i == GetPreset(p)
<1>1. i \in DOMAIN presets
  BY GetPresetFinds DEF Edit
<1>2. presets \in Seq(Preset)
  BY DEF PresetInv, TypeOK
<1>3. Kept(presets[i], q)
  BY DEF Shown
<1>4. presets' = [presets EXCEPT ![i] = q] /\ UNCHANGED <<panelPreset, sharing>>
  BY DEF Edit
<1> HIDE DEF i
<1>5. presets' \in Seq(Preset) /\ DOMAIN presets' = DOMAIN presets
  BY <1>1, <1>2, <1>3, <1>4 DEF Kept
<1>6. \A j \in DOMAIN presets : presets'[j] = IF j = i THEN q ELSE presets[j]
  BY <1>1, <1>4
<1>7. \A j \in DOMAIN presets : presets'[j].name = presets[j].name
  BY <1>3, <1>6 DEF Kept
<1>8. TypeOK'
  BY <1>4, <1>5 DEF PresetInv, TypeOK
<1>9. NamesUnique'
  BY <1>5, <1>7 DEF PresetInv, NamesUnique
<1>10. NotBoth'
  BY <1>3, <1>5, <1>6 DEF PresetInv, NotBoth, Kept, Apart
<1> QED BY <1>8, <1>9, <1>10 DEF PresetInv

(* A panel that is given a name keeps it: a preset is added only for a name  *)
(* that has none.                                                            *)
LEMMA NamingKeeps ==
  ASSUME PresetInv, NEW p \in Panels, NEW n \in Names, NamePanel(p, n)
  PROVE  PresetInv'
<1>1. panelPreset' \in [Panels -> Names] /\ sharing' \in SUBSET Panels
  BY DEF PresetInv, TypeOK, NamePanel
<1>2. CASE Listed(n)
  BY <1>1, <1>2 DEF NamePanel, AddPreset, PresetInv, TypeOK, NamesUnique, NotBoth
<1>3. CASE ~Listed(n)
  <2>1. presets \in Seq(Preset) /\ presets' = Append(presets, New(n))
    BY <1>3 DEF PresetInv, TypeOK, NamePanel, AddPreset
  <2>2. New(n) \in Preset /\ New(n).name = n /\ Apart(New(n))
    BY NewIsPreset
  <2>3. /\ presets' \in Seq(Preset) /\ Len(presets') = Len(presets) + 1
        /\ \A i \in 1..Len(presets) : presets'[i] = presets[i]
        /\ presets'[Len(presets) + 1] = New(n)
        /\ Len(presets) \in Nat
    BY <2>1, <2>2
  <2>4. \A i \in DOMAIN presets' :
          \/ i \in DOMAIN presets /\ presets'[i] = presets[i]
          \/ i = Len(presets) + 1 /\ presets'[i] = New(n)
    BY <2>1, <2>3
  <2>5. NamesUnique'
    <3> SUFFICES ASSUME NEW i \in DOMAIN presets', NEW j \in DOMAIN presets',
                        presets'[i].name = presets'[j].name
                 PROVE  i = j
      BY DEF NamesUnique
    <3>1. CASE i \in DOMAIN presets /\ j \in DOMAIN presets
      BY <2>3, <2>1, <3>1 DEF PresetInv, NamesUnique
    <3>2. CASE i \notin DOMAIN presets /\ j \in DOMAIN presets
      BY <1>3, <2>2, <2>3, <2>4, <2>1, <3>2 DEF Listed
    <3>3. CASE i \in DOMAIN presets /\ j \notin DOMAIN presets
      BY <1>3, <2>2, <2>3, <2>4, <2>1, <3>3 DEF Listed
    <3>4. CASE i \notin DOMAIN presets /\ j \notin DOMAIN presets
      BY <2>4, <3>4
    <3> QED BY <3>1, <3>2, <3>3, <3>4
  <2>6. NotBoth'
    BY <2>2, <2>4 DEF PresetInv, NotBoth, Apart
  <2> QED BY <1>1, <2>3, <2>5, <2>6 DEF PresetInv, TypeOK
<1> QED BY <1>2, <1>3

(* Every action keeps the invariant.                                         *)
LEMMA StepKeeps ==
  ASSUME PresetInv, [Next]_vars
  PROVE  PresetInv'
<1>1. ASSUME NEW p \in Panels, CheckDisplay(p) PROVE PresetInv'
  <2>1. PICK d \in Displays, checked \in BOOLEAN :
          Edit(p, UpdatePresetDisplays(Shown(p), d, checked))
    BY <1>1 DEF CheckDisplay
  <2> QED BY <2>1, ShownIsPreset, BoxesKeep, EditKeeps DEF Edit
<1>2. ASSUME NEW p \in Panels, CheckAudio(p) PROVE PresetInv'
  <2>1. PICK d \in Displays, checked \in BOOLEAN :
          Edit(p, UpdateAudioDevices(Shown(p), d, checked))
    BY <1>2 DEF CheckAudio
  <2> QED BY <2>1, ShownIsPreset, BoxesKeep, EditKeeps DEF Edit
<1>3. ASSUME NEW p \in Panels, CheckShareable(p) PROVE PresetInv'
  <2>1. PICK d \in Displays, checked \in BOOLEAN :
          Edit(p, UpdateShareableDisplays(Shown(p), d, checked))
    BY <1>3 DEF CheckShareable
  <2> QED BY <2>1, ShownIsPreset, BoxesKeep, EditKeeps DEF Edit
<1>4. ASSUME NEW p \in Panels, CheckInput(p) PROVE PresetInv'
  <2>1. PICK i \in Inputs, checked \in BOOLEAN :
          Edit(p, UpdatePresetInputs(Shown(p), i, checked))
    BY <1>4 DEF CheckInput
  <2> QED BY <2>1, ShownIsPreset, InputBoxKeeps, EditKeeps DEF Edit
<1>5. ASSUME NEW p \in Panels, ToggleSharing(p) PROVE PresetInv'
  BY <1>5 DEF ToggleSharing, PresetInv, TypeOK, NamesUnique, NotBoth
<1>6. ASSUME NEW p \in Panels, NEW n \in Names, NamePanel(p, n) PROVE PresetInv'
  BY <1>6, NamingKeeps
<1>7. CASE UNCHANGED vars
  BY <1>7 DEF vars, PresetInv, TypeOK, NamesUnique, NotBoth
<1> QED BY <1>1, <1>2, <1>3, <1>4, <1>5, <1>6, <1>7 DEF Next

(* A configuration as it was stored satisfies the invariant.                 *)
LEMMA InitKeeps == Init => PresetInv
<1> SUFFICES ASSUME Init PROVE PresetInv
  OBVIOUS
<1>1. PICK n \in 0..MaxListed : presets \in [1..n -> Preset]
  BY DEF Init
<1>2. n \in Nat
  BY <1>1, PresetAssumption DEF PresetAssumption
<1>3. presets \in Seq(Preset)
  BY <1>1, <1>2
<1> QED BY <1>3 DEF Init, PresetInv, TypeOK

(* The state of the page keeps its types, for any panels and names.          *)
THEOREM PresetInvariant == Spec => []PresetInv
BY InitKeeps, StepKeeps, PTL DEF Spec

(* The type invariant: a preset's lists are of what the room has, and a panel *)
(* shows a preset there is.                                                  *)
THEOREM PresetTypeOK == Spec => []TypeOK
<1>1. PresetInv => TypeOK
  BY DEF PresetInv
<1> QED BY <1>1, PresetInvariant, PTL

(* However panels are named and renamed, no two presets have one name.       *)
THEOREM PresetNamesUnique == Spec => []NamesUnique
<1>1. PresetInv => NamesUnique
  BY DEF PresetInv
<1> QED BY <1>1, PresetInvariant, PTL

(* Whatever boxes are checked, no display is both controlled and shareable.  *)
THEOREM DisplaysApart == Spec => []NotBoth
<1>1. PresetInv => NotBoth
  BY DEF PresetInv
<1> QED BY <1>1, PresetInvariant, PTL

-----------------------------------------------------------------------------
(* The page implements DisplayUse.                                           *)

AbsUse   == [n \in ListedNames |-> UseOf(PresetOf(n))]
AbsHeard == {x \in ListedNames \X Displays : x[2] \in PresetOf(x[1]).audioDevices}

(* With unique names, the preset of a name is the one that bears it.         *)
LEMMA PresetOfIs ==
  ASSUME TypeOK, NamesUnique, NEW i \in DOMAIN presets
  PROVE  PresetOf(presets[i].name) = presets[i]
<1> DEFINE n == presets[i].name
           j == CHOOSE k \in DOMAIN presets : presets[k].name = n
<1>1. j \in DOMAIN presets /\ presets[j].name = n
  OBVIOUS
<1>2. j = i
  BY <1>1 DEF NamesUnique
<1> QED BY <1>2 DEF PresetOf

(* An edit changes the preset the panel shows, and no other.                 *)
LEMMA EditMaps ==
  ASSUME PresetInv, PresetInv', NEW p \in Panels, NEW q, Edit(p, q), Kept(Shown(p), q)
  PROVE  /\ ListedNames' = ListedNames
         /\ panelPreset[p] \in ListedNames
         /\ PresetOf(panelPreset[p]) = Shown(p)
         /\ \A n \in ListedNames :
              PresetOf(n)' = IF n = panelPreset[p] THEN q ELSE PresetOf(n)
<1> DEFINE i == GetPreset(p)
           m == panelPreset[p]
<1>1. i \in DOMAIN presets /\ presets[i].name = m
  BY GetPresetFinds DEF Edit
<1>2. presets' = [presets EXCEPT ![i] = q] /\ presets \in Seq(Preset) /\ presets' \in Seq(Preset)
  BY DEF Edit, PresetInv, TypeOK
<1>3. q.name = m /\ Shown(p) = presets[i]
  BY <1>1 DEF Kept, Shown
<1> HIDE DEF i
<1>4. DOMAIN presets' = DOMAIN presets
  BY <1>1, <1>2
<1>5. \A j \in DOMAIN presets : presets'[j] = IF j = i THEN q ELSE presets[j]
  BY <1>1, <1>2
<1>6. \A j \in DOMAIN presets : presets'[j].name = presets[j].name
  BY <1>1, <1>3, <1>5
<1>7. ListedNames' = ListedNames /\ m \in ListedNames
  BY <1>1, <1>4, <1>6 DEF ListedNames
<1>8. \A j \in DOMAIN presets : PresetOf(presets[j].name) = presets[j]
  BY PresetOfIs DEF PresetInv
<1>9. ASSUME NEW n, NEW j \in DOMAIN presets', presets'[j].name = n
      PROVE  PresetOf(n)' = presets'[j]
  <2> DEFINE k == CHOOSE l \in DOMAIN presets' : presets'[l].name = n
  <2>1. k \in DOMAIN presets' /\ presets'[k].name = n
    BY <1>9
  <2>2. k = j
    BY <1>9, <2>1 DEF PresetInv, NamesUnique
  <2> QED BY <2>2 DEF PresetOf
<1>10. ASSUME NEW n \in ListedNames
       PROVE  PresetOf(n)' = IF n = m THEN q ELSE PresetOf(n)
  <2>1. PICK j \in DOMAIN presets : presets[j].name = n
    BY DEF ListedNames
  <2>2. PresetOf(n)' = presets'[j] /\ PresetOf(n) = presets[j]
    BY <1>4, <1>6, <1>8, <1>9, <2>1
  <2>3. (n = m) <=> (j = i)
    BY <1>1, <2>1 DEF PresetInv, NamesUnique
  <2> QED BY <1>5, <2>2, <2>3
<1> QED BY <1>1, <1>3, <1>7, <1>8, <1>10

(* What an edit of a box does to what DisplayUse sees.                       *)
LEMMA UseMaps ==
  ASSUME PresetInv, PresetInv', NEW p \in Panels, NEW q, Edit(p, q), Kept(Shown(p), q),
         NEW d \in Displays, NEW u, UseOf(q) = [UseOf(Shown(p)) EXCEPT ![d] = u]
  PROVE  AbsUse' = [AbsUse EXCEPT ![panelPreset[p]][d] = u]
BY EditMaps DEF AbsUse

LEMMA UseStays ==
  ASSUME PresetInv, PresetInv', NEW p \in Panels, NEW q, Edit(p, q), Kept(Shown(p), q),
         UseOf(q) = UseOf(Shown(p))
  PROVE  AbsUse' = AbsUse
BY EditMaps DEF AbsUse

LEMMA HeardMaps ==
  ASSUME PresetInv, PresetInv', NEW p \in Panels, NEW q, Edit(p, q), Kept(Shown(p), q),
         NEW d \in Displays
  PROVE  /\ q.audioDevices = Shown(p).audioDevices \cup {d} =>
               AbsHeard' = AbsHeard \cup {<<panelPreset[p], d>>}
         /\ q.audioDevices = Shown(p).audioDevices \ {d} =>
               AbsHeard' = AbsHeard \ {<<panelPreset[p], d>>}
         /\ q.audioDevices = Shown(p).audioDevices => AbsHeard' = AbsHeard
<1> DEFINE m == panelPreset[p]
<1>1. AbsHeard \subseteq ListedNames \X Displays /\ AbsHeard' \subseteq ListedNames \X Displays
  BY EditMaps DEF AbsHeard
<1>2. \A n \in ListedNames, e \in Displays :
        /\ <<n, e>> \in AbsHeard <=> e \in PresetOf(n).audioDevices
        /\ <<n, e>> \in AbsHeard' <=>
             e \in (IF n = m THEN q ELSE PresetOf(n)).audioDevices
  BY EditMaps DEF AbsHeard
<1>3. PresetOf(m) = Shown(p) /\ m \in ListedNames /\ <<m, d>> \in ListedNames \X Displays
  BY EditMaps
<1> HIDE DEF m
<1>4. \A S \in SUBSET (ListedNames \X Displays) :
        (\A n \in ListedNames, e \in Displays : <<n, e>> \in AbsHeard' <=> <<n, e>> \in S)
          => AbsHeard' = S
  BY <1>1
<1>5. ASSUME q.audioDevices = Shown(p).audioDevices \cup {d}
      PROVE  AbsHeard' = AbsHeard \cup {<<m, d>>}
  <2>1. \A n \in ListedNames, e \in Displays :
          <<n, e>> \in AbsHeard' <=> <<n, e>> \in AbsHeard \cup {<<m, d>>}
    BY <1>2, <1>3, <1>5
  <2> QED BY <1>1, <1>3, <1>4, <2>1
<1>6. ASSUME q.audioDevices = Shown(p).audioDevices \ {d}
      PROVE  AbsHeard' = AbsHeard \ {<<m, d>>}
  <2>1. \A n \in ListedNames, e \in Displays :
          <<n, e>> \in AbsHeard' <=> <<n, e>> \in AbsHeard \ {<<m, d>>}
    BY <1>2, <1>3, <1>6
  <2> QED BY <1>1, <1>4, <2>1
<1>7. ASSUME q.audioDevices = Shown(p).audioDevices
      PROVE  AbsHeard' = AbsHeard
  <2>1. \A n \in ListedNames, e \in Displays : <<n, e>> \in AbsHeard' <=> <<n, e>> \in AbsHeard
    BY <1>2, <1>3, <1>7
  <2> QED BY <1>1, <1>4, <2>1
<1> QED BY <1>5, <1>6, <1>7 DEF m

(* The steps of DisplayUse, said of AbsUse and AbsHeard.                     *)
LEMMA UseSteps ==
  ASSUME NEW n \in ListedNames, NEW d \in Displays
  PROVE  /\ /\ AbsUse[n][d] # "controlled"
            /\ AbsUse' = [AbsUse EXCEPT ![n][d] = "controlled"]
            /\ AbsHeard' = AbsHeard \cup {<<n, d>>}
            => Abstract!Control(n, d)
         /\ \A u \in {"off", "shared"} :
              /\ AbsUse[n][d] # u
              /\ AbsUse' = [AbsUse EXCEPT ![n][d] = u]
              /\ AbsHeard' = IF AbsUse[n][d] = "controlled"
                               THEN AbsHeard \ {<<n, d>>} ELSE AbsHeard
              => Abstract!Leave(n, d, u)
         /\ /\ AbsUse' = AbsUse
            /\ AbsHeard' \in {AbsHeard \cup {<<n, d>>}, AbsHeard \ {<<n, d>>}}
            => Abstract!Hear(n, d)
BY DEF Abstract!Control, Abstract!Leave, Abstract!Hear, Abstract!Put, AbsUse, AbsHeard

Stutters == AbsUse' = AbsUse /\ AbsHeard' = AbsHeard

(* A display's box maps to Control, to Leave or to a stutter.                *)
LEMMA DisplayBoxMaps ==
  ASSUME PresetInv, PresetInv', NEW p \in Panels, NEW d \in Displays, NEW checked \in BOOLEAN,
         Edit(p, UpdatePresetDisplays(Shown(p), d, checked))
  PROVE  \/ Abstract!Control(panelPreset[p], d) \/ Abstract!Leave(panelPreset[p], d, "off")
         \/ Stutters
<1> DEFINE pre == Shown(p)
           q   == UpdatePresetDisplays(pre, d, checked)
           n   == panelPreset[p]
<1>1. pre \in Preset /\ Apart(pre)
  BY ShownIsPreset DEF Edit
<1>2. Kept(pre, q)
  BY <1>1, BoxesKeep
<1>3. n \in ListedNames /\ AbsUse[n] = UseOf(pre)
  BY <1>2, EditMaps DEF AbsUse
<1>4. UseOf(pre)[d] = IF d \in pre.displays THEN "controlled"
                      ELSE IF d \in pre.shareableDisplays THEN "shared" ELSE "off"
  BY DEF UseOf
<1>5. CASE checked /\ d \notin pre.displays
  <2>1. UseOf(q) = [UseOf(pre) EXCEPT ![d] = "controlled"] /\ q.audioDevices = pre.audioDevices \cup {d}
    BY <1>1, <1>5 DEF UpdatePresetDisplays, Unshare, Lists, UseOf, Preset
  <2>2. AbsUse' = [AbsUse EXCEPT ![n][d] = "controlled"] /\ AbsHeard' = AbsHeard \cup {<<n, d>>}
    BY <1>2, <2>1, UseMaps, HeardMaps
  <2> QED BY <1>3, <1>4, <1>5, <2>2, UseSteps
<1>6. CASE ~checked /\ d \in pre.displays
  <2>1. UseOf(q) = [UseOf(pre) EXCEPT ![d] = "off"] /\ q.audioDevices = pre.audioDevices \ {d}
    BY <1>1, <1>6 DEF UpdatePresetDisplays, Uncheck, Lists, UseOf, Preset, Apart
  <2>2. AbsUse' = [AbsUse EXCEPT ![n][d] = "off"] /\ AbsHeard' = AbsHeard \ {<<n, d>>}
    BY <1>2, <2>1, UseMaps, HeardMaps
  <2> QED BY <1>3, <1>4, <1>6, <2>2, UseSteps
<1>7. CASE checked <=> d \in pre.displays
  <2>1. q = pre
    BY <1>7 DEF UpdatePresetDisplays, Uncheck
  <2> QED BY <1>2, <2>1, UseStays, HeardMaps DEF Stutters
<1> QED BY <1>5, <1>6, <1>7

(* A sound box maps to Hear.                                                 *)
LEMMA AudioBoxMaps ==
  ASSUME PresetInv, PresetInv', NEW p \in Panels, NEW d \in Displays, NEW checked \in BOOLEAN,
         Edit(p, UpdateAudioDevices(Shown(p), d, checked))
  PROVE  Abstract!Hear(panelPreset[p], d)
<1> DEFINE pre == Shown(p)
           q   == UpdateAudioDevices(pre, d, checked)
           n   == panelPreset[p]
<1>1. Kept(pre, q)
  BY ShownIsPreset, BoxesKeep DEF Edit
<1>2. n \in ListedNames
  BY <1>1, EditMaps
<1>3. /\ UseOf(q) = UseOf(pre)
      /\ q.audioDevices \in {pre.audioDevices \cup {d}, pre.audioDevices \ {d}}
  BY DEF UpdateAudioDevices, Lists, UseOf
<1>4. AbsUse' = AbsUse
  BY <1>1, <1>3, UseStays
<1>5. AbsHeard' \in {AbsHeard \cup {<<n, d>>}, AbsHeard \ {<<n, d>>}}
  BY <1>1, <1>3, HeardMaps
<1> QED BY <1>2, <1>4, <1>5, UseSteps

(* The box of a shareable display maps to Leave or to a stutter.             *)
LEMMA ShareBoxMaps ==
  ASSUME PresetInv, PresetInv', NEW p \in Panels, NEW d \in Displays, NEW checked \in BOOLEAN,
         Edit(p, UpdateShareableDisplays(Shown(p), d, checked))
  PROVE  \/ \E u \in {"off", "shared"} : Abstract!Leave(panelPreset[p], d, u)
         \/ Stutters
<1> DEFINE pre == Shown(p)
           q   == UpdateShareableDisplays(pre, d, checked)
           n   == panelPreset[p]
<1>1. pre \in Preset /\ Apart(pre)
  BY ShownIsPreset DEF Edit
<1>2. Kept(pre, q)
  BY <1>1, BoxesKeep
<1>3. n \in ListedNames /\ AbsUse[n] = UseOf(pre)
  BY <1>2, EditMaps DEF AbsUse
<1>4. UseOf(pre)[d] = IF d \in pre.displays THEN "controlled"
                      ELSE IF d \in pre.shareableDisplays THEN "shared" ELSE "off"
  BY DEF UseOf
<1>5. CASE checked /\ d \notin pre.shareableDisplays
  <2>1. /\ UseOf(q) = [UseOf(pre) EXCEPT ![d] = "shared"]
        /\ q.audioDevices = IF d \in pre.displays THEN pre.audioDevices \ {d} ELSE pre.audioDevices
    BY <1>1, <1>5 DEF UpdateShareableDisplays, Share, Uncheck, Lists, UseOf, Preset
  <2>2. AbsUse' = [AbsUse EXCEPT ![n][d] = "shared"]
    BY <1>2, <2>1, UseMaps
  <2>3. AbsHeard' = IF d \in pre.displays THEN AbsHeard \ {<<n, d>>} ELSE AbsHeard
    BY <1>2, <2>1, HeardMaps
  <2> QED BY <1>3, <1>4, <1>5, <2>2, <2>3, UseSteps
<1>6. CASE ~checked /\ d \in pre.shareableDisplays
  <2>1. d \notin pre.displays
    BY <1>1, <1>6 DEF Apart
  <2>2. UseOf(q) = [UseOf(pre) EXCEPT ![d] = "off"] /\ q.audioDevices = pre.audioDevices
    BY <1>1, <1>6, <2>1 DEF UpdateShareableDisplays, Unshare, Lists, UseOf, Preset
  <2>3. AbsUse' = [AbsUse EXCEPT ![n][d] = "off"] /\ AbsHeard' = AbsHeard
    BY <1>2, <2>2, UseMaps, HeardMaps
  <2> QED BY <1>3, <1>4, <1>6, <2>1, <2>3, UseSteps
<1>7. CASE checked <=> d \in pre.shareableDisplays
  <2>1. UseOf(q) = UseOf(pre) /\ q.audioDevices = pre.audioDevices
    BY <1>1, <1>7 DEF UpdateShareableDisplays, Unshare, Lists, UseOf, Preset
  <2> QED BY <1>2, <2>1, UseStays, HeardMaps DEF Stutters
<1> QED BY <1>5, <1>6, <1>7

(* An input's box maps to a stutter.                                         *)
LEMMA InputBoxMaps ==
  ASSUME PresetInv, PresetInv', NEW p \in Panels, NEW i \in Inputs, NEW checked \in BOOLEAN,
         Edit(p, UpdatePresetInputs(Shown(p), i, checked))
  PROVE  Stutters
<1> DEFINE q == UpdatePresetInputs(Shown(p), i, checked)
<1>1. Kept(Shown(p), q)
  BY ShownIsPreset, InputBoxKeeps DEF Edit
<1>2. UseOf(q) = UseOf(Shown(p)) /\ q.audioDevices = Shown(p).audioDevices
  BY DEF UpdatePresetInputs, UseOf
<1>3. AbsUse' = AbsUse
  BY <1>1, <1>2, UseStays
<1>4. AbsHeard' = AbsHeard
  <2> CASE Displays = {}
    BY DEF AbsHeard
  <2> CASE Displays # {}
    BY <1>1, <1>2, HeardMaps
  <2> QED OBVIOUS
<1> QED BY <1>3, <1>4 DEF Stutters

(* A panel that is given a name maps to AddName when the name is new.        *)
LEMMA NamingMaps ==
  ASSUME PresetInv, PresetInv', NEW p \in Panels, NEW n \in Names, NamePanel(p, n)
  PROVE  Abstract!AddName(n) \/ Stutters
<1>1. CASE Listed(n)
  BY <1>1 DEF NamePanel, AddPreset, Stutters, AbsUse, AbsHeard, ListedNames, PresetOf
<1>2. CASE ~Listed(n)
  <2>1. /\ presets \in Seq(Preset) /\ presets' \in Seq(Preset)
        /\ presets' = Append(presets, New(n))
    BY <1>2 DEF PresetInv, TypeOK, NamePanel, AddPreset
  <2>2. /\ Len(presets) \in Nat /\ Len(presets') = Len(presets) + 1
        /\ \A i \in DOMAIN presets : i \in DOMAIN presets' /\ presets'[i] = presets[i]
        /\ Len(presets) + 1 \in DOMAIN presets'
        /\ presets'[Len(presets) + 1] = New(n)
        /\ \A i \in DOMAIN presets' : i \in DOMAIN presets \/ i = Len(presets) + 1
    BY <2>1, NewIsPreset
  <2>3. n \notin ListedNames /\ ListedNames' = ListedNames \cup {n}
    BY <1>2, <2>2, NewIsPreset DEF Listed, ListedNames
  <2>4. ASSUME NEW m, NEW j \in DOMAIN presets', presets'[j].name = m
        PROVE  PresetOf(m)' = presets'[j]
    <3> DEFINE k == CHOOSE l \in DOMAIN presets' : presets'[l].name = m
    <3>1. k \in DOMAIN presets' /\ presets'[k].name = m
      BY <2>4
    <3>2. k = j
      BY <2>4, <3>1 DEF PresetInv, NamesUnique
    <3> QED BY <3>2 DEF PresetOf
  <2>5. PresetOf(n)' = New(n)
    BY <2>2, <2>4, NewIsPreset
  <2>6. ASSUME NEW m \in ListedNames PROVE PresetOf(m)' = PresetOf(m)
    <3>1. PICK j \in DOMAIN presets : presets[j].name = m
      BY DEF ListedNames
    <3>2. PresetOf(m) = presets[j]
      BY <3>1, PresetOfIs DEF PresetInv
    <3> QED BY <2>2, <2>4, <3>1, <3>2
  <2>7. UseOf(New(n)) = [d \in Displays |-> "off"] /\ New(n).audioDevices = {}
    BY DEF UseOf, New
  <2>8. AbsUse' = [m \in ListedNames \cup {n} |->
                     IF m = n THEN [d \in Displays |-> "off"] ELSE AbsUse[m]]
    BY <2>3, <2>5, <2>6, <2>7 DEF AbsUse
  <2>9. AbsHeard' = AbsHeard
    BY <2>3, <2>5, <2>6, <2>7 DEF AbsHeard
  <2>10. DOMAIN AbsUse = ListedNames
    BY DEF AbsUse
  <2> QED BY <2>3, <2>8, <2>9, <2>10 DEF Abstract!AddName, AbsUse, AbsHeard
<1> QED BY <1>1, <1>2

(* Every step of the page is a step of DisplayUse or a stutter.              *)
LEMMA StepMaps ==
  ASSUME PresetInv, PresetInv', [Next]_vars
  PROVE  [Abstract!UseNext]_(Abstract!useVars)
<1>1. Stutters => UNCHANGED Abstract!useVars
  BY DEF Stutters, AbsUse, AbsHeard, Abstract!useVars
<1>2. \A p \in Panels : Listed(panelPreset[p]) => panelPreset[p] \in ListedNames
  BY DEF Listed, ListedNames
<1>3. \A n \in ListedNames, d \in Displays :
        Abstract!Control(n, d) \/ Abstract!Hear(n, d) \/ (\E u \in {"off", "shared"} : Abstract!Leave(n, d, u))
          => Abstract!UseNext
  BY DEF Abstract!UseNext, Abstract!Uses
<1>4. ASSUME NEW p \in Panels, CheckDisplay(p) PROVE Abstract!UseNext \/ Stutters
  <2>1. PICK d \in Displays, checked \in BOOLEAN :
          Edit(p, UpdatePresetDisplays(Shown(p), d, checked))
    BY <1>4 DEF CheckDisplay
  <2> QED BY <1>2, <1>3, <2>1, DisplayBoxMaps DEF Edit
<1>5. ASSUME NEW p \in Panels, CheckAudio(p) PROVE Abstract!UseNext
  <2>1. PICK d \in Displays, checked \in BOOLEAN :
          Edit(p, UpdateAudioDevices(Shown(p), d, checked))
    BY <1>5 DEF CheckAudio
  <2> QED BY <1>2, <1>3, <2>1, AudioBoxMaps DEF Edit
<1>6. ASSUME NEW p \in Panels, CheckShareable(p) PROVE Abstract!UseNext \/ Stutters
  <2>1. PICK d \in Displays, checked \in BOOLEAN :
          Edit(p, UpdateShareableDisplays(Shown(p), d, checked))
    BY <1>6 DEF CheckShareable
  <2> QED BY <1>2, <1>3, <2>1, ShareBoxMaps DEF Edit
<1>7. ASSUME NEW p \in Panels, CheckInput(p) PROVE Stutters
  <2>1. PICK i \in Inputs, checked \in BOOLEAN :
          Edit(p, UpdatePresetInputs(Shown(p), i, checked))
    BY <1>7 DEF CheckInput
  <2> QED BY <2>1, InputBoxMaps
<1>8. ASSUME NEW p \in Panels, ToggleSharing(p) PROVE Stutters
  BY <1>8 DEF ToggleSharing, Stutters, AbsUse, AbsHeard, ListedNames, PresetOf
<1>9. ASSUME NEW p \in Panels, NEW n \in Names, NamePanel(p, n)
      PROVE  Abstract!UseNext \/ Stutters
  BY <1>9, NamingMaps DEF Abstract!UseNext
<1>10. CASE UNCHANGED vars
  BY <1>10 DEF vars, Abstract!useVars, ListedNames, PresetOf
<1> QED BY <1>1, <1>4, <1>5, <1>6, <1>7, <1>8, <1>9, <1>10 DEF Next

(* The configuration as it was stored is a state DisplayUse may start in.    *)
LEMMA InitMaps == Init => Abstract!UseInit
<1> SUFFICES ASSUME Init PROVE Abstract!UseInit
  OBVIOUS
<1>1. PresetInv
  BY InitKeeps
<1>2. ListedNames \in SUBSET Names
  <2>1. \A i \in DOMAIN presets : presets[i] \in Preset
    BY <1>1 DEF PresetInv, TypeOK
  <2>2. \A i \in DOMAIN presets : presets[i].name \in Names
    BY <2>1 DEF Preset
  <2> QED BY <2>2 DEF ListedNames
<1>3. \A n \in ListedNames : UseOf(PresetOf(n)) \in [Displays -> Abstract!Uses]
  BY DEF UseOf, Abstract!Uses
<1>4. AbsUse \in [ListedNames -> [Displays -> Abstract!Uses]]
  BY <1>3 DEF AbsUse
<1>5. AbsHeard \subseteq (DOMAIN AbsUse) \X Displays
  BY DEF AbsUse, AbsHeard
<1> QED BY <1>2, <1>4, <1>5 DEF Abstract!UseInit, AbsUse, AbsHeard

(* The lists of a preset and the boxes that call each other's handlers are   *)
(* one choice per display and a switch for its sound, for any panels, names  *)
(* and displays.                                                             *)
THEOREM PanelsImplementUse == Spec => ImplementsDisplayUse
<1>1. Init => Abstract!UseInit
  BY InitMaps
<1>2. PresetInv /\ PresetInv' /\ [Next]_vars => [Abstract!UseNext]_(Abstract!useVars)
  BY StepMaps
<1> QED BY <1>1, <1>2, PresetInvariant, PTL DEF Spec, ImplementsDisplayUse, Abstract!UseSpec
=============================================================================
