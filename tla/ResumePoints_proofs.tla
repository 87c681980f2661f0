------------------------ MODULE ResumePoints_proofs ------------------------
(***************************************************************************)
(* Theorems about ResumePoints, for any slots, discs, cores and bounds: a  *)
(* slot resumes the run kept in it last, a slot kept is there until it is  *)
(* written again, and - where the power stays on for the two writes that   *)
(* mark a RetroArch slot - a state goes to the emulator that wrote it.     *)
(*                                                                         *)
(* The invariant says, write by write, what a save or a removal has done   *)
(* so far (Written), and what holds of every slot at any write (SlotOK).   *)
(***************************************************************************)
EXTENDS ResumePoints, TLAPS

-----------------------------------------------------------------------------
(* The invariant.                                                          *)

OldSteps == {"dropOldState", "dropOldPicture", "dropMarker"}
StepsOf(what) ==
    CASE what = "nothing" -> {"rest"}
      [] what = "pcsx"    -> OldSteps \cup {"dropState", "copyState", "keptName", "slotName", "clearRun",
                                            "dropPicture", "picture", "end"}
      [] what = "ps1ra"   -> OldSteps \cup {"replaceState", "dropPicture", "picture", "slotName", "marker",
                                            "clearRun", "end"}
      [] what = "ra"      -> {"replaceState", "dropPicture", "picture", "keptName", "slotName", "clearRun",
                              "end"}
      [] what = "removal" -> OldSteps \cup {"end"}

WorkOK ==
    /\ step \in StepsOf(saving)
    /\ saving = "nothing" \/ (slot \in Slots /\ emulator = None)
    /\ saving \in {"pcsx", "ps1ra"} => kind = Ps1
    /\ saving = "ra" => kind # Ps1

(* The run's own states are whole, and by the emulator of the run.         *)
RunOK ==
    /\ freshName \in discs \cup {None} /\ (freshName = None => freshState = None)
    /\ freshName # None => freshState \in States /\ freshState.by = Pcsx /\ kind = Ps1
    /\ raState # None => raState \in States /\ raState.by \in Cores /\ (kind # Ps1 => raState.by = kind)
    /\ offer = "pcsx" => freshName # None
    /\ offer = "ra" => raState # None
    /\ emulator # None => offer = "none"
    /\ emulator \in Cores /\ kind # Ps1 => emulator = kind
    /\ emulator = Pcsx => kind = Ps1
    /\ saving = "pcsx" /\ step \notin {"dropPicture", "picture", "end"} => offer = "pcsx"
    /\ saving \in {"ps1ra", "ra"} /\ step # "end" => offer = "ra"

LoadedOK ==
    /\ emulator = None => loaded = None
    /\ loaded \in States => /\ resumed \in Slots /\ loaded.n \in due[resumed]
                            /\ CutMarking \/ loaded.by = emulator

(* A state in the slot is one of the runs it may resume.                   *)
Of(state, t) == state \in States => state.n \in due[t]

(* A slot of a playlist entry.                                             *)
RaSlot(t) ==
    /\ marker[t] = None /\ slotName[t] \in {None, RaName}
    /\ \A m \in Discs : kept[m][t] = None
    /\ kept[RaName][t] \in States \cup {None} /\ Of(kept[RaName][t], t)
    /\ kept[RaName][t] \in States => kept[RaName][t].by = kind
    /\ t \in whole => kept[RaName][t] \in States /\ NameOf(t) = RaName

(* A slot of one of our games, either emulator's: under a disc's name its  *)
(* states are PCSX's, under RetroArch's they are the marker's core's.      *)
Ps1Slot(t) ==
    /\ slotName[t] \in discs \cup {RaName, None}
    /\ \A m \in Discs : /\ kept[m][t] \in States => kept[m][t].by = Pcsx
                        /\ m \notin discs => kept[m][t] = None
                        /\ picture[m][t] /\ slotName[t] = None => discs = {m}
                        /\ slotName[t] \in {None, m} => Of(kept[m][t], t)
    /\ kept[RaName][t] \in States \cup {None}
    /\ kept[RaName][t] \in States => kept[RaName][t].by \in Cores
    /\ slotName[t] = RaName => Of(kept[RaName][t], t)
    /\ marker[t] # None => slotName[t] = RaName
    /\ marker[t] # None /\ kept[RaName][t] \in States => kept[RaName][t].by = marker[t]
    /\ marker[t] = None /\ kept[RaName][t] \in States => CutMarking \/ (Marking /\ slot = t)
    /\ t \in whole => slotIsActive(t) /\ StateOf(t) \in States /\ (saving = "nothing" \/ slot # t)

SlotOK(t) == IF kind = Ps1 THEN Ps1Slot(t) ELSE RaSlot(t)

KeptNameOK == keptName \in IF kind = Ps1 THEN discs \cup {None} ELSE {RaName, None}

(* What a removal, alone or before a save, a save after PCSX and one after *)
(* RetroArch have written so far.                                          *)
RemovedSoFar ==
    /\ saving # "nothing" /\ step \in OldSteps => NameOf(slot) # None
    /\ saving # "nothing" /\ step \in {"dropOldPicture", "dropMarker"} => kept[NameOf(slot)][slot] = None
    /\ saving = "removal" =>
          /\ slotName[slot] = None /\ kind = Ps1 => discs = {keptName}
          /\ step = "end" => NameOf(slot) # None /\ kept[NameOf(slot)][slot] = None
          /\ slot \notin whole

PcsxSoFar ==
    saving = "pcsx" =>
        /\ step \notin OldSteps => marker[slot] = None
        /\ step \notin {"dropPicture", "picture", "end"} => freshState.n \in due[slot]
        /\ step \in {"keptName", "slotName"} => kept[freshName][slot] \in {freshState, Torn}
        /\ step \in {"clearRun", "dropPicture", "picture", "end"} => slotName[slot] \in discs
        /\ step = "end" => picture[slotName[slot]][slot]

RaSoFar ==
    saving \in {"ps1ra", "ra"} =>
        /\ step # "end" => raState.n \in due[slot]
        /\ step \in {"dropPicture", "picture", "keptName", "slotName", "marker"} => kept[RaName][slot] = raState
        /\ step \in {"marker", "clearRun", "end"} => slotName[slot] = RaName
        /\ saving = "ps1ra" /\ step \notin OldSteps =>
              (marker[slot] = None <=> step \notin {"clearRun", "end"})

Written == RemovedSoFar /\ PcsxSoFar /\ RaSoFar

SlotsOK == KeptNameOK /\ \A t \in Slots : SlotOK(t)

IndInv == TypeOK /\ WorkOK /\ RunOK /\ LoadedOK /\ SlotsOK /\ Written

-----------------------------------------------------------------------------
(* The operators.                                                          *)

LEMMA Apart ==
    /\ -1 \notin Slots /\ RaName \notin Discs /\ RaName # None /\ None \notin Discs
    /\ None \notin States /\ Torn \notin States /\ None # Torn
    /\ Pcsx \notin Cores /\ Ps1 \notin Cores /\ None \notin Cores /\ Pcsx # None
    /\ \A state \in States : state.by \in Cores \cup {Pcsx} /\ state.n \in 0 .. MaxRuns
BY ResumePointsAssumption DEF Names, States

(* One entry of a table of two keys is written.                            *)
LEMMA OneWritten ==
    ASSUME NEW R, NEW f \in [Names -> [Slots -> R]], NEW m \in Names, NEW s \in Slots, NEW c \in R,
           NEW g, g = [f EXCEPT ![m] = [@ EXCEPT ![s] = c]]
    PROVE  /\ g \in [Names -> [Slots -> R]] /\ g[m][s] = c
           /\ \A n \in Names, t \in Slots : n # m \/ t # s => g[n][t] = f[n][t]
OBVIOUS

(* The order of the writes.                                                *)
LEMMA Order ==
    ASSUME TypeOK, WorkOK, saving # "nothing", step # "end"
    PROVE  /\ After(saving, step, slot) \in StepsOf(saving)
           /\ step = "dropOldState" => After(saving, step, slot) = "dropOldPicture"
           /\ step = "dropOldPicture" => After(saving, step, slot) = "dropMarker"
           /\ step = "dropMarker" =>
                 After(saving, step, slot) = IF saving = "pcsx" THEN "dropState"
                                             ELSE IF saving = "ps1ra" THEN "replaceState" ELSE "end"
           /\ step = "dropState" => After(saving, step, slot) = "copyState"
           /\ step = "copyState" => After(saving, step, slot) = "keptName"
           /\ step = "replaceState" => After(saving, step, slot) = "dropPicture"
           /\ step = "dropPicture" => After(saving, step, slot) = "picture"
           /\ step = "picture" =>
                 After(saving, step, slot) = IF saving = "pcsx" THEN "end"
                                             ELSE IF saving = "ps1ra" THEN "slotName" ELSE "keptName"
           /\ step = "keptName" => After(saving, step, slot) = "slotName"
           /\ step = "slotName" =>
                 After(saving, step, slot) = IF saving = "ps1ra" THEN "marker" ELSE "clearRun"
           /\ step = "marker" => After(saving, step, slot) = "clearRun"
           /\ step = "clearRun" =>
                 After(saving, step, slot) = IF saving = "pcsx" THEN "dropPicture" ELSE "end"
<1>1. CASE saving = "pcsx"
      BY <1>1 DEF WorkOK, StepsOf, OldSteps, After, savePcsxSlot, removeSlot
<1>2. CASE saving = "ps1ra"
      BY <1>2 DEF WorkOK, StepsOf, OldSteps, After, savePs1RaSlot, removeSlot
<1>3. CASE saving = "ra"
      BY <1>3 DEF WorkOK, StepsOf, OldSteps, After, saveRaSlot
<1>4. CASE saving = "removal"
      BY <1>4 DEF WorkOK, StepsOf, OldSteps, After, removeSlot
<1>5. saving \in {"nothing", "pcsx", "ps1ra", "ra", "removal"}
      BY DEF TypeOK
<1> QED BY <1>1, <1>2, <1>3, <1>4, <1>5

-----------------------------------------------------------------------------
(* What holds at any step.                                                 *)

LEMMA Names0 ==
    ASSUME TypeOK, WorkOK
    PROVE  /\ AtRest => saving = "nothing"
           /\ saving = "nothing" => step = "rest"
           /\ emulator # None => saving = "nothing"
           /\ \A t \in Slots : NameOf(t) \in Names \cup {None}
BY DEF TypeOK, WorkOK, AtRest, StepsOf, OldSteps, NameOf

(* A slot whose files a step does not touch stays as it is, whatever       *)
(* becomes of the name all slots share: only a slot of an older launcher   *)
(* goes by that name, and then the game has one disc.                      *)
LEMMA Untouched ==
    ASSUME TypeOK, KeptNameOK, NEW t \in Slots, SlotOK(t),
           kind' = kind, discs' = discs,
           \A n \in Names : kept'[n][t] = kept[n][t] /\ picture'[n][t] = picture[n][t],
           slotName'[t] = slotName[t], marker'[t] = marker[t],
           due[t] \subseteq due'[t], t \in whole' => t \in whole,
           keptName' = keptName \/ (keptName' \in IF kind = Ps1 THEN discs ELSE {RaName}),
           kind = Ps1 /\ Marking /\ slot = t => CutMarking \/ (Marking' /\ slot' = t),
           kind = Ps1 => saving' = "nothing" \/ slot' # t \/ t \notin whole'
    PROVE  SlotOK(t)'
<1>1. ASSUME kind # Ps1 PROVE RaSlot(t)'
      <2> RaName \in Names
          BY DEF Names
      <2> \A m \in Discs : m \in Names
          BY DEF Names
      <2> kept'[RaName][t] = kept[RaName][t] /\ \A m \in Discs : kept'[m][t] = kept[m][t]
          OBVIOUS
      <2>1. RaSlot(t) /\ keptName \in {RaName, None}
            BY <1>1 DEF SlotOK, KeptNameOK
      <2>2. NameOf(t) = RaName => NameOf(t)' = RaName
            BY <1>1, <2>1, Apart DEF NameOf
      <2> QED BY <1>1, <2>1, <2>2 DEF RaSlot, Of
<1>2. ASSUME kind = Ps1 PROVE Ps1Slot(t)'
      <2> RaName \in Names
          BY DEF Names
      <2> \A m \in Discs : m \in Names
          BY DEF Names
      <2> kept'[RaName][t] = kept[RaName][t]
          OBVIOUS
      <2> \A m \in Discs : kept'[m][t] = kept[m][t] /\ picture'[m][t] = picture[m][t]
          OBVIOUS
      <2>1. Ps1Slot(t) /\ keptName \in discs \cup {None} /\ (keptName' = keptName \/ keptName' \in discs)
            BY <1>2 DEF SlotOK, KeptNameOK
      <2>2. discs \subseteq Discs /\ NameOf(t) \in Names \cup {None}
            BY DEF TypeOK, NameOf
      <2>3. ASSUME t \in whole' PROVE NameOf(t)' = NameOf(t) /\ NameOf(t) \in Names
            <3>1. slotIsActive(t) /\ NameOf(t) # None
                  BY <2>1, <2>3 DEF Ps1Slot, slotIsActive
            <3>2. CASE slotName[t] # None
                  BY <3>1, <3>2, <2>2 DEF NameOf
            <3>3. CASE slotName[t] = None
                  <4>1. marker[t] = None
                        BY <2>1, <3>3, Apart DEF Ps1Slot
                  <4>2. NameOf(t) = keptName
                        BY <3>3 DEF NameOf
                  <4>3. picture[keptName][t]
                        BY <3>1, <4>1, <4>2, <1>2 DEF slotIsActive, slotIsRetroArch
                  <4>4. discs = {keptName}
                        BY <4>3, <2>1, <2>2, <3>1, <3>3, <4>2 DEF Ps1Slot
                  <4>5. keptName' = keptName
                        BY <4>4, <2>1
                  <4> QED BY <4>2, <4>5, <3>1, <3>3, <2>2 DEF NameOf
            <3> QED BY <3>2, <3>3
      <2>4. ASSUME t \in whole' PROVE slotIsActive(t)' /\ (StateOf(t) \in States)'
            <3> PICK n : n = NameOf(t)
                OBVIOUS
            <3>1. n \in Names /\ NameOf(t)' = n /\ n # None
                  BY <2>3, <2>4, ResumePointsAssumption
            <3>2. kept'[n][t] = kept[n][t] /\ picture'[n][t] = picture[n][t]
                  BY <3>1
            <3>3. slotIsActive(t) /\ StateOf(t) \in States
                  BY <2>1, <2>4 DEF Ps1Slot
            <3>4. StateOf(t)' = StateOf(t)
                  BY <3>1, <3>2 DEF StateOf
            <3>5. slotIsRetroArch(t)' = slotIsRetroArch(t)
                  BY DEF slotIsRetroArch
            <3> QED BY <3>1, <3>2, <3>3, <3>4, <3>5 DEF slotIsActive
      <2> QED BY <1>2, <2>1, <2>4, Apart DEF Ps1Slot, Of
<1> QED BY <1>1, <1>2 DEF SlotOK

-----------------------------------------------------------------------------
(* Launches, the run's end, and what the player does with no slot written. *)

(* Nothing is being written, before and after: every slot stays.           *)
LEMMA SlotsStay ==
    ASSUME IndInv, saving = "nothing", UNCHANGED <<kind, discs, slotFiles, work, history>>
    PROVE  WorkOK' /\ SlotsOK' /\ Written'
<1>1. saving' = "nothing" /\ step = "rest" /\ step' = "rest"
      BY Names0 DEF IndInv, work
<1>2. WorkOK'
      BY <1>1 DEF WorkOK, StepsOf
<1>3. Written'
      BY <1>1 DEF Written, RemovedSoFar, PcsxSoFar, RaSoFar
<1>4. KeptNameOK'
      BY DEF IndInv, SlotsOK, KeptNameOK, slotFiles
<1>5. ASSUME NEW t \in Slots PROVE SlotOK(t)'
      BY <1>1, Untouched DEF IndInv, SlotsOK, slotFiles, history, Marking
<1> QED BY <1>1, <1>2, <1>3, <1>4, <1>5 DEF SlotsOK

(* A state a slot is resumed from at rest, by the emulator it is given.    *)
LEMMA ResumedState ==
    ASSUME IndInv, saving = "nothing", NEW s \in Slots
    PROVE  /\ kind = Ps1 /\ ~slotIsRetroArch(s) /\ StateOf(s) \in States =>
                 StateOf(s).n \in due[s] /\ (CutMarking \/ StateOf(s).by = Pcsx)
           /\ kind = Ps1 /\ slotIsRetroArch(s) =>
                 /\ StateOf(s) \in States \cup {None}
                 /\ StateOf(s) \in States => StateOf(s).n \in due[s] /\ StateOf(s).by = marker[s]
           /\ kind # Ps1 => /\ kept[RaName][s] \in States \cup {None}
                            /\ kept[RaName][s] \in States =>
                                  kept[RaName][s].n \in due[s] /\ kept[RaName][s].by = kind
<1>1. SlotOK(s) /\ KeptNameOK /\ TypeOK /\ discs \subseteq Discs
      BY DEF IndInv, SlotsOK, TypeOK
<1>2. kind # Ps1 => RaSlot(s)
      BY <1>1 DEF SlotOK
<1>3. ASSUME kind = Ps1 PROVE Ps1Slot(s) /\ keptName \in discs \cup {None}
      BY <1>1, <1>3 DEF SlotOK, KeptNameOK
<1>4. ASSUME kind = Ps1, slotIsRetroArch(s)
      PROVE  /\ StateOf(s) \in States \cup {None}
             /\ StateOf(s) \in States => StateOf(s).n \in due[s] /\ StateOf(s).by = marker[s]
      <2>1. marker[s] # None
            BY <1>4 DEF slotIsRetroArch
      <2>2. StateOf(s) = kept[RaName][s]
            BY <2>1, <1>3, <1>4, Apart DEF Ps1Slot, StateOf, NameOf
      <2> QED BY <2>1, <2>2, <1>3, <1>4 DEF Ps1Slot, Of
<1>5. ASSUME kind = Ps1, ~slotIsRetroArch(s), StateOf(s) \in States
      PROVE  StateOf(s).n \in due[s] /\ (CutMarking \/ StateOf(s).by = Pcsx)
      <2>1. marker[s] = None
            BY <1>5 DEF slotIsRetroArch
      <2>2. CASE NameOf(s) = RaName
            <3>1. StateOf(s) = kept[RaName][s] /\ slotName[s] = RaName
                  BY <1>1, <1>3, <1>5, <2>2, Apart DEF StateOf, NameOf
            <3> QED BY <2>1, <3>1, <1>3, <1>5 DEF Ps1Slot, Of, Marking
      <2>3. CASE NameOf(s) # RaName
            <3> PICK m : m = NameOf(s)
                OBVIOUS
            <3>1. m \in discs /\ StateOf(s) = kept[m][s] /\ slotName[s] \in {None, m}
                  BY <1>1, <1>3, <1>5, <2>3, Apart DEF StateOf, NameOf, Ps1Slot
            <3> QED BY <3>1, <1>1, <1>3, <1>5 DEF Ps1Slot, Of
      <2> QED BY <2>2, <2>3
<1> QED BY <1>2, <1>4, <1>5 DEF RaSlot, Of

LEMMA PcsxLaunch ==
    ASSUME IndInv, NEW s \in Slots \cup {-1}, prepareForLaunch(s)
    PROVE  IndInv'
<1> USE DEF prepareForLaunch, Launch, NothingFresh
<1>1. TypeOK /\ saving = "nothing" /\ saving' = "nothing"
      BY Names0 DEF IndInv, work
<1>2. WorkOK' /\ SlotsOK' /\ Written'
      BY <1>1, SlotsStay
<1>3. loaded' \in States =>
         s \in Slots /\ loaded' = StateOf(s) /\ ~slotIsRetroArch(s)
      BY Apart
<1>4. loaded' \in Content
      BY <1>1 DEF TypeOK, StateOf, NameOf, Content
<1>5. TypeOK'
      <2>1. runs' \in 0 .. MaxRuns
            BY <1>1, ResumePointsAssumption DEF TypeOK
      <2> QED BY <1>1, <1>4, <2>1 DEF TypeOK, Content, slotFiles, work, history
<1>6. RunOK'
      BY <1>1, Apart DEF RunOK
<1>7. LoadedOK'
      BY <1>1, <1>3, ResumedState, Apart DEF LoadedOK, history
<1> QED BY <1>2, <1>5, <1>6, <1>7 DEF IndInv

LEMMA RaLaunch ==
    ASSUME IndInv, NEW s \in Slots \cup {-1}, NEW core \in Cores, launchRetroArch(core, s)
    PROVE  IndInv'
<1> DEFINE e == IF s # -1 /\ kind = Ps1 /\ marker[s] # None THEN marker[s] ELSE core
           state == IF s = -1 \/ ~slotIsRetroArch(s) THEN None
                    ELSE IF kind = Ps1 THEN StateOf(s) ELSE kept[RaName][s]
<1>1. /\ TypeOK /\ AtRest /\ runs < MaxRuns /\ runs' = runs + 1
      /\ emulator' = e /\ resumed' = s /\ loaded' = state /\ offer' = "none" /\ raState' = state
      /\ kind # Ps1 => core = kind
      /\ UNCHANGED <<kind, discs, slotFiles, work, history, removed, cuts, full, freshName, freshState, exitDir>>
      BY DEF IndInv, launchRetroArch, Launch
<1>2. saving = "nothing" /\ saving' = "nothing"
      BY <1>1, Names0 DEF IndInv, work
<1>3. WorkOK' /\ SlotsOK' /\ Written'
      BY <1>1, <1>2, SlotsStay
<1>4. e \in Cores /\ (kind # Ps1 => e = kind)
      BY <1>1 DEF TypeOK
<1>5. /\ state \in States \cup {None}
      /\ state \in States => s \in Slots /\ state.n \in due[s] /\ state.by = e
      <2>1. CASE state = None
            BY <2>1, Apart
      <2>2. CASE state # None /\ kind = Ps1
            <3>1. s \in Slots /\ slotIsRetroArch(s) /\ state = StateOf(s) /\ s # -1
                  BY <2>2
            <3>2. marker[s] # None
                  BY <2>2, <3>1 DEF slotIsRetroArch
            <3>3. e = marker[s]
                  BY <2>2, <3>1, <3>2
            <3> HIDE DEF e, state
            <3> QED BY <2>2, <3>1, <3>3, <1>2, ResumedState
      <2>3. CASE state # None /\ kind # Ps1
            <3>1. s \in Slots /\ state = kept[RaName][s]
                  BY <2>3
            <3> HIDE DEF e, state
            <3> QED BY <2>3, <3>1, <1>2, <1>4, ResumedState
      <2> QED BY <2>1, <2>2, <2>3
<1> HIDE DEF e, state
<1>6. TypeOK'
      <2>1. runs' \in 0 .. MaxRuns
            BY <1>1, ResumePointsAssumption DEF TypeOK
      <2>2. resumed' \in Slots \cup {-1}
            BY <1>1
      <2> QED BY <1>1, <1>4, <1>5, <2>1, <2>2 DEF TypeOK, Content, slotFiles, work, history
<1>7. RunOK'
      BY <1>1, <1>2, <1>4, <1>5, Apart DEF RunOK, IndInv
<1>8. LoadedOK'
      BY <1>1, <1>4, <1>5, Apart DEF LoadedOK, history
<1> QED BY <1>3, <1>6, <1>7, <1>8 DEF IndInv

LEMMA RunEnds ==
    ASSUME IndInv, EndRun
    PROVE  IndInv'
<1> USE DEF EndRun
<1>1. TypeOK /\ saving = "nothing" /\ saving' = "nothing"
      BY Names0 DEF IndInv, work
<1>2. WorkOK' /\ SlotsOK' /\ Written'
      BY <1>1, SlotsStay
<1>3. LoadedOK'
      BY Apart DEF LoadedOK
<1>4. \A w \in Cores \cup {Pcsx} : State(w, runs) \in States /\ State(w, runs).by = w
      BY <1>1 DEF TypeOK, State, States
<1>5. CASE emulator = Pcsx
      <2>1. freshName' \in discs \cup {None} /\ freshState' \in Content /\ discs \subseteq Discs
            BY <1>1, <1>4, <1>5 DEF TypeOK, Content, RunOK, IndInv
      <2>2. RunOK'
            BY <1>1, <1>4, <1>5, <2>1, Apart DEF RunOK, IndInv, TypeOK, exitedCleanly, State
      <2>3. TypeOK'
            BY <1>1, <1>5, <2>1 DEF TypeOK, slotFiles, work, history, bounds, Content
      <2> QED BY <1>2, <1>3, <2>2, <2>3 DEF IndInv
<1>6. CASE emulator # Pcsx
      <2>1. emulator \in Cores /\ (kind # Ps1 => emulator = kind)
            BY <1>1, <1>6 DEF TypeOK, RunOK, IndInv
      <2>2. raState' \in States \cup {None} /\ (raState' \in States => raState' = raState \/ raState'.by = emulator)
            BY <1>4, <1>6, <2>1 DEF RunOK, IndInv
      <2>3. RunOK'
            BY <1>1, <1>4, <1>6, <2>1, <2>2, Apart DEF RunOK, IndInv, raStateWritten
      <2>4. TypeOK'
            BY <1>1, <1>6, <2>2 DEF TypeOK, slotFiles, work, history, bounds, Content
      <2> QED BY <1>2, <1>3, <2>3, <2>4 DEF IndInv
<1> QED BY <1>5, <1>6

LEMMA NothingWritten ==
    ASSUME IndInv, RaSaveFails \/ discardRun
    PROVE  IndInv'
<1>1. TypeOK /\ saving = "nothing" /\ saving' = "nothing" /\ emulator = None
      BY Names0 DEF IndInv, work, RaSaveFails, discardRun, AtRest
<1>2. WorkOK' /\ SlotsOK' /\ Written'
      BY <1>1, SlotsStay DEF RaSaveFails, discardRun
<1>3. LoadedOK'
      BY <1>1, Apart DEF LoadedOK, IndInv, RaSaveFails, discardRun, session
<1>4. CASE RaSaveFails
      <2>1. full' \in 0 .. MaxFull
            BY <1>1, <1>4, ResumePointsAssumption DEF TypeOK, RaSaveFails
      <2>2. TypeOK'
            BY <1>1, <1>4, <2>1 DEF TypeOK, RaSaveFails, slotFiles, runFiles, session, work, history
      <2>3. RunOK'
            BY <1>1, <1>4 DEF RunOK, IndInv, RaSaveFails, slotFiles, runFiles, session, work
      <2> QED BY <1>2, <1>3, <2>2, <2>3 DEF IndInv
<1>5. CASE discardRun
      <2>1. TypeOK'
            BY <1>1, <1>5 DEF TypeOK, discardRun, NothingFresh, slotFiles, work, history, bounds, Content
      <2>2. RunOK'
            BY <1>1, <1>5, Apart DEF RunOK, IndInv, discardRun, NothingFresh
      <2> QED BY <1>2, <1>3, <2>1, <2>2 DEF IndInv
<1> QED BY <1>4, <1>5

-----------------------------------------------------------------------------
(* A save or a removal begins.                                             *)

LEMMA FirstWrite ==
    ASSUME NEW s
    PROVE  /\ After("pcsx", "begin", s) = IF slotIsRetroArch(s) /\ NameOf(s) # None THEN "dropOldState" ELSE "dropState"
           /\ After("ps1ra", "begin", s) = IF NameOf(s) # None THEN "dropOldState" ELSE "replaceState"
           /\ After("ra", "begin", s) = "replaceState"
           /\ After("removal", "begin", s) = IF NameOf(s) # None THEN "dropOldState" ELSE "end"
<1>1. After("pcsx", "begin", s) = IF slotIsRetroArch(s) /\ NameOf(s) # None THEN "dropOldState" ELSE "dropState"
      <2>1. CASE slotIsRetroArch(s)
            BY <2>1 DEF After, savePcsxSlot, removeSlot
      <2>2. CASE ~slotIsRetroArch(s)
            BY <2>2 DEF After, savePcsxSlot, removeSlot
      <2> QED BY <2>1, <2>2
<1>2. After("ps1ra", "begin", s) = IF NameOf(s) # None THEN "dropOldState" ELSE "replaceState"
      BY DEF After, savePs1RaSlot, removeSlot
<1>3. After("ra", "begin", s) = "replaceState"
      BY DEF After, saveRaSlot
<1>4. After("removal", "begin", s) = IF NameOf(s) # None THEN "dropOldState" ELSE "end"
      BY DEF After, removeSlot
<1> QED BY <1>1, <1>2, <1>3, <1>4

LEMMA SaveBegins ==
    ASSUME IndInv, NEW s \in Slots, saveAfterLaunch(s)
    PROVE  IndInv'
<1> DEFINE what == IF offer = "pcsx" THEN "pcsx" ELSE IF kind = Ps1 THEN "ps1ra" ELSE "ra"
<1>1. /\ TypeOK /\ AtRest /\ offer # "none" /\ emulator = None
      /\ saving' = what /\ slot' = s /\ step' = After(what, "begin", s)
      /\ due' = [due EXCEPT ![s] = @ \cup (IF Incoming \in States THEN {Incoming.n} ELSE {})]
      /\ whole' = IF kind = Ps1 THEN whole \ {s} ELSE whole
      /\ UNCHANGED <<kind, discs, slotFiles, runFiles, session, bounds>>
      BY DEF IndInv, saveAfterLaunch, Begin, AtRest
<1>2. saving = "nothing" /\ step = "rest"
      BY <1>1, Names0 DEF IndInv
<1>3. /\ what = "pcsx" => offer = "pcsx" /\ kind = Ps1 /\ freshName # None /\ Incoming = freshState
      /\ what # "pcsx" => offer = "ra" /\ raState # None /\ Incoming = raState
      /\ what \in {"pcsx", "ps1ra", "ra"} /\ (what = "ps1ra" => kind = Ps1) /\ (what = "ra" => kind # Ps1)
      BY <1>1 DEF IndInv, RunOK, Incoming, TypeOK
<1> HIDE DEF what
<1>4. Incoming \in States /\ Incoming.n \in 0 .. MaxRuns
      BY <1>3, Apart DEF IndInv, RunOK
<1>5. /\ Incoming.n \in due'[s] /\ \A t \in Slots : due[t] \subseteq due'[t]
      /\ due' \in [Slots -> SUBSET (0 .. MaxRuns)]
      BY <1>1, <1>4 DEF TypeOK
<1>6. /\ what = "pcsx" => step' = IF slotIsRetroArch(s) /\ NameOf(s) # None THEN "dropOldState" ELSE "dropState"
      /\ what = "ps1ra" => step' = IF NameOf(s) # None THEN "dropOldState" ELSE "replaceState"
      /\ what = "ra" => step' = "replaceState"
      BY <1>1, FirstWrite
<1>7. TypeOK'
      <2>1. step' \in {"dropOldState", "dropState", "replaceState"}
            BY <1>3, <1>6
      <2> QED BY <1>1, <1>3, <1>5, <2>1 DEF TypeOK, slotFiles, runFiles, session, bounds
<1>8. WorkOK'
      <2>1. step' \in StepsOf(what)
            BY <1>3, <1>6 DEF StepsOf, OldSteps
      <2> QED BY <1>1, <1>3, <2>1 DEF WorkOK, session
<1>9. RunOK'
      BY <1>1, <1>3 DEF IndInv, RunOK, runFiles, session
<1>10. LoadedOK'
      BY <1>1, Apart DEF IndInv, LoadedOK, session
<1>11. SlotsOK'
      <2>1. KeptNameOK'
            BY <1>1 DEF IndInv, SlotsOK, KeptNameOK, slotFiles
      <2>2. ASSUME NEW t \in Slots PROVE SlotOK(t)'
            <3>1. kind = Ps1 => slot' # t \/ t \notin whole'
                  BY <1>1
            <3>2. ~Marking
                  BY <1>2 DEF Marking
            <3> QED BY <1>1, <1>5, <3>1, <3>2, Untouched DEF IndInv, SlotsOK, slotFiles
      <2> QED BY <2>1, <2>2 DEF SlotsOK
<1>12. NameOf(s)' = NameOf(s) /\ (slotIsRetroArch(s)' = slotIsRetroArch(s)) /\ NameOf(slot)' = NameOf(s)
      BY <1>1 DEF NameOf, slotIsRetroArch, slotFiles
<1>13. kind = Ps1 /\ marker[s] # None => NameOf(s) # None
      BY Apart DEF IndInv, SlotsOK, SlotOK, Ps1Slot, NameOf
<1>14. Written'
      <2>1. RemovedSoFar'
            BY <1>1, <1>3, <1>6, <1>12 DEF RemovedSoFar, OldSteps
      <2>2. PcsxSoFar'
            <3> SUFFICES ASSUME what = "pcsx" PROVE PcsxSoFar'
                BY <1>1 DEF PcsxSoFar
            <3>1. step' = "dropOldState" \/ (step' = "dropState" /\ marker[s] = None)
                  BY <1>3, <1>6, <1>13 DEF slotIsRetroArch
            <3> QED BY <1>1, <1>3, <1>5, <3>1 DEF PcsxSoFar, OldSteps, runFiles, slotFiles
      <2>3. RaSoFar'
            <3> SUFFICES ASSUME what \in {"ps1ra", "ra"} PROVE RaSoFar'
                BY <1>1 DEF RaSoFar
            <3>1. step' = "dropOldState" \/ (step' = "replaceState" /\ (what = "ps1ra" => marker[s] = None))
                  BY <1>3, <1>6, <1>13
            <3> QED BY <1>1, <1>3, <1>5, <3>1 DEF RaSoFar, OldSteps, runFiles, slotFiles
      <2> QED BY <2>1, <2>2, <2>3 DEF Written
<1> QED BY <1>7, <1>8, <1>9, <1>10, <1>11, <1>14 DEF IndInv

LEMMA RemovalBegins ==
    ASSUME IndInv, NEW s \in Slots, RemoveSlot(s)
    PROVE  IndInv'
<1>1. /\ TypeOK /\ AtRest /\ emulator = None /\ slotIsActive(s)
      /\ saving' = "removal" /\ slot' = s /\ step' = After("removal", "begin", s)
      /\ removed < MaxRemoved /\ removed' = removed + 1
      /\ whole' = whole \ {s}
      /\ UNCHANGED <<kind, discs, slotFiles, runFiles, session, due, runs, cuts, full>>
      BY DEF IndInv, RemoveSlot, Begin, AtRest
<1>2. saving = "nothing" /\ step = "rest"
      BY <1>1, Names0 DEF IndInv
<1>3. NameOf(s) # None /\ step' = "dropOldState"
      BY <1>1, FirstWrite DEF slotIsActive
<1>4. TypeOK'
      <2>1. removed' \in 0 .. MaxRemoved
            BY <1>1, ResumePointsAssumption DEF TypeOK
      <2> QED BY <1>1, <1>3, <2>1 DEF TypeOK, slotFiles, runFiles, session
<1>5. WorkOK'
      <2>1. step' \in StepsOf("removal")
            BY <1>3 DEF StepsOf, OldSteps
      <2> QED BY <1>1, <2>1 DEF WorkOK, session
<1>6. RunOK'
      BY <1>1 DEF IndInv, RunOK, runFiles, session
<1>7. LoadedOK'
      BY <1>1, Apart DEF IndInv, LoadedOK, session
<1>8. SlotsOK'
      <2>1. KeptNameOK'
            BY <1>1 DEF IndInv, SlotsOK, KeptNameOK, slotFiles
      <2>2. ASSUME NEW t \in Slots PROVE SlotOK(t)'
            <3>1. slot' # t \/ t \notin whole'
                  BY <1>1
            <3>2. ~Marking
                  BY <1>2 DEF Marking
            <3> QED BY <1>1, <3>1, <3>2, Untouched DEF IndInv, SlotsOK, slotFiles
      <2> QED BY <2>1, <2>2 DEF SlotsOK
<1>9. slotName[s] = None /\ kind = Ps1 => discs = {keptName}
      <2> SUFFICES ASSUME slotName[s] = None, kind = Ps1 PROVE discs = {keptName}
          OBVIOUS
      <2>1. Ps1Slot(s) /\ keptName \in discs \cup {None} /\ discs \subseteq Discs
            BY <1>1 DEF IndInv, SlotsOK, SlotOK, KeptNameOK, TypeOK
      <2>2. NameOf(s) = keptName /\ marker[s] = None
            BY <2>1, Apart DEF Ps1Slot, NameOf
      <2>3. picture[keptName][s]
            BY <1>1, <2>2 DEF slotIsActive, slotIsRetroArch
      <2> QED BY <1>3, <2>1, <2>2, <2>3 DEF Ps1Slot
<1>10. Written'
      <2>1. NameOf(slot)' = NameOf(s)
            BY <1>1 DEF NameOf, slotFiles
      <2>2. RemovedSoFar'
            BY <1>1, <1>3, <1>9, <2>1 DEF RemovedSoFar, OldSteps, slotFiles
      <2> QED BY <1>1, <2>2 DEF Written, PcsxSoFar, RaSoFar
<1> QED BY <1>4, <1>5, <1>6, <1>7, <1>8, <1>10 DEF IndInv

-----------------------------------------------------------------------------
(* The writes.                                                             *)

(* What a write leaves: the run's files are kept to the end, and nothing   *)
(* runs.                                                                   *)
LEMMA AnyWrite ==
    ASSUME IndInv, Done, step \notin {"rest", "end"}
    PROVE  /\ slot \in Slots /\ emulator = None /\ saving \in {"pcsx", "ps1ra", "ra", "removal"}
           /\ slot' = slot /\ saving' = saving /\ kind' = kind /\ discs' = discs
           /\ step \in StepsOf(saving) /\ step' \in StepsOf(saving)
           /\ WorkOK' /\ LoadedOK'
           /\ UNCHANGED <<runFiles, offer>> /\ step # "clearRun" => RunOK'
<1>1. saving # "nothing" /\ TypeOK
      BY Names0 DEF IndInv
<1>2. /\ slot \in Slots /\ emulator = None /\ saving \in {"pcsx", "ps1ra", "ra", "removal"}
      /\ slot' = slot /\ saving' = saving /\ kind' = kind /\ discs' = discs
      /\ step \in StepsOf(saving) /\ step' = After(saving, step, slot)
      BY <1>1 DEF IndInv, WorkOK, Done, TypeOK
<1>3. step' \in StepsOf(saving)
      BY <1>1, <1>2, Order DEF IndInv
<1>4. WorkOK'
      BY <1>2, <1>3 DEF IndInv, WorkOK, Done
<1>5. LoadedOK'
      BY <1>2, Apart DEF IndInv, LoadedOK, Done
<1>6. ASSUME UNCHANGED <<runFiles, offer>>, step # "clearRun" PROVE RunOK'
      <2>1. saving = "pcsx" /\ step' \notin {"dropPicture", "picture", "end"} =>
               step \notin {"dropPicture", "picture", "end"}
            BY <1>1, <1>2, Order DEF IndInv
      <2> QED BY <1>2, <1>6, <2>1 DEF IndInv, RunOK, Done, runFiles
<1> QED BY <1>2, <1>3, <1>4, <1>5, <1>6

LEMMA WhichSave ==
    ASSUME step \in StepsOf(saving), saving \in {"pcsx", "ps1ra", "ra", "removal"}
    PROVE  /\ step \in {"dropState", "copyState"} => saving = "pcsx"
           /\ step = "replaceState" => saving \in {"ps1ra", "ra"}
           /\ step = "marker" => saving = "ps1ra"
           /\ step = "keptName" => saving \in {"pcsx", "ra"}
           /\ step \in OldSteps => saving # "ra"
           /\ saving = "removal" => step \in {"dropOldState", "dropOldPicture", "dropMarker", "end"}
           /\ saving = "pcsx" => step \notin {"replaceState", "marker"}
BY DEF StepsOf, OldSteps

(* The name a save writes under.                                           *)
LEMMA NameWritten ==
    ASSUME IndInv, step \in StepsOf(saving), saving \in {"pcsx", "ps1ra", "ra", "removal"}, slot \in Slots
    PROVE  /\ step \in {"dropOldState", "dropOldPicture"} => NameNow = NameOf(slot) /\ NameNow \in Names
           /\ step \in {"dropState", "copyState", "keptName", "slotName"} /\ saving = "pcsx" =>
                 NameNow = freshName /\ freshName \in discs /\ freshName \in Names /\ freshState \in States
                 /\ freshState.by = Pcsx
           /\ step \notin {"dropOldState", "dropOldPicture"} /\ saving # "pcsx" => NameNow = RaName
           /\ RaName \in Names /\ discs \subseteq Discs /\ Discs \subseteq Names
<1>1. TypeOK /\ RunOK /\ WorkOK /\ RemovedSoFar
      BY DEF IndInv, Written
<1>2. step \in {"dropOldState", "dropOldPicture"} => NameNow = NameOf(slot) /\ NameNow \in Names
      BY <1>1, Names0 DEF NameNow, Old, RemovedSoFar, OldSteps
<1>3. step \in {"dropState", "copyState", "keptName", "slotName"} /\ saving = "pcsx" =>
         NameNow = freshName /\ freshName \in discs /\ freshState \in States /\ freshState.by = Pcsx
      BY <1>1 DEF NameNow, Old, RunOK
<1> QED BY <1>1, <1>2, <1>3 DEF NameNow, Old, Names, TypeOK

LEMMA StateWritten ==
    ASSUME IndInv, WriteState
    PROVE  IndInv'
<1>1. /\ TypeOK /\ Done /\ step \in {"dropOldState", "dropState", "copyState", "replaceState"}
      /\ UNCHANGED <<picture, keptName, slotName, marker, runFiles, offer, history, runs, removed, cuts>>
      BY DEF IndInv, WriteState, Doing
<1>2. PICK c : /\ c \in IF step = "copyState" THEN {freshState} \cup (IF full < MaxFull THEN {Torn} ELSE {})
                        ELSE IF step = "replaceState" THEN {raState} ELSE {None}
               /\ kept' = [kept EXCEPT ![NameNow] = [@ EXCEPT ![slot] = c]]
               /\ full' = IF step = "copyState" /\ c = Torn THEN full + 1 ELSE full
      BY DEF WriteState
<1>3. /\ slot \in Slots /\ emulator = None /\ saving \in {"pcsx", "ps1ra", "ra", "removal"}
      /\ slot' = slot /\ saving' = saving /\ kind' = kind /\ discs' = discs
      /\ step \in StepsOf(saving) /\ step' \in StepsOf(saving)
      /\ WorkOK' /\ LoadedOK' /\ RunOK'
      BY <1>1, AnyWrite
<1>4. PICK m \in Names : m = NameNow
      BY <1>1, <1>3, NameWritten, WhichSave DEF OldSteps
<1>5. /\ step = "dropOldState" => m = NameOf(slot) /\ c = None
      /\ step = "dropState" => saving = "pcsx" /\ m = freshName /\ c = None
      /\ step = "copyState" => saving = "pcsx" /\ m = freshName /\ c \in {freshState, Torn}
      /\ step = "replaceState" => saving \in {"ps1ra", "ra"} /\ m = RaName /\ c = raState /\ raState \in States
      /\ saving = "pcsx" /\ step # "dropOldState" => freshName \in discs /\ freshState \in States /\ freshState.by = Pcsx
      /\ discs \subseteq Discs /\ Discs \subseteq Names /\ RaName \in Names
      BY <1>1, <1>2, <1>3, <1>4, NameWritten, WhichSave DEF IndInv, RunOK
<1>6. c \in Content
      BY <1>1, <1>5 DEF Content
<1>7. /\ kept' \in [Names -> [Slots -> Content]] /\ kept'[m][slot] = c
      /\ \A n \in Names, t \in Slots : n # m \/ t # slot => kept'[n][t] = kept[n][t]
      <2>1. kept \in [Names -> [Slots -> Content]]
            BY <1>1 DEF TypeOK
      <2> HIDE DEF Names, Content
      <2> QED BY <1>2, <1>3, <1>4, <1>6, <2>1, OneWritten
<1>8. /\ step = "dropOldState" => step' = "dropOldPicture"
      /\ step = "dropState" => step' = "copyState"
      /\ step = "copyState" => step' = "keptName"
      /\ step = "replaceState" => step' = "dropPicture"
      BY <1>1, <1>3, Order DEF Done, IndInv
<1>9. TypeOK'
      <2>1. full' \in 0 .. MaxFull
            BY <1>1, <1>2, <1>5, ResumePointsAssumption DEF TypeOK
      <2> QED BY <1>1, <1>3, <1>7, <1>8, <2>1 DEF TypeOK, runFiles, history, Done
<1>10. KeptNameOK'
      BY <1>1, <1>3 DEF IndInv, SlotsOK, KeptNameOK
<1>11. ASSUME NEW t \in Slots, t # slot PROVE SlotOK(t)'
      <2>1. \A n \in Names : kept'[n][t] = kept[n][t] /\ picture'[n][t] = picture[n][t]
            BY <1>1, <1>7, <1>11
      <2> QED BY <1>1, <1>3, <1>11, <2>1, Untouched DEF IndInv, SlotsOK, history
<1>12. SlotOK(slot) /\ kind' = kind /\ NameOf(slot)' = NameOf(slot)
      BY <1>1, <1>3 DEF IndInv, SlotsOK, NameOf
<1>13. ASSUME kind # Ps1 PROVE RaSlot(slot)'
      <2>1. RaSlot(slot) /\ keptName \in {RaName, None} /\ saving \in {"ra", "removal"}
            BY <1>3, <1>12, <1>13 DEF IndInv, SlotsOK, KeptNameOK, SlotOK, WorkOK
      <2>2. m = RaName
            BY <1>1, <1>5, <2>1, <1>4, Apart DEF NameOf, RaSlot, Names
      <2>3. \A n \in Discs : kept'[n][slot] = None
            BY <1>3, <1>5, <1>7, <2>1, <2>2, Apart DEF RaSlot
      <2>4. CASE step = "replaceState"
            <3>1. raState.by = kind /\ raState.n \in due[slot]
                  BY <1>3, <1>5, <1>13, <2>1, <2>4, Apart DEF IndInv, RunOK, Written, RaSoFar
            <3> QED BY <1>1, <1>3, <1>5, <1>7, <1>12, <2>1, <2>2, <2>3, <2>4, <3>1 DEF RaSlot, Of, history
      <2>5. CASE step # "replaceState"
            <3>1. c = None /\ saving = "removal" /\ slot \notin whole
                  BY <1>1, <1>3, <1>5, <2>1, <2>5, WhichSave DEF IndInv, Written, RemovedSoFar, OldSteps
            <3> QED BY <1>1, <1>3, <1>5, <1>7, <1>12, <2>1, <2>2, <2>3, <2>5, <3>1, Apart DEF RaSlot, Of, history
      <2> QED BY <2>4, <2>5
<1>14. ASSUME kind = Ps1 PROVE Ps1Slot(slot)'
      <2>1. Ps1Slot(slot) /\ keptName \in discs \cup {None} /\ slot \notin whole
            BY <1>3, <1>12, <1>14 DEF IndInv, SlotsOK, KeptNameOK, SlotOK, Ps1Slot
      <2>2. ~Marking
            BY <1>1 DEF Marking
      <2>3. CASE c = None
            <3>1. \A n \in Names : kept'[n][slot] \in {kept[n][slot], None}
                  BY <1>3, <1>7, <2>3
            <3> QED BY <1>1, <1>3, <1>5, <2>1, <2>2, <3>1, Apart DEF Ps1Slot, Of, history
      <2>4. CASE step = "copyState"
            <3>1. freshState.n \in due[slot]
                  BY <1>3, <1>5, <2>4 DEF IndInv, Written, PcsxSoFar
            <3>2. \A n \in Names : n # m => kept'[n][slot] = kept[n][slot]
                  BY <1>3, <1>7
            <3> QED BY <1>1, <1>3, <1>5, <1>7, <2>1, <2>2, <2>4, <3>1, <3>2, Apart DEF Ps1Slot, Of, history
      <2>5. CASE step = "replaceState"
            <3>1. raState.n \in due[slot] /\ saving = "ps1ra" /\ marker[slot] = None /\ raState.by \in Cores
                  BY <1>3, <1>5, <1>14, <2>5, Apart DEF IndInv, Written, RaSoFar, RunOK, WorkOK, OldSteps
            <3>2. \A n \in Names : n # m => kept'[n][slot] = kept[n][slot]
                  BY <1>3, <1>7
            <3>3. Marking'
                  BY <1>3, <1>8, <2>5, <3>1 DEF Marking
            <3> QED BY <1>1, <1>3, <1>5, <1>7, <2>1, <2>2, <2>5, <3>1, <3>2, <3>3, Apart DEF Ps1Slot, Of, history
      <2> QED BY <1>1, <1>5, <2>3, <2>4, <2>5
<1>15. SlotsOK'
      BY <1>3, <1>10, <1>11, <1>12, <1>13, <1>14 DEF SlotsOK, SlotOK
<1>16. NameOf(slot)' = NameOf(slot) /\ NameOf(slot) \in Names \cup {None}
      BY <1>1, <1>3, Names0 DEF IndInv, NameOf
<1>17. RemovedSoFar'
      BY <1>1, <1>3, <1>5, <1>7, <1>8, <1>16, WhichSave DEF IndInv, Written, RemovedSoFar, OldSteps, history
<1>18. PcsxSoFar'
      BY <1>1, <1>3, <1>5, <1>7, <1>8, WhichSave DEF IndInv, Written, PcsxSoFar, OldSteps, history, runFiles
<1>19. RaSoFar'
      BY <1>1, <1>3, <1>5, <1>7, <1>8, WhichSave DEF IndInv, Written, RaSoFar, OldSteps, history, runFiles
<1> QED BY <1>3, <1>9, <1>15, <1>17, <1>18, <1>19 DEF IndInv, Written

LEMMA PictureWritten ==
    ASSUME IndInv, WritePicture
    PROVE  IndInv'
<1>1. /\ TypeOK /\ Done /\ step \in {"dropOldPicture", "dropPicture", "picture"}
      /\ picture' = [picture EXCEPT ![PictureName] = [@ EXCEPT ![slot] = (step = "picture")]]
      /\ UNCHANGED <<kept, keptName, slotName, marker, runFiles, offer, history, bounds>>
      BY DEF IndInv, WritePicture, Doing
<1>2. /\ slot \in Slots /\ emulator = None /\ saving \in {"pcsx", "ps1ra", "ra", "removal"}
      /\ slot' = slot /\ saving' = saving /\ kind' = kind /\ discs' = discs
      /\ step \in StepsOf(saving) /\ step' \in StepsOf(saving)
      /\ WorkOK' /\ LoadedOK' /\ RunOK'
      BY <1>1, AnyWrite
<1>3. NameOf(slot)' = NameOf(slot) /\ NameOf(slot) \in Names \cup {None} /\ KeptNameOK
      BY <1>1, <1>2, Names0 DEF IndInv, NameOf, SlotsOK
<1>4. /\ discs \subseteq Discs /\ Discs \subseteq Names /\ RaName \in Names
      /\ step = "dropOldPicture" => PictureName = NameOf(slot) /\ NameOf(slot) \in Names
      /\ step # "dropOldPicture" /\ saving = "pcsx" =>
            PictureName = NameOf(slot) /\ NameOf(slot) \in discs /\ slotName[slot] = NameOf(slot)
      /\ step # "dropOldPicture" /\ saving # "pcsx" => PictureName = RaName
      <2>1. discs \subseteq Discs /\ Discs \subseteq Names /\ RaName \in Names
            BY <1>1 DEF TypeOK, Names
      <2>2. step = "dropOldPicture" => PictureName = NameOf(slot) /\ NameOf(slot) \in Names
            BY <1>1, <1>2, <1>3 DEF PictureName, Old, IndInv, Written, RemovedSoFar, OldSteps
      <2>3. step # "dropOldPicture" /\ saving = "pcsx" =>
               PictureName = NameOf(slot) /\ NameOf(slot) \in discs /\ slotName[slot] = NameOf(slot)
            BY <1>1, <2>1, Apart DEF PictureName, Old, IndInv, Written, PcsxSoFar, NameOf
      <2>4. step # "dropOldPicture" /\ saving # "pcsx" => PictureName = RaName
            BY <1>1 DEF PictureName, Old
      <2> QED BY <2>1, <2>2, <2>3, <2>4
<1>5. PICK m \in Names : m = PictureName
      BY <1>3, <1>4
<1>6. PICK c \in BOOLEAN : c = (step = "picture")
      OBVIOUS
<1>7. /\ picture' \in [Names -> [Slots -> BOOLEAN]] /\ picture'[m][slot] = c
      /\ \A n \in Names, t \in Slots : n # m \/ t # slot => picture'[n][t] = picture[n][t]
      <2>1. picture \in [Names -> [Slots -> BOOLEAN]]
            BY <1>1 DEF TypeOK
      <2>2. picture' = [picture EXCEPT ![m] = [@ EXCEPT ![slot] = c]]
            BY <1>1, <1>5, <1>6, Zenon
      <2> HIDE DEF Names
      <2> QED BY <1>2, <2>1, <2>2, OneWritten
<1>8. /\ step = "dropOldPicture" => step' = "dropMarker"
      /\ step = "dropPicture" => step' = "picture"
      /\ step = "picture" => step' = IF saving = "pcsx" THEN "end" ELSE IF saving = "ps1ra" THEN "slotName" ELSE "keptName"
      BY <1>1, <1>2, Order DEF Done, IndInv
<1>9. TypeOK'
      <2>1. step' \in {"dropMarker", "picture", "end", "slotName", "keptName"}
            BY <1>1, <1>8
      <2> QED BY <1>1, <1>2, <1>7, <2>1 DEF TypeOK, runFiles, history, bounds, Done
<1>10. KeptNameOK'
      BY <1>1, <1>2, <1>3 DEF KeptNameOK
<1>11. ASSUME NEW t \in Slots, t # slot PROVE SlotOK(t)'
      <2>1. \A n \in Names : kept'[n][t] = kept[n][t] /\ picture'[n][t] = picture[n][t]
            BY <1>1, <1>7, <1>11
      <2> QED BY <1>1, <1>2, <1>11, <2>1, Untouched DEF IndInv, SlotsOK, history
<1>12. ASSUME kind # Ps1 PROVE RaSlot(slot)'
      BY <1>1, <1>2, <1>3, <1>12 DEF IndInv, SlotsOK, SlotOK, RaSlot, Of, history
<1>13. ASSUME kind = Ps1 PROVE Ps1Slot(slot)'
      <2>1. Ps1Slot(slot) /\ slot \notin whole /\ saving # "ra"
            BY <1>2, <1>13 DEF IndInv, SlotsOK, SlotOK, Ps1Slot, WorkOK
      <2>2. Marking => Marking'
            BY <1>1, <1>2, <1>8 DEF Marking
      <2>3. \A n \in Discs : picture'[n][slot] /\ slotName[slot] = None => discs = {n}
            <3>1. CASE step = "picture" /\ saving = "pcsx"
                  BY <1>1, <1>4, <3>1, Apart
            <3>2. CASE step = "picture" /\ saving # "pcsx"
                  BY <1>1, <1>2, <1>4, <1>5, <1>7, <2>1, <3>2, Apart DEF Ps1Slot
            <3>3. CASE step # "picture"
                  <4>1. c = FALSE
                        BY <1>6, <3>3
                  <4>2. \A n \in Names : picture'[n][slot] => picture[n][slot]
                        BY <1>2, <1>7, <4>1
                  <4> QED BY <1>4, <2>1, <4>2 DEF Ps1Slot
            <3> QED BY <3>1, <3>2, <3>3
      <2> QED BY <1>1, <1>2, <2>1, <2>2, <2>3 DEF Ps1Slot, Of, history
<1>14. SlotsOK'
      BY <1>2, <1>10, <1>11, <1>12, <1>13 DEF SlotsOK, SlotOK
<1>15. RemovedSoFar'
      BY <1>1, <1>2, <1>3, <1>8, WhichSave DEF IndInv, Written, RemovedSoFar, OldSteps, history
<1>16. PcsxSoFar'
      <2>1. step' = "end" /\ saving = "pcsx" => picture'[slotName'[slot]][slot]
            <3> SUFFICES ASSUME step' = "end", saving = "pcsx" PROVE picture'[slotName'[slot]][slot]
                OBVIOUS
            <3>1. step = "picture"
                  BY <1>1, <1>8
            <3>2. c /\ m = slotName[slot] /\ slotName' = slotName
                  BY <1>1, <1>4, <1>5, <1>6, <3>1
            <3> QED BY <1>7, <3>2
      <2>2. saving = "pcsx" => /\ step' \in {"dropMarker", "picture", "end"}
                               /\ step' = "picture" \/ step' = "end" => step \notin OldSteps
            BY <1>1, <1>8 DEF OldSteps
      <2> QED BY <1>1, <1>2, <1>8, <2>1, <2>2 DEF IndInv, Written, PcsxSoFar, OldSteps, history, runFiles
<1>17. RaSoFar'
      BY <1>1, <1>2, <1>8 DEF IndInv, Written, RaSoFar, OldSteps, history, runFiles
<1> QED BY <1>2, <1>9, <1>14, <1>15, <1>16, <1>17 DEF IndInv, Written

LEMMA NameKept ==
    ASSUME IndInv, WriteName
    PROVE  IndInv'
<1>1. /\ TypeOK /\ Done /\ step \in {"keptName", "slotName"}
      /\ keptName' = IF step = "keptName" THEN NameNow ELSE keptName
      /\ slotName' = IF step = "slotName" THEN [slotName EXCEPT ![slot] = NameNow] ELSE slotName
      /\ UNCHANGED <<kept, picture, marker, runFiles, offer, history, bounds>>
      BY DEF IndInv, WriteName, Doing
<1>2. /\ slot \in Slots /\ emulator = None /\ saving \in {"pcsx", "ps1ra", "ra", "removal"}
      /\ slot' = slot /\ saving' = saving /\ kind' = kind /\ discs' = discs
      /\ step \in StepsOf(saving) /\ step' \in StepsOf(saving)
      /\ WorkOK' /\ LoadedOK' /\ RunOK'
      BY <1>1, AnyWrite
<1>3. saving \in {"pcsx", "ps1ra", "ra"} /\ (step = "keptName" => saving # "ps1ra")
      BY <1>1, <1>2, WhichSave
<1>4. PICK m \in Names : m = NameNow /\ IF saving = "pcsx" THEN m = freshName /\ freshName \in discs ELSE m = RaName
      BY <1>1, <1>2, <1>3, NameWritten
<1>5. /\ \A t \in Slots : t # slot => slotName'[t] = slotName[t]
      /\ slotName'[slot] = IF step = "slotName" THEN m ELSE slotName[slot]
      /\ slotName' \in [Slots -> Names \cup {None}] /\ keptName' \in Names \cup {None}
      /\ keptName' = IF step = "keptName" THEN m ELSE keptName
      BY <1>1, <1>2, <1>4 DEF TypeOK
<1>6. /\ step = "keptName" => step' = "slotName"
      /\ step = "slotName" => step' = IF saving = "ps1ra" THEN "marker" ELSE "clearRun"
      BY <1>1, <1>2, Order DEF Done, IndInv
<1>7. TypeOK'
      BY <1>1, <1>2, <1>5, <1>6 DEF TypeOK, runFiles, history, bounds, Done
<1>8. (saving \in {"pcsx", "ps1ra"} => kind = Ps1) /\ (saving = "ra" => kind # Ps1) /\ discs \subseteq Discs
      BY <1>1 DEF IndInv, WorkOK, TypeOK
<1>9. KeptNameOK' /\ (keptName' = keptName \/ (keptName' \in IF kind = Ps1 THEN discs ELSE {RaName}))
      BY <1>2, <1>3, <1>4, <1>5, <1>8 DEF IndInv, SlotsOK, KeptNameOK
<1>10. ASSUME NEW t \in Slots, t # slot PROVE SlotOK(t)'
      <2>1. \A n \in Names : kept'[n][t] = kept[n][t] /\ picture'[n][t] = picture[n][t]
            BY <1>1
      <2> QED BY <1>1, <1>2, <1>5, <1>9, <1>10, <2>1, Untouched DEF IndInv, SlotsOK, history
<1>11. ASSUME kind # Ps1 PROVE RaSlot(slot)'
      <2>1. RaSlot(slot) /\ m = RaName /\ keptName \in {None, RaName}
            BY <1>2, <1>3, <1>4, <1>8, <1>11 DEF IndInv, SlotsOK, SlotOK, KeptNameOK
      <2>2. NameOf(slot) = RaName => NameOf(slot)' = RaName
            BY <1>2, <1>5, <2>1, Apart DEF NameOf
      <2> QED BY <1>1, <1>2, <1>5, <2>1, <2>2 DEF RaSlot, Of, history
<1>12. ASSUME kind = Ps1 PROVE Ps1Slot(slot)'
      <2>1. Ps1Slot(slot) /\ slot \notin whole /\ saving \in {"pcsx", "ps1ra"}
            BY <1>2, <1>3, <1>8, <1>12 DEF IndInv, SlotsOK, SlotOK, Ps1Slot
      <2>2. Marking => Marking'
            BY <1>1, <1>2, <1>3, <1>6 DEF Marking
      <2>3. CASE step = "keptName"
            BY <1>1, <1>2, <1>5, <2>1, <2>2, <2>3 DEF Ps1Slot, Of, history
      <2>4. CASE step = "slotName" /\ saving = "pcsx"
            <3>1. /\ marker[slot] = None /\ freshState.n \in due[slot] /\ kept[freshName][slot] \in {freshState, Torn}
                  /\ slotName'[slot] = freshName /\ freshName \in discs /\ freshName # RaName
                  BY <1>1, <1>4, <1>5, <1>8, <2>4, Apart DEF IndInv, Written, PcsxSoFar, OldSteps
            <3>2. slotName'[slot] # None /\ freshName # None
                  BY <3>1, <1>8, Apart
            <3>3. kept[freshName][slot] \in States => kept[freshName][slot].n \in due[slot]
                  BY <3>1, Apart
            <3> QED BY <1>1, <1>2, <2>1, <2>2, <3>1, <3>2, <3>3 DEF Ps1Slot, Of, history
      <2>5. CASE step = "slotName" /\ saving = "ps1ra"
            <3>1. /\ marker[slot] = None /\ raState.n \in due[slot] /\ kept[RaName][slot] = raState
                  /\ slotName'[slot] = RaName
                  BY <1>1, <1>4, <1>5, <2>5 DEF IndInv, Written, RaSoFar, OldSteps
            <3> QED BY <1>1, <1>2, <1>8, <2>1, <2>2, <3>1, Apart DEF Ps1Slot, Of, history
      <2> QED BY <1>1, <2>1, <2>3, <2>4, <2>5
<1>13. SlotsOK'
      BY <1>2, <1>9, <1>10, <1>11, <1>12 DEF SlotsOK, SlotOK
<1>14. RemovedSoFar'
      BY <1>2, <1>3, <1>6, <1>1 DEF RemovedSoFar, OldSteps
<1>15. PcsxSoFar'
      BY <1>1, <1>2, <1>3, <1>4, <1>5, <1>6 DEF IndInv, Written, PcsxSoFar, OldSteps, history, runFiles
<1>16. RaSoFar'
      BY <1>1, <1>2, <1>3, <1>4, <1>5, <1>6 DEF IndInv, Written, RaSoFar, OldSteps, history, runFiles
<1> QED BY <1>2, <1>7, <1>13, <1>14, <1>15, <1>16 DEF IndInv, Written

LEMMA MarkerWritten ==
    ASSUME IndInv, WriteMarker
    PROVE  IndInv'
<1>1. /\ TypeOK /\ Done /\ step \in {"dropMarker", "marker"}
      /\ marker' = [marker EXCEPT ![slot] = IF step = "marker" THEN raState.by ELSE None]
      /\ UNCHANGED <<kept, picture, keptName, slotName, runFiles, offer, history, bounds>>
      BY DEF IndInv, WriteMarker, Doing
<1>2. /\ slot \in Slots /\ emulator = None /\ saving \in {"pcsx", "ps1ra", "ra", "removal"}
      /\ slot' = slot /\ saving' = saving /\ kind' = kind /\ discs' = discs
      /\ step \in StepsOf(saving) /\ step' \in StepsOf(saving)
      /\ WorkOK' /\ LoadedOK' /\ RunOK'
      BY <1>1, AnyWrite
<1>3. /\ saving # "ra" /\ (step = "marker" => saving = "ps1ra" /\ kind = Ps1)
      /\ saving = "ps1ra" => raState \in States /\ raState.by \in Cores
      BY <1>1, <1>2, WhichSave DEF OldSteps, IndInv, WorkOK, RunOK
<1>4. /\ \A t \in Slots : t # slot => marker'[t] = marker[t]
      /\ marker'[slot] = IF step = "marker" THEN raState.by ELSE None
      /\ marker' \in [Slots -> Cores \cup {None}]
      BY <1>1, <1>2, <1>3 DEF TypeOK
<1>5. /\ step = "dropMarker" =>
            step' = IF saving = "pcsx" THEN "dropState" ELSE IF saving = "ps1ra" THEN "replaceState" ELSE "end"
      /\ step = "marker" => step' = "clearRun"
      BY <1>1, <1>2, Order DEF Done, IndInv
<1>6. TypeOK'
      BY <1>1, <1>2, <1>4, <1>5 DEF TypeOK, runFiles, history, bounds, Done
<1>7. KeptNameOK'
      BY <1>1, <1>2 DEF IndInv, SlotsOK, KeptNameOK
<1>8. ASSUME NEW t \in Slots, t # slot PROVE SlotOK(t)'
      <2>1. \A n \in Names : kept'[n][t] = kept[n][t] /\ picture'[n][t] = picture[n][t]
            BY <1>1
      <2> QED BY <1>1, <1>2, <1>4, <1>8, <2>1, Untouched DEF IndInv, SlotsOK, history
<1>9. NameOf(slot)' = NameOf(slot)
      BY <1>1, <1>2 DEF NameOf
<1>10. ASSUME kind # Ps1 PROVE RaSlot(slot)'
      <2>1. RaSlot(slot) /\ marker'[slot] = None
            BY <1>1, <1>2, <1>3, <1>4, <1>10 DEF IndInv, SlotsOK, SlotOK
      <2> QED BY <1>1, <1>2, <1>9, <2>1 DEF RaSlot, Of, history
<1>11. ASSUME kind = Ps1 PROVE Ps1Slot(slot)'
      <2>1. Ps1Slot(slot) /\ slot \notin whole
            BY <1>2, <1>11 DEF IndInv, SlotsOK, SlotOK, Ps1Slot
      <2>2. CASE step = "dropMarker"
            <3>1. marker[slot] # None => kept[RaName][slot] = None
                  BY <1>1, <1>2, <2>1, <2>2, Apart DEF Ps1Slot, IndInv, Written, RemovedSoFar, NameOf
            <3>2. kept[RaName][slot] \in States => CutMarking
                  BY <2>1, <2>2, <3>1, Apart DEF Ps1Slot, Marking
            <3>3. marker'[slot] = None
                  BY <1>4, <2>2
            <3> QED BY <1>1, <1>2, <2>1, <3>2, <3>3 DEF Ps1Slot, Of, history
      <2>3. CASE step = "marker"
            <3>1. slotName[slot] = RaName /\ kept[RaName][slot] = raState /\ marker'[slot] = raState.by
                  BY <1>3, <1>4, <2>3 DEF IndInv, Written, RaSoFar
            <3>2. raState.by # None
                  BY <1>3, <2>3, Apart
            <3> QED BY <1>1, <1>2, <2>1, <3>1, <3>2 DEF Ps1Slot, Of, history
      <2> QED BY <1>1, <2>2, <2>3
<1>12. SlotsOK'
      BY <1>2, <1>7, <1>8, <1>10, <1>11 DEF SlotsOK, SlotOK
<1>13. RemovedSoFar'
      BY <1>1, <1>2, <1>3, <1>5, <1>9 DEF IndInv, Written, RemovedSoFar, OldSteps, history
<1>14. PcsxSoFar'
      BY <1>1, <1>2, <1>3, <1>4, <1>5 DEF IndInv, Written, PcsxSoFar, OldSteps, history, runFiles
<1>15. RaSoFar'
      <2>1. saving = "ps1ra" /\ step = "marker" => marker'[slot] # None /\ step' = "clearRun"
            BY <1>3, <1>4, <1>5, Apart
      <2> QED BY <1>1, <1>2, <1>3, <1>4, <1>5, <2>1 DEF IndInv, Written, RaSoFar, OldSteps, history, runFiles
<1> QED BY <1>2, <1>6, <1>12, <1>13, <1>14, <1>15 DEF IndInv, Written

LEMMA RunCleared ==
    ASSUME IndInv, ClearRun
    PROVE  IndInv'
<1>1. /\ TypeOK /\ Done /\ step = "clearRun" /\ offer' = "none"
      /\ IF offer = "pcsx" THEN freshName' = None /\ freshState' = None /\ UNCHANGED raState
                           ELSE raState' = None /\ UNCHANGED <<freshName, freshState>>
      /\ UNCHANGED <<slotFiles, exitDir, history, bounds>>
      BY DEF IndInv, ClearRun, Doing
<1>2. /\ slot \in Slots /\ emulator = None /\ saving \in {"pcsx", "ps1ra", "ra", "removal"}
      /\ slot' = slot /\ saving' = saving /\ kind' = kind /\ discs' = discs
      /\ step \in StepsOf(saving) /\ step' \in StepsOf(saving)
      /\ WorkOK' /\ LoadedOK' /\ emulator' = None
      BY <1>1, AnyWrite DEF Done
<1>3. step' = IF saving = "pcsx" THEN "dropPicture" ELSE "end"
      BY <1>1, <1>2, Order DEF Done, IndInv
<1>4. saving \in {"pcsx", "ps1ra", "ra"}
      BY <1>1, <1>2, WhichSave
<1>5. TypeOK'
      BY <1>1, <1>2, <1>3 DEF TypeOK, Content, slotFiles, history, bounds, Done
<1>6. RunOK'
      BY <1>1, <1>2, <1>3, Apart DEF IndInv, RunOK
<1>7. SlotsOK'
      <2>1. KeptNameOK'
            BY <1>1, <1>2 DEF IndInv, SlotsOK, KeptNameOK, slotFiles
      <2>2. ~Marking
            BY <1>1 DEF Marking
      <2>3. ASSUME NEW t \in Slots PROVE SlotOK(t)'
            <3>1. kind = Ps1 => slot' # t \/ t \notin whole'
                  BY <1>1, <1>2 DEF IndInv, SlotsOK, SlotOK, Ps1Slot, history
            <3> QED BY <1>1, <1>2, <2>2, <3>1, Untouched DEF IndInv, SlotsOK, slotFiles, history
      <2> QED BY <2>1, <2>3 DEF SlotsOK
<1>8. Written'
      <2>1. RemovedSoFar'
            BY <1>2, <1>3, <1>4 DEF RemovedSoFar, OldSteps
      <2>2. PcsxSoFar'
            BY <1>1, <1>2, <1>3 DEF IndInv, Written, PcsxSoFar, OldSteps, slotFiles
      <2>3. RaSoFar'
            BY <1>1, <1>2, <1>3 DEF IndInv, Written, RaSoFar, OldSteps, slotFiles
      <2> QED BY <2>1, <2>2, <2>3 DEF Written
<1> QED BY <1>2, <1>5, <1>6, <1>7, <1>8 DEF IndInv

LEMMA SaveEnds ==
    ASSUME IndInv, EndSave
    PROVE  IndInv'
<1> PICK kept0 \in BOOLEAN : kept0 = (saving # "removal" /\ StateOf(slot) \in States)
    OBVIOUS
<1>1. /\ TypeOK /\ step = "end"
      /\ due' = [due EXCEPT ![slot] = IF kept0 THEN {StateOf(slot).n} ELSE {}]
      /\ whole' = IF kept0 THEN whole \cup {slot} ELSE whole \ {slot}
      /\ saving' = "nothing" /\ slot' = -1 /\ step' = "rest"
      /\ UNCHANGED <<kind, discs, slotFiles, runFiles, session, bounds>>
      BY DEF IndInv, EndSave, Doing, AllDone
<1>2. /\ slot \in Slots /\ emulator = None /\ saving \in {"pcsx", "ps1ra", "ra", "removal"}
      /\ saving \in {"pcsx", "ps1ra"} => kind = Ps1
      /\ saving = "ra" => kind # Ps1
      BY <1>1, Names0 DEF IndInv, WorkOK, TypeOK
<1>3. kept0 => StateOf(slot) \in States /\ StateOf(slot).n \in 0 .. MaxRuns
      BY Apart
<1>4. /\ due' \in [Slots -> SUBSET (0 .. MaxRuns)]
      /\ due'[slot] = IF kept0 THEN {StateOf(slot).n} ELSE {}
      /\ \A t \in Slots : t # slot => due'[t] = due[t]
      /\ whole' \subseteq Slots
      BY <1>1, <1>2, <1>3 DEF TypeOK
<1>5. TypeOK'
      BY <1>1, <1>4 DEF TypeOK, slotFiles, runFiles, session, bounds
<1>6. WorkOK' /\ Written'
      BY <1>1 DEF WorkOK, StepsOf, Written, RemovedSoFar, PcsxSoFar, RaSoFar
<1>7. RunOK'
      BY <1>1 DEF IndInv, RunOK, runFiles, session
<1>8. LoadedOK'
      BY <1>1, <1>2, Apart DEF IndInv, LoadedOK, session
<1>9. KeptNameOK' /\ KeptNameOK
      BY <1>1 DEF IndInv, SlotsOK, KeptNameOK, slotFiles
<1>10. ~Marking
      BY <1>1 DEF Marking
<1>11. ASSUME NEW t \in Slots, t # slot PROVE SlotOK(t)'
      BY <1>1, <1>4, <1>9, <1>10, <1>11, Untouched DEF IndInv, SlotsOK, slotFiles
<1>12. /\ NameOf(slot) \in Names \cup {None} /\ discs \subseteq Discs /\ SlotOK(slot)
       /\ StateOf(slot) = IF NameOf(slot) = None THEN None ELSE kept[NameOf(slot)][slot]
       BY <1>1, <1>2, Names0 DEF IndInv, SlotsOK, StateOf, TypeOK
<1>13. PICK t \in Slots : t = slot
       BY <1>2
<1>14. PICK st : st = StateOf(slot)
       OBVIOUS
<1>15. /\ due'[t] = IF kept0 THEN {st.n} ELSE {}
       /\ t \in whole' => kept0
       /\ kept0 => st \in States /\ saving # "removal"
       /\ st \in States /\ saving # "removal" => kept0
       BY <1>1, <1>4, <1>13, <1>14
<1>16. NameOf(t)' = NameOf(t) /\ NameOf(t) = NameOf(slot)
       BY <1>1, <1>13 DEF NameOf, slotFiles
<1>17. kept' = kept /\ slotName' = slotName /\ marker' = marker /\ picture' = picture /\ kind' = kind /\ discs' = discs
       BY <1>1 DEF slotFiles
<1>18. ASSUME kind # Ps1 PROVE RaSlot(t)'
      <2>1. RaSlot(t) /\ keptName \in {RaName, None} /\ saving \in {"ra", "removal"}
            BY <1>2, <1>9, <1>12, <1>13, <1>18 DEF SlotOK, KeptNameOK
      <2>2. NameOf(t) = RaName
            <3>1. CASE saving = "ra"
                  BY <1>1, <1>13, <3>1, Apart DEF IndInv, Written, RaSoFar, NameOf
            <3>2. CASE saving = "removal"
                  <4>1. NameOf(t) # None
                        BY <1>1, <1>13, <3>2 DEF IndInv, Written, RemovedSoFar
                  <4> QED BY <2>1, <4>1 DEF RaSlot, NameOf
            <3> QED BY <2>1, <3>1, <3>2
      <2>3. st = kept[RaName][t]
            BY <1>12, <1>13, <1>14, <1>16, <2>2, Apart
      <2>4. saving = "removal" => kept[RaName][t] = None
            BY <1>1, <1>13, <1>16, <2>2 DEF IndInv, Written, RemovedSoFar
      <2>5. /\ kept[RaName][t] \in States => kept[RaName][t].n \in due'[t]
            /\ t \in whole' => kept[RaName][t] \in States
            BY <1>15, <2>3, <2>4, Apart
      <2> QED BY <1>16, <1>17, <2>1, <2>2, <2>5 DEF RaSlot, Of
<1>19. ASSUME kind = Ps1 PROVE Ps1Slot(t)'
      <2>1. Ps1Slot(t) /\ keptName \in discs \cup {None} /\ saving \in {"pcsx", "ps1ra", "removal"}
            BY <1>2, <1>9, <1>12, <1>13, <1>19 DEF SlotOK, KeptNameOK
      <2>2. marker[t] = None /\ kept[RaName][t] \in States => CutMarking
            BY <1>10, <2>1 DEF Ps1Slot
      <2>3. CASE saving = "removal"
            <3>1. /\ NameOf(t) # None /\ kept[NameOf(t)][t] = None
                  /\ slotName[t] = None => discs = {keptName}
                  BY <1>1, <1>13, <1>19, <2>3 DEF IndInv, Written, RemovedSoFar
            <3>2. slotName[t] # None => kept[slotName[t]][t] = None
                  BY <3>1 DEF NameOf
            <3>3. slotName[t] = None => kept[keptName][t] = None
                  BY <3>1 DEF NameOf
            <3>4. \A m \in Discs : slotName[t] \in {None, m} => kept[m][t] \notin States
                  BY <3>1, <3>2, <3>3, <2>1, Apart DEF Ps1Slot
            <3>5. slotName[t] = RaName => kept[RaName][t] \notin States
                  BY <3>2, Apart
            <3>6. t \notin whole'
                  BY <1>15, <2>3
            <3> QED BY <1>17, <2>1, <2>2, <3>4, <3>5, <3>6 DEF Ps1Slot, Of
      <2>4. CASE saving # "removal"
            <3>1. PICK m \in Names : m = slotName[t] /\ m \in discs \cup {RaName}
                  <4>1. slotName[t] # None
                        BY <1>1, <1>12, <1>13, <2>1, <2>4, Apart DEF IndInv, Written, PcsxSoFar, RaSoFar
                  <4> QED BY <4>1, <1>12, <2>1 DEF Ps1Slot, Names
            <3>2. m # None
                  BY <3>1, <1>12, Apart
            <3>3. st = kept[m][t] /\ NameOf(t) = m
                  BY <3>1, <3>2, <1>12, <1>13, <1>14 DEF NameOf
            <3>4. kept[m][t] \in States => kept[m][t].n \in due'[t]
                  BY <1>15, <2>4, <3>3
            <3>5. t \in whole' => slotIsActive(t)' /\ (StateOf(t) \in States)'
                  <4> SUFFICES ASSUME t \in whole' PROVE slotIsActive(t)' /\ (StateOf(t) \in States)'
                      OBVIOUS
                  <4>1. kept[m][t] \in States
                        BY <1>15, <3>3
                  <4>2. NameOf(t)' = m /\ (StateOf(t) \in States)' /\ StateOf(t)' # None
                        BY <1>16, <1>17, <3>2, <3>3, <4>1, Apart DEF StateOf
                  <4>3. CASE saving = "pcsx"
                        <5>1. marker[t] = None /\ picture[m][t]
                              BY <1>1, <1>13, <3>1, <4>3 DEF IndInv, Written, PcsxSoFar, OldSteps
                        <5> QED BY <1>17, <1>19, <3>2, <4>2, <5>1 DEF slotIsActive, slotIsRetroArch
                  <4>4. CASE saving = "ps1ra"
                        <5>1. marker[t] # None
                              BY <1>1, <1>13, <4>4 DEF IndInv, Written, RaSoFar, OldSteps
                        <5> QED BY <1>17, <1>19, <3>2, <4>2, <5>1 DEF slotIsActive, slotIsRetroArch
                  <4> QED BY <2>1, <2>4, <4>3, <4>4
            <3>6. saving' = "nothing"
                  BY <1>1
            <3> QED BY <1>17, <2>1, <2>2, <3>1, <3>2, <3>4, <3>5, <3>6 DEF Ps1Slot, Of
      <2> QED BY <2>3, <2>4
<1>20. SlotsOK'
      BY <1>9, <1>11, <1>13, <1>17, <1>18, <1>19 DEF SlotsOK, SlotOK
<1> QED BY <1>5, <1>6, <1>7, <1>8, <1>20 DEF IndInv

(* The power goes: in a run, after one, or between two writes, or in the   *)
(* middle of the copy of PCSX's state.                                     *)
LEMMA PowerGoes ==
    ASSUME IndInv, PowerCut
    PROVE  IndInv'
<1>1. /\ TypeOK /\ cuts < MaxCuts /\ cuts' = cuts + 1 /\ (Marking => CutMarking)
      /\ saving' = "nothing" /\ slot' = -1 /\ step' = "rest"
      /\ emulator' = None /\ resumed' = -1 /\ loaded' = None /\ offer' = "none"
      /\ IF exitDir THEN freshName' = None /\ freshState' = None ELSE UNCHANGED <<freshName, freshState>>
      /\ UNCHANGED <<kind, discs, picture, keptName, slotName, marker, exitDir, raState, history, runs, removed, full>>
      /\ \/ kept' = kept
         \/ step = "copyState" /\ kept' = [kept EXCEPT ![NameNow] = [@ EXCEPT ![slot] = Torn]]
      BY DEF IndInv, PowerCut, Doing, AllDone
<1>2. WorkOK' /\ Written' /\ LoadedOK'
      BY <1>1, Apart DEF WorkOK, StepsOf, Written, RemovedSoFar, PcsxSoFar, RaSoFar, LoadedOK
<1>3. RunOK'
      BY <1>1, Apart DEF IndInv, RunOK
<1>4. cuts' \in 0 .. MaxCuts
      BY <1>1, ResumePointsAssumption DEF TypeOK
<1>5. KeptNameOK'
      BY <1>1 DEF IndInv, SlotsOK, KeptNameOK
<1>6. CASE kept' = kept
      <2>1. TypeOK'
            BY <1>1, <1>4, <1>6 DEF TypeOK, Content, history
      <2>2. ASSUME NEW t \in Slots PROVE SlotOK(t)'
            <3>1. kind = Ps1 /\ Marking /\ slot = t => CutMarking
                  BY <1>1
            <3> QED BY <1>1, <1>6, <3>1, Untouched DEF IndInv, SlotsOK, history
      <2> QED BY <1>2, <1>3, <1>5, <2>1, <2>2 DEF IndInv, SlotsOK
<1>7. CASE step = "copyState" /\ kept' = [kept EXCEPT ![NameNow] = [@ EXCEPT ![slot] = Torn]]
      <2>1. saving \in {"pcsx", "ps1ra", "ra", "removal"} /\ slot \in Slots /\ step \in StepsOf(saving)
            BY <1>1, <1>7, Names0 DEF IndInv, WorkOK, TypeOK
      <2>2. saving = "pcsx" /\ kind = Ps1
            BY <1>7, <2>1, WhichSave DEF IndInv, WorkOK
      <2>3. PICK m \in Names : m = NameNow /\ m \in discs
            BY <1>7, <2>1, <2>2, NameWritten
      <2>4. /\ kept' \in [Names -> [Slots -> Content]] /\ kept'[m][slot] = Torn
            /\ \A n \in Names, t \in Slots : n # m \/ t # slot => kept'[n][t] = kept[n][t]
            <3>1. kept \in [Names -> [Slots -> Content]] /\ Torn \in Content
                  BY <1>1 DEF TypeOK, Content
            <3> HIDE DEF Names, Content
            <3> QED BY <1>7, <2>1, <2>3, <3>1, OneWritten
      <2>5. TypeOK'
            BY <1>1, <1>4, <2>4 DEF TypeOK, Content, history
      <2>6. ~Marking
            BY <1>7 DEF Marking
      <2>7. ASSUME NEW t \in Slots, t # slot PROVE SlotOK(t)'
            <3>1. \A n \in Names : kept'[n][t] = kept[n][t] /\ picture'[n][t] = picture[n][t]
                  BY <1>1, <2>4, <2>7
            <3> QED BY <1>1, <2>6, <2>7, <3>1, Untouched DEF IndInv, SlotsOK, history
      <2>8. ASSUME NEW t \in Slots, t = slot PROVE Ps1Slot(t)'
            <3>1. Ps1Slot(t) /\ t \notin whole
                  BY <2>2, <2>8 DEF IndInv, SlotsOK, SlotOK, Ps1Slot
            <3>2. \A n \in Names : kept'[n][t] = IF n = m THEN Torn ELSE kept[n][t]
                  BY <2>4, <2>8
            <3>3. discs \subseteq Discs /\ Discs \subseteq Names /\ RaName \in Names /\ m # RaName
                  BY <1>1, <2>3, Apart DEF TypeOK, Names
            <3>4. kept'[RaName][t] = kept[RaName][t]
                  BY <3>2, <3>3
            <3>5. \A n \in Discs : /\ kept'[n][t] \in States => kept[n][t] \in States /\ kept'[n][t] = kept[n][t]
                                   /\ n \notin discs => kept'[n][t] = kept[n][t]
                  BY <2>3, <3>2, <3>3, Apart
            <3> QED BY <1>1, <2>6, <3>1, <3>4, <3>5 DEF Ps1Slot, Of, history
      <2>9. SlotsOK'
            BY <1>1, <1>5, <2>2, <2>7, <2>8 DEF SlotsOK, SlotOK
      <2> QED BY <1>2, <1>3, <2>5, <2>9 DEF IndInv
<1> QED BY <1>1, <1>6, <1>7

-----------------------------------------------------------------------------
(* The invariant holds.                                                    *)

LEMMA Starts ==
    ASSUME Init
    PROVE  IndInv
<1>1. PICK legacy \in SUBSET Slots, disc \in Discs :
         /\ legacy # {} => kind = Ps1
         /\ discs = IF legacy = {} THEN Discs ELSE {disc}
         /\ kept = [m \in Names |-> [s \in Slots |->
                       IF m = disc /\ s \in legacy THEN State(Pcsx, 0) ELSE None]]
         /\ picture = [m \in Names |-> [s \in Slots |-> m = disc /\ s \in legacy]]
         /\ keptName = IF legacy = {} THEN None ELSE disc
         /\ whole = legacy
         /\ due = [s \in Slots |-> IF s \in legacy THEN {0} ELSE {}]
      BY DEF Init
<1>2. /\ kind \in {Ps1} \cup Cores
      /\ slotName = [s \in Slots |-> None] /\ marker = slotName
      /\ freshName = None /\ freshState = None /\ exitDir = FALSE /\ raState = None
      /\ emulator = None /\ resumed = -1 /\ loaded = None /\ offer = "none"
      /\ saving = "nothing" /\ slot = -1 /\ step = "rest"
      /\ runs = 0 /\ removed = 0 /\ cuts = 0 /\ full = 0
      BY DEF Init
<1>3. State(Pcsx, 0) \in States /\ State(Pcsx, 0).by = Pcsx /\ State(Pcsx, 0).n = 0
      BY ResumePointsAssumption DEF State, States
<1>4. PICK st : st = State(Pcsx, 0)
      OBVIOUS
<1>5. kept \in [Names -> [Slots -> Content]] /\ picture \in [Names -> [Slots -> BOOLEAN]]
      <2>1. kept \in [Names -> [Slots -> Content]]
            BY <1>1, <1>3, <1>4 DEF Content
      <2>2. \A m \in Names, s \in Slots : (m = disc /\ s \in legacy) \in BOOLEAN
            OBVIOUS
      <2>3. picture \in [Names -> [Slots -> BOOLEAN]]
            BY <1>1, <2>2, Zenon
      <2> QED BY <2>1, <2>3
<1>6. due \in [Slots -> SUBSET (0 .. MaxRuns)]
      BY <1>1, ResumePointsAssumption
<1>7. TypeOK
      <2>1. /\ discs \subseteq Discs /\ keptName \in Names \cup {None} /\ whole \subseteq Slots
            /\ slotName \in [Slots -> Names \cup {None}] /\ marker \in [Slots -> Cores \cup {None}]
            BY <1>1, <1>2 DEF Names
      <2>2. /\ runs \in 0 .. MaxRuns /\ removed \in 0 .. MaxRemoved /\ cuts \in 0 .. MaxCuts
            /\ full \in 0 .. MaxFull
            BY <1>2, ResumePointsAssumption
      <2> QED BY <1>2, <1>5, <1>6, <2>1, <2>2 DEF TypeOK, Content
<1>8. WorkOK /\ Written
      BY <1>2 DEF WorkOK, StepsOf, Written, RemovedSoFar, PcsxSoFar, RaSoFar
<1>9. RunOK /\ LoadedOK
      BY <1>2, Apart DEF RunOK, LoadedOK
<1>10. KeptNameOK
      BY <1>1, <1>2, Apart DEF KeptNameOK
<1>11. ASSUME NEW t \in Slots PROVE SlotOK(t)
      <2>1. /\ slotName[t] = None /\ marker[t] = None /\ NameOf(t) = keptName
            /\ RaName \in Names /\ Discs \subseteq Names
            BY <1>2 DEF NameOf, Names
      <2>2. /\ \A m \in Discs : /\ kept[m][t] = IF m = disc /\ t \in legacy THEN st ELSE None
                                /\ picture[m][t] <=> m = disc /\ t \in legacy
            /\ kept[RaName][t] = None
            BY <1>1, <1>4, <2>1, Apart
      <2>3. due[t] = IF t \in legacy THEN {0} ELSE {}
            BY <1>1
      <2>4. ASSUME t \in legacy PROVE discs = {disc} /\ keptName = disc /\ kind = Ps1
            BY <1>1, <2>4
      <2>5. CASE kind # Ps1
            BY <1>1, <2>1, <2>2, <2>4, <2>5, Apart DEF SlotOK, RaSlot, Of
      <2>6. CASE kind = Ps1
            <3>1. ASSUME t \in whole PROVE slotIsActive(t) /\ StateOf(t) \in States
                  <4>1. t \in legacy /\ keptName = disc /\ disc # None
                        BY <1>1, <2>4, <3>1, Apart
                  <4>2. StateOf(t) = st /\ picture[disc][t]
                        BY <2>1, <2>2, <4>1 DEF StateOf
                  <4> QED BY <1>3, <1>4, <2>1, <2>6, <4>1, <4>2 DEF slotIsActive, slotIsRetroArch
            <3>2. \A m \in Discs : /\ kept[m][t] \in States => kept[m][t].by = Pcsx /\ kept[m][t].n \in due[t]
                                   /\ m \notin discs => kept[m][t] = None
                                   /\ picture[m][t] => discs = {m}
                  <4> TAKE m \in Discs
                  <4>1. CASE m = disc /\ t \in legacy
                        <5>1. kept[m][t] = st /\ discs = {m} /\ 0 \in due[t]
                              BY <2>2, <2>3, <2>4, <4>1
                        <5> QED BY <5>1, <1>3, <1>4
                  <4>2. CASE ~(m = disc /\ t \in legacy)
                        BY <2>2, <4>2, Apart
                  <4> QED BY <4>1, <4>2
            <3> QED BY <1>2, <2>1, <2>2, <2>6, <3>1, <3>2, Apart DEF SlotOK, Ps1Slot, Of
      <2> QED BY <2>5, <2>6
<1> QED BY <1>7, <1>8, <1>9, <1>10, <1>11 DEF IndInv, SlotsOK

LEMMA Holds == Spec => []IndInv
<1>1. Init => IndInv
      BY Starts
<1>2. IndInv /\ [Next]_vars => IndInv'
      <2> SUFFICES ASSUME IndInv, [Next]_vars PROVE IndInv'
          OBVIOUS
      <2>1. CASE UNCHANGED vars
            BY <2>1 DEF vars, slotFiles, runFiles, session, work, history, bounds, IndInv, TypeOK, WorkOK, RunOK,
                    LoadedOK, SlotsOK, KeptNameOK, SlotOK, RaSlot, Ps1Slot, Of, NameOf, StateOf, slotIsActive,
                    slotIsRetroArch, Marking, Written, RemovedSoFar, PcsxSoFar, RaSoFar
      <2>2. CASE Player
            BY <2>2, PcsxLaunch, RaLaunch, SaveBegins, RemovalBegins, NothingWritten DEF Player
      <2>3. CASE Writes
            BY <2>3, StateWritten, PictureWritten, NameKept, MarkerWritten, RunCleared, SaveEnds DEF Writes
      <2> QED BY <2>1, <2>2, <2>3, RunEnds, PowerGoes DEF Next
<1> QED BY <1>1, <1>2, PTL DEF Spec

(* Every state, name and marker on the stick is of its kind, and no count  *)
(* passes its bound.                                                       *)
THEOREM FilesAreOfTheirKind == Spec => []TypeOK
BY Holds, PTL DEF IndInv

(* A slot resumes the run kept in it last, not one it held before: whoever *)
(* ran, whatever was saved over what, and wherever the power went - be it  *)
(* between the two writes that mark a slot as RetroArch's.                 *)
THEOREM LastRunIsResumed == Spec => []ResumesWhatWasKept
<1>1. IndInv => ResumesWhatWasKept
      BY DEF IndInv, LoadedOK, ResumesWhatWasKept
<1> QED BY <1>1, Holds, PTL

(* A slot kept is there, with a whole state of the run it was kept from,   *)
(* until it is written again or removed (resume_point.cpp:514 and 548).    *)
THEOREM KeptSlotsAreThere == Spec => []SlotsAreKept
<1>1. IndInv => SlotsAreKept
      <2> SUFFICES ASSUME IndInv, AtRest, NEW s \in whole
                   PROVE  slotIsActive(s) /\ StateOf(s) \in States /\ StateOf(s).n \in due[s]
          BY DEF SlotsAreKept
      <2>1. s \in Slots /\ saving = "nothing" /\ SlotOK(s) /\ TypeOK
            BY Names0 DEF IndInv, TypeOK, SlotsOK
      <2>2. CASE kind = Ps1
            <3>1. slotIsActive(s) /\ StateOf(s) \in States
                  BY <2>1, <2>2 DEF SlotOK, Ps1Slot
            <3> QED BY <2>1, <2>2, <3>1, ResumedState
      <2>3. CASE kind # Ps1
            <3>1. kept[RaName][s] \in States /\ NameOf(s) = RaName
                  BY <2>1, <2>3 DEF SlotOK, RaSlot
            <3>2. StateOf(s) = kept[RaName][s]
                  BY <3>1, Apart DEF StateOf
            <3> QED BY <2>1, <2>3, <3>1, <3>2, ResumedState, Apart DEF slotIsActive, slotIsRetroArch
      <2> QED BY <2>2, <2>3
<1> QED BY <1>1, Holds, PTL

(* A state is given to the emulator that wrote it and to none other        *)
(* (resume_point.h:40-41), if the power does not go in the writes between  *)
(* a RetroArch state's arrival in a slot and the slot's marker.            *)
THEOREM ResumedByItsEmulator ==
    ASSUME ~CutMarking PROVE Spec => []ResumedWhereWritten
<1>1. IndInv => ResumedWhereWritten
      BY DEF IndInv, LoadedOK, ResumedWhereWritten
<1> QED BY <1>1, Holds, PTL

=============================================================================
