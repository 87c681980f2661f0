---------------------------- MODULE ResumePoints ----------------------------
(***************************************************************************)
(* ResumePointService: the numbered save-state slots of one game, kept     *)
(* from runs in PCSX and in RetroArch and resumed in either.               *)
(*                                                                         *)
(* A state names the emulator that wrote it and the run it was written in. *)
(* What the service writes outside a slot - the run's own files, cleared by*)
(* the next launch whatever became of them - is written in one step.  A    *)
(* slot is written file by file: `step` is the write a save or a removal is *)
(* at, and the power may go between any two, or in the middle of a state.  *)
(***************************************************************************)
EXTENDS Integers

CONSTANTS
    Slots,       \* the slots: 0 .. SlotCount - 1
    Discs,       \* the base names PCSX gives the game's states, one a disc
    RaName,      \* RetroArch's, after the content
    Pcsx,        \* PCSX
    Cores,       \* RetroArch's cores
    Ps1,         \* one of our PS1 games (a playlist entry is known by its core)
    Torn,        \* a file cut short
    None,        \* no such file
    CutMarking,  \* may the power go before a new RetroArch slot is marked?
    MaxRuns,     \* bound: launches
    MaxRemoved,  \* bound: slots removed by the player
    MaxCuts,     \* bound: power cuts
    MaxFull      \* bound: states a full stick does not take

Names == Discs \cup {RaName}
State(emulator, n) == [by |-> emulator, n |-> n]
States == [by : Cores \cup {Pcsx}, n : 0 .. MaxRuns]
Content == States \cup {Torn, None}

ASSUME ResumePointsAssumption ==
    /\ Slots \subseteq Nat
    /\ Discs # {} /\ RaName \notin Discs
    /\ Pcsx \notin Cores /\ Ps1 \notin Cores
    /\ Torn \notin States /\ None \notin States \cup {Torn} /\ None \notin Names \cup Cores \cup {Pcsx}
    /\ CutMarking \in BOOLEAN
    /\ {MaxRuns, MaxRemoved, MaxCuts, MaxFull} \subseteq Nat

VARIABLES
    kind,      \* Ps1, or the core of a playlist entry
    discs,     \* the discs the game is played with
    (* a slot's files *)
    kept,      \* sstates/<name>.00<n>.res
    picture,   \* screenshots/<name>[.<n>].png.res: is there one?
    keptName,  \* filename.txt.res, the name all slots share
    slotName,  \* filename.<n>.txt.res
    marker,    \* slot.<n>.ra: the core
    (* what a run leaves *)
    freshName, freshState,  \* filename.txt, sstates/<name>.000
    exitDir,   \* are the two in RAM ($AB_EXIT_DIR)?
    raState,   \* <content>.state.auto
    (* the launcher *)
    emulator,  \* the one that runs, None
    resumed,   \* the slot it resumed, -1
    loaded,    \* the state it was given
    offer,     \* the run's state the player may keep: "none", "pcsx" or "ra"
    saving,    \* what is written: "nothing", a "pcsx", "ps1ra" or "ra" save, a "removal"
    slot, step, \* the slot it is written in, and its next write
    (* history *)
    whole,     \* the slots that must be there to resume
    due,       \* per slot, the runs its state may be of
    (* bounds *)
    runs, removed, cuts, full

slotFiles == <<kept, picture, keptName, slotName, marker>>
runFiles  == <<freshName, freshState, exitDir, raState>>
session   == <<emulator, resumed, loaded, offer>>
work      == <<saving, slot, step>>
history   == <<whole, due>>
bounds    == <<runs, removed, cuts, full>>
vars == <<kind, discs, slotFiles, runFiles, session, work, history, bounds>>

-----------------------------------------------------------------------------
(* A slot, read *)

NameOf(s) == IF slotName[s] # None THEN slotName[s] ELSE keptName
StateOf(s) == IF NameOf(s) = None THEN None ELSE kept[NameOf(s)][s]

slotIsRetroArch(s) == kind # Ps1 \/ marker[s] # None

\* a RetroArch slot goes by its state alone: its picture may be missing
slotIsActive(s) ==
    /\ NameOf(s) # None
    /\ IF slotIsRetroArch(s) THEN StateOf(s) # None ELSE picture[NameOf(s)][s]

raStateWritten == raState # None
exitedCleanly == freshName # None

-----------------------------------------------------------------------------
(* A slot, written *)

\* The writes, each after the other.  Mutant: the state stays.
removeSlotX(w, s, next) ==
    CASE w = "begin"          -> IF NameOf(s) # None THEN "dropOldPicture" ELSE next
      [] w = "dropOldPicture" -> "dropMarker"
      [] w = "dropMarker"     -> next

removeSlot(w, s, next) ==
    CASE w = "begin"          -> IF NameOf(s) # None THEN "dropOldState" ELSE next
      [] w = "dropOldState"   -> "dropOldPicture"
      [] w = "dropOldPicture" -> "dropMarker"
      [] w = "dropMarker"     -> next

\* mutant: RetroArch's marker stays on the slot
savePcsxSlotX(w, s) ==
    CASE w = "begin"       -> "dropState"
      [] w = "dropState"   -> "copyState"
      [] w = "copyState"   -> "keptName"
      [] w = "keptName"    -> "slotName"
      [] w = "slotName"    -> "clearRun"
      [] w = "clearRun"    -> "dropPicture"
      [] w = "dropPicture" -> "picture"
      [] w = "picture"     -> "end"

\* saveAfterLaunch after PCSX, and storePictureForSlot
savePcsxSlot(w, s) ==
    CASE w = "begin" /\ ~slotIsRetroArch(s) -> "dropState"
      [] w = "dropState"   -> "copyState"
      [] w = "copyState"   -> "keptName"
      [] w = "keptName"    -> "slotName"
      [] w = "slotName"    -> "clearRun"
      [] w = "clearRun"    -> "dropPicture"
      [] w = "dropPicture" -> "picture"
      [] w = "picture"     -> "end"
      [] OTHER             -> removeSlot(w, s, "dropState")

\* mutant: the name is kept for all slots as well
savePs1RaSlotX(w, s) ==
    CASE w = "replaceState" -> "dropPicture"
      [] w = "dropPicture"  -> "picture"
      [] w = "picture"      -> "keptName"
      [] w = "keptName"     -> "slotName"
      [] w = "slotName"     -> "marker"
      [] w = "marker"       -> "clearRun"
      [] w = "clearRun"     -> "end"
      [] OTHER              -> removeSlot(w, s, "replaceState")

\* from the moment the state is copied beside the slot
savePs1RaSlot(w, s) ==
    CASE w = "replaceState" -> "dropPicture"
      [] w = "dropPicture"  -> "picture"
      [] w = "picture"      -> "slotName"
      [] w = "slotName"     -> "marker"
      [] w = "marker"       -> "clearRun"
      [] w = "clearRun"     -> "end"
      [] OTHER              -> removeSlot(w, s, "replaceState")

saveRaSlot(w) ==
    CASE w = "begin"        -> "replaceState"
      [] w = "replaceState" -> "dropPicture"
      [] w = "dropPicture"  -> "picture"
      [] w = "picture"      -> "keptName"
      [] w = "keptName"     -> "slotName"
      [] w = "slotName"     -> "clearRun"
      [] w = "clearRun"     -> "end"

After(what, w, s) ==
    CASE what = "pcsx"    -> savePcsxSlot(w, s)
      [] what = "ps1ra"   -> savePs1RaSlot(w, s)
      [] what = "ra"      -> saveRaSlot(w)
      [] what = "removal" -> removeSlot(w, s, "end")

-----------------------------------------------------------------------------
(* Older launchers left the shared filename file alone (`legacy` slots), of *)
(* a game of one disc.                                                      *)
Init ==
    /\ kind \in {Ps1} \cup Cores
    /\ \E legacy \in SUBSET Slots, disc \in Discs :
          /\ legacy # {} => kind = Ps1
          /\ discs = IF legacy = {} THEN Discs ELSE {disc}
          /\ kept = [m \in Names |-> [s \in Slots |->
                        IF m = disc /\ s \in legacy THEN State(Pcsx, 0) ELSE None]]
          /\ picture = [m \in Names |-> [s \in Slots |-> m = disc /\ s \in legacy]]
          /\ keptName = IF legacy = {} THEN None ELSE disc
          /\ whole = legacy
          /\ due = [s \in Slots |-> IF s \in legacy THEN {0} ELSE {}]
    /\ slotName = [s \in Slots |-> None] /\ marker = slotName
    /\ freshName = None /\ freshState = None /\ exitDir = FALSE /\ raState = None
    /\ emulator = None /\ resumed = -1 /\ loaded = None /\ offer = "none"
    /\ saving = "nothing" /\ slot = -1 /\ step = "rest"
    /\ runs = 0 /\ removed = 0 /\ cuts = 0 /\ full = 0

AtRest == step = "rest" /\ emulator = None

(* The launches: what the last run left is cleared, the slot given.         *)

\* discardRun
NothingFresh == freshName' = None /\ freshState' = None /\ raState' = None

Launch(e, s, state) ==
    /\ AtRest /\ runs < MaxRuns
    /\ runs' = runs + 1
    /\ emulator' = e /\ resumed' = s /\ loaded' = state /\ offer' = "none"
    /\ UNCHANGED <<kind, discs, slotFiles, work, history, removed, cuts, full>>

\* prepareForLaunch: PCSX is given no slot of RetroArch's
prepareForLaunch(s) ==
    /\ kind = Ps1
    /\ Launch(Pcsx, s, IF s = -1 \/ slotIsRetroArch(s) THEN None ELSE StateOf(s))
    /\ NothingFresh
    /\ exitDir' \in BOOLEAN

\* launchRetroArch: the game's core, but a marked slot's own; prepareRaLaunch
launchRetroArch(core, s) ==
    /\ kind # Ps1 => core = kind
    /\ LET e == IF s # -1 /\ kind = Ps1 /\ marker[s] # None THEN marker[s] ELSE core
           state == IF s = -1 \/ ~slotIsRetroArch(s) THEN None
                    ELSE IF kind = Ps1 THEN StateOf(s) ELSE kept[RaName][s]
       IN /\ Launch(e, s, state)
          /\ raState' = state   \* copied in for RetroArch to load
    /\ UNCHANGED <<freshName, freshState, exitDir>>

(* The run ends: the emulator writes its state on the way out, or is killed *)
(* and writes nothing.                                                      *)
EndRun ==
    /\ emulator # None
    /\ IF emulator = Pcsx
       THEN /\ \/ \E m \in discs : freshName' = m /\ freshState' = State(Pcsx, runs)
               \/ UNCHANGED <<freshName, freshState>>
            /\ offer' = IF exitedCleanly' THEN "pcsx" ELSE "none"
            /\ UNCHANGED raState
       ELSE /\ raState' \in {State(emulator, runs), raState}
            /\ offer' = IF raStateWritten' THEN "ra" ELSE "none"
            /\ UNCHANGED <<freshName, freshState>>
    /\ emulator' = None /\ resumed' = -1 /\ loaded' = None
    /\ UNCHANGED <<kind, discs, slotFiles, exitDir, work, history, bounds>>

(* The player keeps the run, or drops it. *)

\* the state a save in slot s is about to put there
Incoming == IF offer = "pcsx" THEN freshState ELSE raState

Begin(what, s) ==
    /\ AtRest
    /\ saving' = what /\ slot' = s /\ step' = After(what, "begin", s)
    /\ UNCHANGED <<kind, discs, slotFiles, runFiles, session>>

saveAfterLaunch(s) ==
    /\ offer # "none"
    /\ Begin(IF offer = "pcsx" THEN "pcsx" ELSE IF kind = Ps1 THEN "ps1ra" ELSE "ra", s)
    /\ due' = [due EXCEPT ![s] = @ \cup (IF Incoming \in States THEN {Incoming.n} ELSE {})]
    /\ whole' = IF kind = Ps1 THEN whole \ {s} ELSE whole
    /\ UNCHANGED bounds

\* the stick has no room for the copy beside the slot
RaSaveFails ==
    /\ AtRest /\ offer = "ra" /\ full < MaxFull
    /\ full' = full + 1
    /\ UNCHANGED <<kind, discs, slotFiles, runFiles, session, work, history, runs, removed, cuts>>

\* the screens remove a slot they show
RemoveSlot(s) ==
    /\ slotIsActive(s)
    /\ removed < MaxRemoved /\ removed' = removed + 1
    /\ Begin("removal", s)
    /\ whole' = whole \ {s}
    /\ UNCHANGED <<due, runs, cuts, full>>

discardRun ==
    /\ AtRest /\ offer # "none"
    /\ NothingFresh /\ offer' = "none"
    /\ UNCHANGED <<kind, discs, slotFiles, exitDir, emulator, resumed, loaded, work, history, bounds>>

-----------------------------------------------------------------------------
(* One write *)

Doing(writes) == step \in writes
Done == step' = After(saving, step, slot) /\ UNCHANGED <<kind, discs, emulator, resumed, loaded, saving, slot>>

\* the name the slot has; else the one it is to have
Old == step \in {"dropOldState", "dropOldPicture"}
NameNow == IF Old THEN NameOf(slot) ELSE IF saving = "pcsx" THEN freshName ELSE RaName
PictureName == IF Old \/ saving = "pcsx" THEN NameOf(slot) ELSE RaName

\* the first is a copy: the stick may be full
WriteState ==
    /\ Doing({"dropOldState", "dropState", "copyState", "replaceState"})
    /\ \E content \in IF step = "copyState" THEN {freshState} \cup (IF full < MaxFull THEN {Torn} ELSE {})
                      ELSE IF step = "replaceState" THEN {raState} ELSE {None} :
          /\ kept' = [kept EXCEPT ![NameNow] = [@ EXCEPT ![slot] = content]]
          /\ full' = IF step = "copyState" /\ content = Torn THEN full + 1 ELSE full
    /\ Done
    /\ UNCHANGED <<picture, keptName, slotName, marker, runFiles, offer, history, runs, removed, cuts>>

WritePicture ==
    /\ Doing({"dropOldPicture", "dropPicture", "picture"})
    /\ picture' = [picture EXCEPT ![PictureName] = [@ EXCEPT ![slot] = (step = "picture")]]
    /\ Done
    /\ UNCHANGED <<kept, keptName, slotName, marker, runFiles, offer, history, bounds>>

WriteName ==
    /\ Doing({"keptName", "slotName"})
    /\ keptName' = IF step = "keptName" THEN NameNow ELSE keptName
    /\ slotName' = IF step = "slotName" THEN [slotName EXCEPT ![slot] = NameNow] ELSE slotName
    /\ Done
    /\ UNCHANGED <<kept, picture, marker, runFiles, offer, history, bounds>>

\* the core noteRaCore was told: the one whose run this was
WriteMarker ==
    /\ Doing({"dropMarker", "marker"})
    /\ marker' = [marker EXCEPT ![slot] = IF step = "marker" THEN raState.by ELSE None]
    /\ Done
    /\ UNCHANGED <<kept, picture, keptName, slotName, runFiles, offer, history, bounds>>

ClearRun ==
    /\ Doing({"clearRun"})
    /\ IF offer = "pcsx" THEN freshName' = None /\ freshState' = None /\ UNCHANGED raState
                         ELSE raState' = None /\ UNCHANGED <<freshName, freshState>>
    /\ offer' = "none"
    /\ Done
    /\ UNCHANGED <<slotFiles, exitDir, history, bounds>>

AllDone == saving' = "nothing" /\ slot' = -1 /\ step' = "rest"

\* a slot written to its end holds its last save alone, if the stick took it
EndSave ==
    /\ Doing({"end"})
    /\ LET isKept == saving # "removal" /\ StateOf(slot) \in States
       IN /\ due' = [due EXCEPT ![slot] = IF isKept THEN {StateOf(slot).n} ELSE {}]
          /\ whole' = IF isKept THEN whole \cup {slot} ELSE whole \ {slot}
    /\ AllDone
    /\ UNCHANGED <<kind, discs, slotFiles, runFiles, session, bounds>>

\* a RetroArch state is in its slot and not yet marked as one
Marking == saving = "ps1ra" /\ step \in {"dropPicture", "picture", "slotName", "marker"}

PowerCut ==
    /\ cuts < MaxCuts /\ (Marking => CutMarking)
    /\ ~AtRest
    /\ cuts' = cuts + 1
    /\ kept' \in {kept} \cup (IF Doing({"copyState"})
                              THEN {[kept EXCEPT ![NameNow] = [@ EXCEPT ![slot] = Torn]]} ELSE {})
    /\ AllDone
    /\ emulator' = None /\ resumed' = -1 /\ loaded' = None /\ offer' = "none"
    /\ IF exitDir THEN freshName' = None /\ freshState' = None
                  ELSE UNCHANGED <<freshName, freshState>>
    /\ UNCHANGED <<kind, discs, picture, keptName, slotName, marker, exitDir, raState,
                   history, runs, removed, full>>

-----------------------------------------------------------------------------
Player ==
    \/ \E s \in Slots \cup {-1} :
          prepareForLaunch(s) \/ \E core \in Cores : launchRetroArch(core, s)
    \/ \E s \in Slots : saveAfterLaunch(s) \/ RemoveSlot(s)
    \/ RaSaveFails \/ discardRun

Writes == WriteState \/ WritePicture \/ WriteName \/ WriteMarker \/ ClearRun \/ EndSave

Next == Player \/ EndRun \/ Writes \/ PowerCut

Spec == Init /\ [][Next]_vars

-----------------------------------------------------------------------------
(* Properties *)

TypeOK ==
    /\ kind \in {Ps1} \cup Cores /\ discs \subseteq Discs
    /\ kept \in [Names -> [Slots -> Content]]
    /\ picture \in [Names -> [Slots -> BOOLEAN]]
    /\ keptName \in Names \cup {None} /\ slotName \in [Slots -> Names \cup {None}]
    /\ marker \in [Slots -> Cores \cup {None}]
    /\ freshName \in Discs \cup {None} /\ freshState \in Content
    /\ exitDir \in BOOLEAN /\ raState \in Content
    /\ emulator \in Cores \cup {Pcsx, None} /\ resumed \in Slots \cup {-1} /\ loaded \in Content
    /\ offer \in {"none", "pcsx", "ra"}
    /\ saving \in {"nothing", "pcsx", "ps1ra", "ra", "removal"} /\ slot \in Slots \cup {-1}
    /\ step \in {"rest", "dropOldState", "dropOldPicture", "dropMarker", "dropState", "copyState",
                "replaceState", "dropPicture", "picture", "keptName", "slotName", "marker", "clearRun",
                "end"}
    /\ whole \subseteq Slots /\ due \in [Slots -> SUBSET (0 .. MaxRuns)]
    /\ runs \in 0 .. MaxRuns /\ removed \in 0 .. MaxRemoved
    /\ cuts \in 0 .. MaxCuts /\ full \in 0 .. MaxFull

\* A state is given to the emulator that wrote it, and to none other: "resumed only in
\* RetroArch with that core - the two emulators' states are not interchangeable"
\* (resume_point.h:40-41), whatever was saved over what.
ResumedWhereWritten == loaded \in States => loaded.by = emulator

\* A slot resumes the run kept in it last: not one it held before, under another disc's
\* name, or in another emulator.
ResumesWhatWasKept == loaded \in States => loaded.n \in due[resumed]

\* A slot kept is there until it is written again or removed: no save of another slot, no
\* discardRun, no launch, no power cut meanwhile, no RetroArch save a full stick refused
\* costs it ("a full stick must not cost the slot it was meant to replace",
\* resume_point.cpp:514 and 548) - and for a playlist entry not even a save cut short.
SlotsAreKept ==
    AtRest => \A s \in whole :
        slotIsActive(s) /\ StateOf(s) \in States /\ StateOf(s).n \in due[s]
=============================================================================
