----------------------------- MODULE MemoryCards -----------------------------
(***************************************************************************)
(* MemcardService, MemcardManager and the memory-card half of              *)
(* LaunchService: the card sets several games share, copied into a game's  *)
(* save-state folder for a launch and back out after it, RetroArch's copy  *)
(* of card 1, the crash journal, and what a start makes of it.             *)
(*                                                                         *)
(* The power can go between any two file operations, and in the middle of  *)
(* a copy.  So every operation is an action, `step` names the one at hand, *)
(* and a function of the code is an operator that gives, of an operation it*)
(* performs, the one that follows: f(w, next), `next` what its caller does *)
(* after it, f("begin", next) its first.                                   *)
(***************************************************************************)
EXTENDS Naturals

CONSTANTS
    Games,       \* USB games, each with a save-state folder
    Sets,        \* names of card sets under Games/!MemCards
    FirstSets,   \* the sets there at first
    SONY,        \* MemcardService::SonyCard: the game's own cards, no set
    Blank,       \* what is on a card of a new set (the template)
    RaSave,      \* what RetroArch's own .srm of a game holds at first
    Torn,        \* a file the power went out on, or a copy of nothing
    None,        \* no such file; no save; no game, no set
    CutStages,   \* where the power may go
    MaxSaves,    \* bound: saves made in games
    MaxVisits,   \* bound: launches and visits of the memory-card screens
    MaxCuts      \* bound: power cuts

CardNames == {"card1", "card2"}      \* card1.mcd and card2.mcd
FileNames == CardNames \cup {"srm", "bak"}

MemcardsOf(g) == <<g, "memcards">> \* <save states>/<game>/memcards: what PCSX plays
BackupOf(g)   == <<g, "backup">>   \* the game's own cards while a set is in
RaSavesOf(g)  == <<g, "saves">>    \* the files <game>.srm and <game>.srm.bak of RetroArch
GameFolders == Games \X {"memcards", "backup", "saves"}
Folders == Sets \cup GameFolders

Content == Games \cup {Blank, RaSave, Torn} \cup 1 .. MaxSaves
Stages  == {"rest", "edit", "in", "play", "back", "restore"}
Loops   == {"backup", "copyIn", "copyOut", "copyOwn", "blank", "store"}
RmDirs  == {"clearIn", "clearOwn", "dropBackup", "rmSet"}
MkDirs  == {"mkBackup", "mkIn", "mkOwn", "mkSet"}
StepNames ==
    Loops \cup RmDirs \cup MkDirs
    \cup {"rest", "swapIn", "journal", "aside", "raCard", "note", "play", "srmOut", "dropSrm",
          "bakToSrm", "swapOut", "unJournal", "recover", "ini", "row", "renameDir", "repoint"}

ASSUME MemoryCardsAssumption ==
    /\ FirstSets \subseteq Sets
    /\ SONY \notin Folders /\ Sets \cap GameFolders = {}
    /\ None \notin Content \cup Folders \cup {SONY}
    /\ CutStages \subseteq Stages \ {"rest"}
    /\ {MaxSaves, MaxVisits, MaxCuts} \subseteq Nat

NoSaves == [n \in FileNames |-> None]
NoJournal == [game |-> None, set |-> None, srm |-> FALSE]
Journals == {NoJournal} \cup [game : Games, set : Sets \cup {None}, srm : BOOLEAN]

VARIABLES
    there,     \* the folders that exist
    disk,      \* what every file holds, None where there is none
    ini, row,  \* the set a game plays with: its Game.ini, its regional.db row
    journal,   \* <save states>/memcard-swap.txt
    stage,     \* how far a launch, or the recovery of one, has come
    step,      \* the operation at hand
    left,      \* the cards a loop of copies has before it
    game, set, \* what the visit is of: the game, the set (None: the game's own cards)
    name,      \* the name a set is to have
    how,       \* how the game is played, or that it is recovered
    (* history *)
    saved,     \* the save each card is to hold, by the folder it lives in
    damaged,   \* the games a power cut caught at their swap-in, the sets made of their cards
    (* bounds *)
    saves, visits, cuts

files   == <<there, disk>>
setOf   == <<ini, row>>
visit   == <<game, set, name, how>>
work    == <<stage, step, left, visit>>
history == <<saved, damaged>>
bounds  == <<saves, visits, cuts>>
vars == <<files, setOf, journal, work, history, bounds>>

-----------------------------------------------------------------------------
(* The orders of the code: what follows w *)

Memcards == MemcardsOf(game)
Backup   == BackupOf(game)
RaSaves  == RaSavesOf(game)

(* MemcardManager *)

backup(w, next) ==
    CASE w = "begin"    -> IF Backup \in there THEN next ELSE "mkBackup"
      [] w = "mkBackup" -> "backup"
      [] w = "backup"   -> next

\* mutant: the backup folder stays
restoreX(w, next) ==
    CASE w = "begin"    -> IF Backup \in there THEN "clearOwn" ELSE next
      [] w = "clearOwn" -> "mkOwn"
      [] w = "mkOwn"    -> "copyOwn"
      [] w = "copyOwn"  -> next

restore(w, next) ==
    CASE w = "begin"      -> IF Backup \in there THEN "clearOwn" ELSE next
      [] w = "clearOwn"   -> "mkOwn"
      [] w = "mkOwn"      -> "copyOwn"
      [] w = "copyOwn"    -> "dropBackup"
      [] w = "dropBackup" -> next

\* mutant: the game's own cards back first
swapOutX(w, s, next) ==
    CASE w = "copyOut" -> next
      [] OTHER         -> restore(w, IF s \in there THEN "copyOut" ELSE next)

swapOut(w, s, next) ==
    CASE w = "begin"   -> IF s \in there THEN "copyOut" ELSE restore("begin", next)
      [] w = "copyOut" -> restore("begin", next)
      [] OTHER         -> restore(w, next)

\* create, remove, storeToRepo, and rename: the folder, then every Game.ini that names
\* the old one; no row of regional.db
edit(w) ==
    CASE w = "mkSet"     -> IF game = None THEN "blank" ELSE "store"
      [] w = "renameDir" -> "repoint"
      [] w = "ini"       -> "row"
      [] OTHER           -> "rest"

(* MemcardService *)

\* with MemcardManager::swapIn; the set gone, setCardForGame
swapInForLaunch(w, next) ==
    LET swapIn == IF row[game] \in there THEN "clearIn" ELSE restore("begin", "ini") IN
    CASE w = "swapIn"               -> IF ini[game] = SONY THEN next ELSE backup("begin", swapIn)
      [] w \in {"mkBackup", "backup"} -> backup(w, swapIn)
      [] w = "clearIn"              -> "mkIn"
      [] w = "mkIn"                 -> "copyIn"
      [] w = "copyIn"               -> "journal"
      [] w = "ini"                  -> "row"
      [] w \in {"journal", "row"}   -> next
      [] OTHER                      -> restore(w, "ini")

\* the set a launch hands its cards back to, None for the game's own
SetNamed(g) == IF ini[g] = SONY THEN None ELSE row[g]

swapOutAfterLaunch(w) ==
    CASE w = "swapOut" -> IF SetNamed(game) = None THEN "unJournal"
                          ELSE swapOut("begin", SetNamed(game), "unJournal")
      [] w = "unJournal" -> "rest"
      [] OTHER           -> swapOut(w, set, "unJournal")

\* RetroArch's own .srm back in its place
PutBack == IF disk[RaSaves]["bak"] # None THEN "dropSrm" ELSE "swapOut"

\* mutant: RetroArch's own .srm stays aside
recoverAfterCrashX(w) ==
    CASE w = "recover" ->
             IF journal = NoJournal THEN "rest"
             ELSE IF journal.srm /\ disk[RaSavesOf(journal.game)]["srm"] # None THEN "srmOut" ELSE "swapOut"
      [] w = "srmOut"    -> "swapOut"
      [] w = "swapOut"   -> IF set = None THEN "unJournal" ELSE swapOut("begin", set, "unJournal")
      [] w = "unJournal" -> "rest"
      [] OTHER           -> swapOut(w, set, "unJournal")

recoverAfterCrash(w) ==
    CASE w = "recover" ->
             IF journal = NoJournal THEN "rest"
             ELSE IF journal.srm /\ disk[RaSavesOf(journal.game)]["srm"] # None THEN "srmOut" ELSE "swapOut"
      [] w = "srmOut"    -> PutBack
      [] w = "dropSrm"   -> "bakToSrm"
      [] w = "bakToSrm"  -> "swapOut"
      [] w = "swapOut"   -> IF set = None THEN "unJournal" ELSE swapOut("begin", set, "unJournal")
      [] w = "unJournal" -> "rest"
      [] OTHER           -> swapOut(w, set, "unJournal")

(* LaunchService *)

\* mutant: an .srm already there is kept
raMemcardInX(w) ==
    CASE w = "begin"  -> IF disk[RaSaves]["srm"] # None THEN "note" ELSE "raCard"
      [] w = "raCard" -> "note"
      [] w = "note"   -> "play"

raMemcardIn(w) ==
    CASE w = "begin"  -> IF disk[RaSaves]["bak"] = None /\ disk[RaSaves]["srm"] # None
                         THEN "aside" ELSE "raCard"
      [] w = "aside"  -> "raCard"
      [] w = "raCard" -> "note"
      [] w = "note"   -> "play"

raMemcardOut(w) ==
    CASE w = "begin"    -> IF disk[RaSaves]["srm"] # None THEN "srmOut" ELSE PutBack
      [] w = "srmOut"   -> PutBack
      [] w = "dropSrm"  -> "bakToSrm"
      [] w = "bakToSrm" -> "swapOut"
      [] OTHER          -> swapOutAfterLaunch(w)

\* launch: the cards in, the game, the cards out
After(w) ==
    CASE stage = "edit" -> edit(w)
      [] stage = "in" /\ w \in {"aside", "raCard", "note"} -> raMemcardIn(w)
      [] stage = "in" /\ w \notin {"aside", "raCard", "note"} ->
             swapInForLaunch(w, IF how = "ra" THEN raMemcardIn("begin") ELSE "play")
      [] stage = "play" -> IF how = "dir" THEN "rest"
                           ELSE IF how = "ra" THEN raMemcardOut("begin") ELSE "swapOut"
      [] stage \in {"back", "restore"} /\ how # "recover" -> raMemcardOut(w)
      [] stage \in {"back", "restore"} /\ how = "recover" -> recoverAfterCrash(w)

-----------------------------------------------------------------------------
Init ==
    /\ there = FirstSets \cup Games \X {"memcards", "saves"}
    /\ disk = [d \in Folders |-> [n \in FileNames |->
                  CASE d \in FirstSets /\ n \in CardNames -> Blank
                    [] d \in {MemcardsOf(g) : g \in Games} /\ n \in CardNames -> d[1]
                    [] d \in {RaSavesOf(g) : g \in Games} /\ n = "srm" -> RaSave
                    [] OTHER -> None]]
    /\ ini = [g \in Games |-> SONY] /\ row = ini
    /\ journal = NoJournal
    /\ stage = "rest" /\ step = "rest" /\ left = {}
    /\ game = None /\ set = None /\ name = None /\ how = "none"
    /\ saved = [d \in Folders |-> IF d \in Sets \cup Games \X {"memcards", "saves"} THEN disk[d] ELSE NoSaves]
    /\ damaged = {}
    /\ saves = 0 /\ visits = 0 /\ cuts = 0

(* A visit: the user launches a game or changes the sets.  The screens and  *)
(* the launch run in the launcher's one thread: one visit at a time.        *)

Visit(w, s, g, k) ==
    /\ step = "rest" /\ visits < MaxVisits
    /\ visits' = visits + 1
    /\ step' = w /\ stage' = s /\ game' = g /\ set' = k
    /\ UNCHANGED <<files, setOf, journal, left, saves, cuts>>

\* the set itself is played where it is
SetDir(g) == ini[g] # SONY /\ row[g] \in there /\ disk[row[g]]["card1"] # None

\* launch, setDirForLaunch with a PCSX that plays a set where it is (setDir); a set
\* that is not whole enough gives way to SONY
Launch(g, emulator, setDir) ==
    /\ CASE setDir /\ SetDir(g) -> Visit("play", "play", g, row[g]) /\ how' = "dir"
         [] setDir /\ ini[g] # SONY /\ ~SetDir(g) -> Visit("ini", "in", g, None) /\ how' = emulator
         [] OTHER -> Visit("swapIn", "in", g, None) /\ how' = emulator
    /\ UNCHANGED <<name, history>>

Edit(w, g, s) == Visit(w, "edit", g, s) /\ UNCHANGED how

ChooseCard(g, s) ==
    /\ s \in (Sets \cap there) \cup {SONY}
    /\ Edit("ini", g, s)
    /\ UNCHANGED <<name, history>>

createCard(s) ==
    /\ s \notin there
    /\ Edit("mkSet", None, s)
    /\ UNCHANGED <<name, history>>

\* a set removed has no save to keep
removeCard(s) ==
    /\ s \in there
    /\ Edit("rmSet", None, s)
    /\ saved' = [saved EXCEPT ![s] = NoSaves]
    /\ UNCHANGED <<name, damaged>>

\* a set written over has no save to keep
storeGameCardsAsSet(g, s) ==
    /\ Edit("mkSet", g, s)
    /\ saved' = [saved EXCEPT ![s] = NoSaves]
    /\ damaged' = IF g \in damaged THEN damaged \cup {s} ELSE damaged
    /\ UNCHANGED name

renameCard(s, t) ==
    /\ s \in there /\ t \notin there
    /\ Edit("renameDir", None, s)
    /\ name' = t
    /\ UNCHANGED history

-----------------------------------------------------------------------------
(* One operation, and on to the next *)

Listed(d) == {c \in CardNames : disk[d][c] # None}

\* the cards the copies at w, of set s, are of
ToCopy(w, s) ==
    CASE w \in {"backup", "store"}   -> Listed(Memcards)
      [] w \in {"copyIn", "copyOut"} -> Listed(s)
      [] w = "copyOwn"               -> Listed(Backup)
      [] w = "blank"                 -> CardNames
      [] OTHER                       -> {}

Rest ==
    /\ step' = "rest" /\ stage' = "rest" /\ left' = {}
    /\ game' = None /\ set' = None /\ name' = None /\ how' = "none"

On(s) ==
    LET w == After(step) IN
    IF w = "rest" THEN Rest
    ELSE /\ step' = w /\ set' = s /\ left' = ToCopy(w, s)
         /\ stage' = CASE stage = "in" /\ w = "play" -> "play"
                       [] stage \in {"play", "back"} /\ w \in {"dropSrm", "clearOwn"} -> "restore"
                       [] stage = "play" /\ w \notin {"dropSrm", "clearOwn"} -> "back"
                       [] OTHER -> stage
         /\ UNCHANGED <<game, name, how>>

\* DirEntry::copy opens the destination before it looks at the source
Copy(content, d, n) ==
    disk' = IF d \in there
            THEN [disk EXCEPT ![d][n] = IF content = None THEN Torn ELSE content] ELSE disk

NextCard == IF "card1" \in left THEN "card1" ELSE "card2"

From(w) ==
    CASE w \in {"backup", "copyOut", "store"} -> Memcards
      [] w = "copyIn"                         -> set
      [] w = "copyOwn"                        -> Backup

To(w) ==
    CASE w = "backup"                        -> Backup
      [] w \in {"copyIn", "copyOwn"}         -> Memcards
      [] w \in {"copyOut", "store", "blank"} -> set

\* for (entry : diru(listed)) copy(from/entry, to/entry)
CopyStep ==
    /\ step \in Loops
    /\ IF left = {}
       THEN On(set) /\ UNCHANGED disk
       ELSE /\ Copy(IF step = "blank" THEN Blank ELSE disk[From(step)][NextCard], To(step), NextCard)
            /\ left' = left \ {NextCard}
            /\ UNCHANGED <<stage, step, visit>>
    /\ UNCHANGED <<there, setOf, journal, history, bounds>>

Dir(w) ==
    CASE w \in {"clearIn", "mkIn", "clearOwn", "mkOwn"} -> Memcards
      [] w \in {"mkBackup", "dropBackup"}               -> Backup
      [] w \in {"mkSet", "rmSet"}                       -> set

\* DirEntry::rmDir: a file at a time in no order, then the folder
RmDirStep ==
    /\ step \in RmDirs
    /\ LET d == Dir(step)
           here == {n \in FileNames : disk[d][n] # None}
       IN \/ /\ \E n \in here : disk' = [disk EXCEPT ![d][n] = None]
             /\ UNCHANGED <<there, work>>
          \/ /\ here = {}
             /\ there' = there \ {d}
             /\ On(set)
             /\ UNCHANGED disk
    /\ UNCHANGED <<setOf, journal, history, bounds>>

CreateDirStep ==
    /\ step \in MkDirs
    /\ there' = there \cup {Dir(step)}
    /\ On(set)
    /\ UNCHANGED <<disk, setOf, journal, history, bounds>>

RenameDirStep ==
    /\ step = "renameDir"
    /\ there' = (there \ {set}) \cup {name}
    /\ disk' = [disk EXCEPT ![name] = disk[set], ![set] = disk[name]]
    /\ saved' = [saved EXCEPT ![name] = saved[set], ![set] = NoSaves]
    /\ damaged' = IF set \in damaged THEN damaged \cup {name} ELSE damaged
    /\ On(set)
    /\ UNCHANGED <<setOf, journal, bounds>>

\* every Game.ini that names the old set, one at a time
RepointStep ==
    /\ step = "repoint"
    /\ LET named == {g \in Games : ini[g] = set}
       IN \/ /\ \E g \in named : ini' = [ini EXCEPT ![g] = name]
             /\ UNCHANGED work
          \/ /\ named = {} /\ On(set)
             /\ UNCHANGED ini
    /\ UNCHANGED <<files, row, journal, history, bounds>>

\* setCardForGame, in a launch with SONY
SetStep ==
    /\ step \in {"ini", "row"}
    /\ LET s == IF stage = "edit" THEN set ELSE SONY
       IN IF step = "ini" THEN ini' = [ini EXCEPT ![game] = s] /\ UNCHANGED row
                          ELSE row' = [row EXCEPT ![game] = s] /\ UNCHANGED ini
    /\ On(IF stage = "edit" THEN set ELSE None)
    /\ UNCHANGED <<files, journal, history, bounds>>

SwapInStep ==
    /\ step = "swapIn"
    /\ On(SetNamed(game))
    /\ UNCHANGED <<files, setOf, journal, history, bounds>>

\* the set is named anew after the game
SwapOutStep ==
    /\ step = "swapOut"
    /\ On(IF how = "recover" THEN set ELSE SetNamed(game))
    /\ UNCHANGED <<files, setOf, journal, history, bounds>>

JournalStep ==
    /\ step \in {"journal", "note", "unJournal"}
    /\ journal' = CASE step = "journal"   -> [game |-> game, set |-> set, srm |-> FALSE]
                    [] step = "note"      -> [game |-> game, set |-> journal.set, srm |-> TRUE]
                    [] step = "unJournal" -> NoJournal
    /\ On(set)
    /\ UNCHANGED <<files, setOf, history, bounds>>

SrmStep ==
    /\ \/ step = "aside"  /\ Copy(disk[RaSaves]["srm"], RaSaves, "bak")
       \/ step = "raCard" /\ IF disk[Memcards]["card1"] = None THEN UNCHANGED disk
                             ELSE Copy(disk[Memcards]["card1"], RaSaves, "srm")
       \/ step = "srmOut" /\ Copy(disk[RaSaves]["srm"], Memcards, "card1")
       \/ step = "dropSrm" /\ disk' = [disk EXCEPT ![RaSaves]["srm"] = None]
       \/ step = "bakToSrm" /\ disk' = [disk EXCEPT ![RaSaves]["srm"] = disk[RaSaves]["bak"],
                                                    ![RaSaves]["bak"] = None]
    /\ On(set)
    /\ UNCHANGED <<there, setOf, journal, history, bounds>>

(* The game runs *)

\* the folder the cards the game plays with live in
Home == IF set = None THEN Memcards ELSE set

\* where the emulator finds and keeps a card
Slot(c) ==
    CASE how = "dir"  -> <<set, c>>
      [] how = "pcsx" -> <<Memcards, c>>
      [] how = "ra"   -> <<RaSaves, "srm">>

\* RetroArch plays card 1 alone
Played == IF how = "ra" THEN {"card1"} ELSE CardNames

SaveInGame(c) ==
    /\ step = "play" /\ c \in Played
    /\ saves < MaxSaves /\ saves' = saves + 1
    /\ disk' = [disk EXCEPT ![Slot(c)[1]][Slot(c)[2]] = saves + 1]
    /\ saved' = [saved EXCEPT ![Home][c] = saves + 1]
    /\ UNCHANGED <<there, setOf, journal, work, damaged, visits, cuts>>

EndGame ==
    /\ step = "play"
    /\ On(set)
    /\ UNCHANGED <<files, setOf, journal, history, bounds>>

(* The power goes; the next start looks for the journal (recoverAfterCrash). *)

\* the file a copy is writing
Writing(d, n) ==
    \/ step \in Loops /\ left # {} /\ d = To(step) /\ n = NextCard
    \/ step = "aside" /\ d = RaSaves /\ n = "bak"
    \/ step = "raCard" /\ disk[Memcards]["card1"] # None /\ d = RaSaves /\ n = "srm"
    \/ step = "srmOut" /\ d = Memcards /\ n = "card1"

PowerCut ==
    /\ step # "rest" /\ stage \in CutStages /\ cuts < MaxCuts
    /\ cuts' = cuts + 1
    /\ \/ UNCHANGED disk
       \/ \E d \in there, n \in FileNames :
             Writing(d, n) /\ disk' = [disk EXCEPT ![d][n] = Torn]
    /\ step' = "recover" /\ stage' = "back" /\ left' = {}
    /\ game' = None /\ set' = None /\ name' = None /\ how' = "recover"
    /\ damaged' = IF stage = "in" THEN damaged \cup {game} ELSE damaged
    /\ UNCHANGED <<there, setOf, journal, saved, saves, visits>>

RecoverStep ==
    /\ step = "recover"
    /\ IF journal = NoJournal THEN Rest
       ELSE /\ step' = After(step) /\ game' = journal.game /\ set' = journal.set
            /\ UNCHANGED <<stage, left, name, how>>
    /\ UNCHANGED <<files, setOf, journal, history, bounds>>

-----------------------------------------------------------------------------
Visits ==
    \/ \E g \in Games :
          Launch(g, "pcsx", FALSE) \/ Launch(g, "pcsx", TRUE) \/ Launch(g, "ra", FALSE)
    \/ \E g \in Games, s \in Sets \cup {SONY} : ChooseCard(g, s)
    \/ \E s \in Sets : createCard(s) \/ removeCard(s)
    \/ \E g \in Games, s \in Sets : storeGameCardsAsSet(g, s)
    \/ \E s, t \in Sets : renameCard(s, t)

FileSteps == CopyStep \/ RmDirStep \/ CreateDirStep \/ RenameDirStep \/ SrmStep
Steps ==
    FileSteps \/ RepointStep \/ SetStep \/ SwapInStep \/ SwapOutStep \/ JournalStep \/ EndGame \/ RecoverStep

Next == Visits \/ Steps \/ (\E c \in CardNames : SaveInGame(c)) \/ PowerCut

Spec == Init /\ [][Next]_vars

-----------------------------------------------------------------------------
(* Properties *)

TypeOK ==
    /\ there \subseteq Folders
    /\ disk \in [Folders -> [FileNames -> Content \cup {None}]]
    /\ ini \in [Games -> Sets \cup {SONY}] /\ row \in [Games -> Sets \cup {SONY}]
    /\ journal \in Journals
    /\ stage \in Stages /\ step \in StepNames /\ left \subseteq CardNames
    /\ game \in Games \cup {None} /\ set \in Sets \cup {SONY, None}
    /\ name \in Sets \cup {None} /\ how \in {"none", "pcsx", "dir", "ra", "recover"}
    /\ saved \in [Folders -> [FileNames -> Content \cup {None}]]
    /\ damaged \subseteq Games \cup Sets
    /\ saves \in 0 .. MaxSaves /\ visits \in 0 .. MaxVisits /\ cuts \in 0 .. MaxCuts

KeptIn(d) == \A n \in FileNames : saved[d][n] # None => disk[d][n] = saved[d][n]

\* Every save made in a set is in the set once the launcher is at rest, whichever games
\* played it, in whichever emulator, and wherever the power went up to the hand-back:
\* "the cards back into the set ... the saves made meanwhile are kept" (memcard.h:48-49),
\* "recovery never copies a half-copied card back over the set" (memcard.cpp:69-70).
SetsKeepTheirSaves == stage = "rest" => \A s \in Sets \ damaged : KeptIn(s)

\* A game's own cards are back in its memcards folder, and RetroArch's own save in its
\* .srm: swapOut, raMemcardOut and recoverAfterCrash, "the game's own cards back"
\* (memcard.h:49).  A game the power caught at its swap-in is not covered: no journal
\* names it.
GamesKeepTheirSaves ==
    stage = "rest" =>
        \A g \in Games \ damaged : KeptIn(MemcardsOf(g)) /\ KeptIn(RaSavesOf(g))

\* A game never runs on another's saves: what the emulator finds on each card it
\* plays is the last save of the set, or of the game, the session's saves go to
\* (memcard.h:38-39).
PlaysItsCards ==
    step = "play" /\ (IF set = None THEN game ELSE set) \notin damaged =>
        \A c \in Played :
           saved[Home][c] # None => disk[Slot(c)[1]][Slot(c)[2]] = saved[Home][c]

\* At rest nothing of a session is left: no journal, no cards in backup/, no .srm.bak.
NothingLeftBehind ==
    stage = "rest" =>
        /\ journal = NoJournal
        /\ \A g \in Games \ damaged :
              BackupOf(g) \notin there /\ disk[RaSavesOf(g)]["bak"] = None
=============================================================================
