------------------------- MODULE MemoryCards_proofs -------------------------
(***************************************************************************)
(* Theorems about MemoryCards, for any games, sets and bounds: no save of  *)
(* a set or of a game is lost, no game runs on another's cards, and no     *)
(* session leaves anything behind - where the power may go at any operation*)
(* of a launch or of a recovery up to the one that hands the cards back    *)
(* (CutStages; in "restore" it loses saves, and the screens are not        *)
(* journalled).                                                            *)
(*                                                                         *)
(* The invariant follows the cards.  A set or a game no session has is     *)
(* fine: its folder holds what it is to hold.  What a session has taken is *)
(* described operation by operation: the game's own cards on their way to  *)
(* backup/ and back (OwnCards), the set's on their way to memcards/        *)
(* (SetCards), and, from the journal on, where the cards of the session    *)
(* are (LentOK) - of which the recovery finds all it needs in the journal. *)
(* One lemma for each operation shows that it keeps all of it.             *)
(***************************************************************************)
EXTENDS MemoryCards, TLAPS

-----------------------------------------------------------------------------
(* The invariant *)

\* card c of home h is kept in file n of folder d
Holds(h, c, d, n) == disk[d][n] # None /\ (saved[h][c] # None => disk[d][n] = saved[h][c])
AllIn(h, d, cards) == \A c \in cards : Holds(h, c, d, c)

RaOwn(g)  == disk[RaSavesOf(g)]["srm"] = RaSave /\ disk[RaSavesOf(g)]["bak"] = None
RaHeld(g) == disk[RaSavesOf(g)]["srm"] # None /\ disk[RaSavesOf(g)]["bak"] = RaSave

SetFine(s) ==
    IF s \in there THEN AllIn(s, s, CardNames) ELSE \A c \in CardNames : saved[s][c] = None

GameFine(g) ==
    /\ MemcardsOf(g) \in there /\ AllIn(MemcardsOf(g), MemcardsOf(g), CardNames)
    /\ BackupOf(g) \notin there
    /\ RaOwn(g)

\* what a folder is ever to hold
SavedShape ==
    /\ \A d \in Folders : saved[d]["bak"] = None
    /\ \A s \in Sets : saved[s]["srm"] = None
    /\ \A g \in Games :
          /\ \A c \in CardNames : saved[MemcardsOf(g)][c] # None
          /\ saved[MemcardsOf(g)]["srm"] = None
          /\ saved[RaSavesOf(g)] = [n \in FileNames |-> IF n = "srm" THEN RaSave ELSE None]
          /\ RaSavesOf(g) \in there

GoingIn   == {"swapIn", "mkBackup", "backup", "clearIn", "mkIn", "copyIn", "journal"}
RaIn      == {"aside", "raCard", "note"}
GoingOut  == {"srmOut", "dropSrm", "bakToSrm", "swapOut", "copyOut"}
Restoring == {"clearOwn", "mkOwn", "copyOwn", "dropBackup"}
Writes    == {"mkSet", "blank", "store", "rmSet"}

\* the steps of each stage, and what the visit is of
VisitOK ==
    /\ stage = "rest" => step = "rest" /\ game = None /\ set = None
    /\ stage = "edit" =>
          /\ step \in Writes \cup {"renameDir", "repoint", "ini", "row"}
          /\ step \in Writes \cup {"renameDir", "repoint"} => set \in Sets
          /\ step \in {"ini", "row"} => game \in Games /\ set \in Sets \cup {SONY}
          /\ step = "store" => game \in Games
          /\ step \in {"renameDir", "repoint"} => name \in Sets
          /\ step = "renameDir" => set \in there /\ name \notin there
    /\ stage = "in" =>
          /\ step \in GoingIn \cup RaIn \cup Restoring \cup {"ini", "row"}
          /\ game \in Games /\ how \in {"pcsx", "ra"}
          /\ step \in RaIn => how = "ra"
    /\ stage = "play" => step = "play" /\ game \in Games /\ how \in {"pcsx", "dir", "ra"}
    /\ stage \in {"back", "restore"} =>
          /\ step \in GoingOut \cup Restoring \cup {"unJournal", "recover"}
          /\ how \in {"pcsx", "ra", "recover"}
          /\ step = "recover" => game = None /\ set = None /\ how = "recover" /\ stage = "back"
          /\ step # "recover" => game \in Games
          /\ step \in {"dropSrm", "bakToSrm"} \cup Restoring => stage = "restore"
          /\ step = "srmOut" => stage = "back"

\* the set of a session is the one its game is named for, the journal says both
Session ==
    /\ step \in GoingIn \cup RaIn \cup Restoring \cup {"ini", "row"} /\ stage = "in" =>
          set = IF step \in {"swapIn", "row"} THEN None
                ELSE IF step = "ini" THEN set ELSE SetNamed(game)
    /\ step = "row" /\ stage = "in" => ini[game] = SONY
    /\ step \in (GoingIn \ {"swapIn"}) \cup {"copyOut"} => set # None
    /\ step = "play" /\ how = "dir" => set # None
    /\ stage \in {"play", "back", "restore"} /\ how # "recover" /\ how # "dir" => set = SetNamed(game)
    /\ (step \in RaIn \cup GoingOut \/ step = "play") /\ set # None => set \in Sets /\ set \in there

JournalFits(g, s) ==
    journal = IF s = None /\ ~journal.srm THEN NoJournal
              ELSE [game |-> g, set |-> s, srm |-> journal.srm]

JournalOK ==
    /\ stage \in {"rest", "edit"} \/ step \in GoingIn \/ (step = "play" /\ how = "dir") => journal = NoJournal
    /\ stage = "in" /\ step \in Restoring \cup {"ini", "row"} => journal = NoJournal
    /\ step \in RaIn \/ (step = "play" /\ how = "pcsx") => ~journal.srm /\ JournalFits(game, set)
    /\ step = "play" /\ how = "ra" => journal.srm /\ JournalFits(game, set)
    /\ stage \in {"back", "restore"} /\ step # "recover" =>
          /\ JournalFits(game, set)
          /\ how = "pcsx" => ~journal.srm
          /\ how = "ra" => journal.srm
          /\ how = "recover" => journal # NoJournal
          /\ step \in {"srmOut", "dropSrm", "bakToSrm"} => journal.srm
          /\ stage = "back" /\ journal.srm /\ step # "srmOut" => game \in damaged
    /\ step = "recover" => journal = NoJournal \/ JournalFits(journal.game, journal.set)

\* the cards of a set are with the game, or the set is being written
Lent == step \in RaIn \cup GoingOut \cup {"recover"} \/ (step = "play" /\ how # "dir")
InHand    == IF step = "recover" THEN journal.game ELSE game
SetInHand == IF step = "recover" THEN journal.set ELSE set

SetAway   == Lent \/ step \in Writes
GameAway  == Lent \/ step \in (GoingIn \ {"swapIn", "mkBackup"}) \cup Restoring

SetsFine  == \A s \in Sets \ damaged : (s = SetInHand /\ SetAway) \/ SetFine(s)
GamesFine == \A g \in Games \ damaged : (g = InHand /\ GameAway) \/ GameFine(g)

\* a set is written
WritesOK ==
    step \in Writes =>
        /\ step \in {"blank", "store"} => set \in there
        /\ set \notin damaged =>
              /\ \A c \in CardNames : saved[set][c] = None
              /\ game \notin damaged
              /\ step \in {"blank", "store"} => \A c \in CardNames \ left : disk[set][c] # None

\* the game's own cards on their way to backup/ and back
OwnCards ==
    /\ step = "backup" =>
          /\ Backup \in there
          /\ game \notin damaged =>
                /\ Memcards \in there /\ AllIn(Memcards, Memcards, CardNames)
                /\ AllIn(Memcards, Backup, CardNames \ left)
                /\ RaOwn(game)
    /\ step \in {"clearIn", "mkIn", "copyIn", "journal", "clearOwn", "mkOwn", "copyOwn"} =>
          /\ Backup \in there
          /\ game \notin damaged => AllIn(Memcards, Backup, CardNames) /\ RaOwn(game)
    /\ step = "copyOwn" /\ game \notin damaged =>
          Memcards \in there /\ AllIn(Memcards, Memcards, CardNames \ left)
    /\ step = "dropBackup" /\ game \notin damaged =>
          Memcards \in there /\ AllIn(Memcards, Memcards, CardNames) /\ RaOwn(game)
    /\ step = "unJournal" /\ stage = "back" => set = None

\* the set's cards on their way to memcards/
SetCards ==
    /\ step \in {"clearIn", "mkIn", "copyIn", "journal"} => set \in Sets /\ set \in there
    /\ step \in {"copyIn", "journal"} => Memcards \in there
    /\ step = "copyIn" /\ set \notin damaged => AllIn(set, Memcards, CardNames \ left)
    /\ step = "journal" /\ set \notin damaged => AllIn(set, Memcards, CardNames)

HomeOf(g, s) == IF s = None THEN MemcardsOf(g) ELSE s
Whole(g, s)  == (IF s = None THEN g ELSE s) \notin damaged

InMemcards(g, s) ==
    Whole(g, s) => MemcardsOf(g) \in there /\ AllIn(HomeOf(g, s), MemcardsOf(g), CardNames)
InSrm(g, s) ==
    Whole(g, s) =>
        /\ MemcardsOf(g) \in there
        /\ Holds(HomeOf(g, s), "card1", RaSavesOf(g), "srm")
        /\ Holds(HomeOf(g, s), "card2", MemcardsOf(g), "card2")

Away(g, s) ==
    IF s = None THEN g \notin damaged => BackupOf(g) \notin there
    ELSE /\ s \in there /\ BackupOf(g) \in there
         /\ s \notin damaged => \A c \in CardNames : disk[s][c] # None
         /\ g \notin damaged => AllIn(MemcardsOf(g), BackupOf(g), CardNames)

\* a game has the cards of its home in its hands
LentOK ==
    /\ step \in RaIn =>
          /\ Away(game, set) /\ InMemcards(game, set)
          /\ step = "note" => InSrm(game, set)
          /\ game \notin damaged => IF step = "aside" THEN RaOwn(game) ELSE RaHeld(game)
    /\ step = "play" /\ how # "dir" =>
          /\ Away(game, set)
          /\ how = "pcsx" => InMemcards(game, set) /\ (game \notin damaged => RaOwn(game))
          /\ how = "ra" => InSrm(game, set) /\ (game \notin damaged => RaHeld(game))
    /\ step \in GoingOut =>
          /\ Away(game, set)
          /\ step # "srmOut" => InMemcards(game, set)
          /\ stage = "back" /\ journal.srm => InSrm(game, set)
          /\ game \notin damaged =>
                CASE step = "srmOut" -> RaHeld(game)
                  [] step \in {"dropSrm", "bakToSrm"} -> disk[RaSaves]["bak"] = RaSave
                  [] OTHER -> RaOwn(game)
          /\ step = "copyOut" /\ set \notin damaged => AllIn(set, set, CardNames \ left)
    /\ step = "recover" /\ journal # NoJournal =>
          LET g == journal.game
              s == journal.set
          IN /\ Away(g, s)
             /\ IF journal.srm THEN InSrm(g, s) ELSE InMemcards(g, s)
             /\ g \notin damaged => IF journal.srm THEN RaHeld(g) ELSE RaOwn(g)

Inv ==
    /\ TypeOK /\ SavedShape /\ VisitOK /\ Session /\ JournalOK
    /\ SetsFine /\ GamesFine /\ WritesOK /\ OwnCards /\ SetCards /\ LentOK

-----------------------------------------------------------------------------
(* Names and folders.                                                      *)

\* sets, the folders of a game and those of another are different folders
LEMMA FoldersApart ==
    /\ Sets \subseteq Folders /\ None \notin Folders /\ SONY \notin Folders /\ SONY # None
    /\ None \notin Games /\ Blank # None /\ RaSave # None /\ Torn # None
    /\ \A n \in 1 .. MaxSaves : n # None
    /\ \A g \in Games :
          /\ MemcardsOf(g) \in Folders \ Sets /\ BackupOf(g) \in Folders \ Sets
          /\ RaSavesOf(g) \in Folders \ Sets
    /\ \A g, h \in Games :
          /\ MemcardsOf(g) # BackupOf(h) /\ MemcardsOf(g) # RaSavesOf(h) /\ BackupOf(g) # RaSavesOf(h)
          /\ g # h => MemcardsOf(g) # MemcardsOf(h) /\ BackupOf(g) # BackupOf(h) /\ RaSavesOf(g) # RaSavesOf(h)
<1>1. \A g \in Games : {MemcardsOf(g), BackupOf(g), RaSavesOf(g)} \subseteq GameFolders
  BY DEF MemcardsOf, BackupOf, RaSavesOf, GameFolders
<1>2. \A g, h \in Games :
          /\ MemcardsOf(g) # BackupOf(h) /\ MemcardsOf(g) # RaSavesOf(h) /\ BackupOf(g) # RaSavesOf(h)
          /\ g # h => MemcardsOf(g) # MemcardsOf(h) /\ BackupOf(g) # BackupOf(h) /\ RaSavesOf(g) # RaSavesOf(h)
  BY DEF MemcardsOf, BackupOf, RaSavesOf
<1> QED BY <1>1, <1>2, MemoryCardsAssumption DEF Folders, Content

-----------------------------------------------------------------------------
(* What follows what.                                                      *)

Ready == IF how = "ra" THEN raMemcardIn("begin") ELSE "play"
SwapIn == IF row[game] \in there THEN "clearIn" ELSE restore("begin", "ini")

\* swapInForLaunch and raMemcardIn
LEMMA AfterIn ==
    ASSUME stage = "in", how \in {"pcsx", "ra"}
    PROVE  /\ step = "swapIn" => After(step) = IF ini[game] = SONY THEN Ready ELSE backup("begin", SwapIn)
           /\ step = "mkBackup" => After(step) = "backup"
           /\ step = "backup" => After(step) = SwapIn
           /\ step = "clearIn" => After(step) = "mkIn"
           /\ step = "mkIn" => After(step) = "copyIn"
           /\ step = "copyIn" => After(step) = "journal"
           /\ step = "journal" => After(step) = Ready
           /\ step = "clearOwn" => After(step) = "mkOwn"
           /\ step = "mkOwn" => After(step) = "copyOwn"
           /\ step = "copyOwn" => After(step) = "dropBackup"
           /\ step = "dropBackup" => After(step) = "ini"
           /\ step = "ini" => After(step) = "row"
           /\ step = "row" => After(step) = Ready
           /\ step = "aside" => After(step) = "raCard"
           /\ step = "raCard" => After(step) = "note"
           /\ step = "note" => After(step) = "play"
<1>1. step = "swapIn" => After(step) = IF ini[game] = SONY THEN Ready ELSE backup("begin", SwapIn)
  BY DEF After, swapInForLaunch, backup, restore, raMemcardIn, Ready, SwapIn
<1>2. step = "mkBackup" => After(step) = "backup"
  BY DEF After, swapInForLaunch, backup, restore, raMemcardIn, Ready, SwapIn
<1>3. step = "backup" => After(step) = SwapIn
  BY DEF After, swapInForLaunch, backup, restore, raMemcardIn, Ready, SwapIn
<1>4. step = "clearIn" => After(step) = "mkIn"
  BY DEF After, swapInForLaunch, backup, restore, raMemcardIn, Ready, SwapIn
<1>5. step = "mkIn" => After(step) = "copyIn"
  BY DEF After, swapInForLaunch, backup, restore, raMemcardIn, Ready, SwapIn
<1>6. step = "copyIn" => After(step) = "journal"
  BY DEF After, swapInForLaunch, backup, restore, raMemcardIn, Ready, SwapIn
<1>7. step = "journal" => After(step) = Ready
  BY DEF After, swapInForLaunch, backup, restore, raMemcardIn, Ready, SwapIn
<1>8. step = "clearOwn" => After(step) = "mkOwn"
  BY DEF After, swapInForLaunch, backup, restore, raMemcardIn, Ready, SwapIn
<1>9. step = "mkOwn" => After(step) = "copyOwn"
  BY DEF After, swapInForLaunch, backup, restore, raMemcardIn, Ready, SwapIn
<1>10. step = "copyOwn" => After(step) = "dropBackup"
  BY DEF After, swapInForLaunch, backup, restore, raMemcardIn, Ready, SwapIn
<1>11. step = "dropBackup" => After(step) = "ini"
  BY DEF After, swapInForLaunch, backup, restore, raMemcardIn, Ready, SwapIn
<1>12. step = "ini" => After(step) = "row"
  BY DEF After, swapInForLaunch, backup, restore, raMemcardIn, Ready, SwapIn
<1>13. step = "row" => After(step) = Ready
  BY DEF After, swapInForLaunch, backup, restore, raMemcardIn, Ready, SwapIn
<1>14. step = "aside" => After(step) = "raCard"
  BY DEF After, swapInForLaunch, backup, restore, raMemcardIn, Ready, SwapIn
<1>15. step = "raCard" => After(step) = "note"
  BY DEF After, swapInForLaunch, backup, restore, raMemcardIn, Ready, SwapIn
<1>16. step = "note" => After(step) = "play"
  BY DEF After, swapInForLaunch, backup, restore, raMemcardIn, Ready, SwapIn
<1> QED BY <1>1, <1>2, <1>3, <1>4, <1>5, <1>6, <1>7, <1>8, <1>9, <1>10, <1>11, <1>12, <1>13, <1>14, <1>15, <1>16

\* raMemcardOut, swapOutAfterLaunch and recoverAfterCrash
LEMMA AfterOut ==
    ASSUME stage \in {"back", "restore"}, how \in {"pcsx", "ra", "recover"}
    PROVE  /\ step = "srmOut" => After(step) = PutBack
           /\ step = "dropSrm" => After(step) = "bakToSrm"
           /\ step = "bakToSrm" => After(step) = "swapOut"
           /\ step = "swapOut" =>
                 LET s == IF how = "recover" THEN set ELSE SetNamed(game)
                 IN After(step) = IF s = None THEN "unJournal" ELSE swapOut("begin", s, "unJournal")
           /\ step = "copyOut" => After(step) = restore("begin", "unJournal")
           /\ step = "clearOwn" => After(step) = "mkOwn"
           /\ step = "mkOwn" => After(step) = "copyOwn"
           /\ step = "copyOwn" => After(step) = "dropBackup"
           /\ step = "dropBackup" => After(step) = "unJournal"
           /\ step = "unJournal" => After(step) = "rest"
           /\ step = "recover" /\ how = "recover" => After(step) = recoverAfterCrash("recover")
<1>1. step = "srmOut" => After(step) = PutBack
  BY DEF After, recoverAfterCrash, raMemcardOut, swapOutAfterLaunch, swapOut, restore
<1>2. step = "dropSrm" => After(step) = "bakToSrm"
  BY DEF After, recoverAfterCrash, raMemcardOut, swapOutAfterLaunch, swapOut, restore
<1>3. step = "bakToSrm" => After(step) = "swapOut"
  BY DEF After, recoverAfterCrash, raMemcardOut, swapOutAfterLaunch, swapOut, restore
<1>4. step = "swapOut" =>
                 LET s == IF how = "recover" THEN set ELSE SetNamed(game)
                 IN After(step) = IF s = None THEN "unJournal" ELSE swapOut("begin", s, "unJournal")
  BY DEF After, recoverAfterCrash, raMemcardOut, swapOutAfterLaunch, swapOut, restore
<1>5. step = "copyOut" => After(step) = restore("begin", "unJournal")
  BY DEF After, recoverAfterCrash, raMemcardOut, swapOutAfterLaunch, swapOut, restore
<1>6. step = "clearOwn" => After(step) = "mkOwn"
  BY DEF After, recoverAfterCrash, raMemcardOut, swapOutAfterLaunch, swapOut, restore
<1>7. step = "mkOwn" => After(step) = "copyOwn"
  BY DEF After, recoverAfterCrash, raMemcardOut, swapOutAfterLaunch, swapOut, restore
<1>8. step = "copyOwn" => After(step) = "dropBackup"
  BY DEF After, recoverAfterCrash, raMemcardOut, swapOutAfterLaunch, swapOut, restore
<1>9. step = "dropBackup" => After(step) = "unJournal"
  BY DEF After, recoverAfterCrash, raMemcardOut, swapOutAfterLaunch, swapOut, restore
<1>10. step = "unJournal" => After(step) = "rest"
  BY DEF After, recoverAfterCrash, raMemcardOut, swapOutAfterLaunch, swapOut, restore
<1>11. step = "recover" /\ how = "recover" => After(step) = recoverAfterCrash("recover")
  BY DEF After, recoverAfterCrash, raMemcardOut, swapOutAfterLaunch, swapOut, restore
<1> QED BY <1>1, <1>2, <1>3, <1>4, <1>5, <1>6, <1>7, <1>8, <1>9, <1>10, <1>11

\* the screens, and the end of the game
LEMMA AfterOther ==
    /\ stage = "edit" /\ step = "mkSet" => After(step) = IF game = None THEN "blank" ELSE "store"
    /\ stage = "edit" /\ step = "renameDir" => After(step) = "repoint"
    /\ stage = "edit" /\ step = "ini" => After(step) = "row"
    /\ stage = "edit" /\ step \in {"blank", "store", "rmSet", "repoint", "row"} => After(step) = "rest"
    /\ stage = "play" /\ step = "play" /\ how \in {"pcsx", "dir", "ra"} =>
          After(step) = IF how = "dir" THEN "rest"
                        ELSE IF how = "ra" THEN raMemcardOut("begin") ELSE "swapOut"
<1>1. stage = "edit" /\ step = "mkSet" => After(step) = IF game = None THEN "blank" ELSE "store"
  BY DEF After, edit
<1>2. stage = "edit" /\ step = "renameDir" => After(step) = "repoint"
  BY DEF After, edit
<1>3. stage = "edit" /\ step = "ini" => After(step) = "row"
  BY DEF After, edit
<1>4. stage = "edit" /\ step \in {"blank", "store", "rmSet", "repoint", "row"} => After(step) = "rest"
  BY DEF After, edit
<1>5. stage = "play" /\ step = "play" /\ how \in {"pcsx", "dir", "ra"} =>
          After(step) = IF how = "dir" THEN "rest"
                        ELSE IF how = "ra" THEN raMemcardOut("begin") ELSE "swapOut"
  BY DEF After, edit
<1> QED BY <1>1, <1>2, <1>3, <1>4, <1>5

\* the choices between the orders
LEMMA Choices ==
    /\ Ready \in {"play", "aside", "raCard"}
    /\ Ready # "play" <=> how = "ra"
    /\ Ready = "aside" <=>
          how = "ra" /\ disk[RaSavesOf(game)]["bak"] = None /\ disk[RaSavesOf(game)]["srm"] # None
    /\ SwapIn = IF row[game] \in there THEN "clearIn" ELSE IF BackupOf(game) \in there THEN "clearOwn" ELSE "ini"
    /\ backup("begin", SwapIn) = IF BackupOf(game) \in there THEN SwapIn ELSE "mkBackup"
    /\ PutBack = IF disk[RaSavesOf(game)]["bak"] # None THEN "dropSrm" ELSE "swapOut"
    /\ raMemcardOut("begin") = IF disk[RaSavesOf(game)]["srm"] # None THEN "srmOut" ELSE PutBack
    /\ restore("begin", "unJournal") = IF BackupOf(game) \in there THEN "clearOwn" ELSE "unJournal"
    /\ \A s : swapOut("begin", s, "unJournal") = IF s \in there THEN "copyOut" ELSE restore("begin", "unJournal")
    /\ recoverAfterCrash("recover") =
          IF journal = NoJournal THEN "rest"
          ELSE IF journal.srm /\ disk[RaSavesOf(journal.game)]["srm"] # None THEN "srmOut" ELSE "swapOut"
<1>1. Ready \in {"play", "aside", "raCard"}
  BY DEF Ready, raMemcardIn, SwapIn, backup, restore, PutBack, raMemcardOut, swapOut, recoverAfterCrash,
         RaSaves, Backup
<1>2. Ready # "play" <=> how = "ra"
  BY DEF Ready, raMemcardIn, SwapIn, backup, restore, PutBack, raMemcardOut, swapOut, recoverAfterCrash,
         RaSaves, Backup
<1>3. Ready = "aside" <=>
          how = "ra" /\ disk[RaSavesOf(game)]["bak"] = None /\ disk[RaSavesOf(game)]["srm"] # None
  BY DEF Ready, raMemcardIn, SwapIn, backup, restore, PutBack, raMemcardOut, swapOut, recoverAfterCrash,
         RaSaves, Backup
<1>4. SwapIn = IF row[game] \in there THEN "clearIn" ELSE IF BackupOf(game) \in there THEN "clearOwn" ELSE "ini"
  BY DEF Ready, raMemcardIn, SwapIn, backup, restore, PutBack, raMemcardOut, swapOut, recoverAfterCrash,
         RaSaves, Backup
<1>5. backup("begin", SwapIn) = IF BackupOf(game) \in there THEN SwapIn ELSE "mkBackup"
  BY DEF Ready, raMemcardIn, SwapIn, backup, restore, PutBack, raMemcardOut, swapOut, recoverAfterCrash,
         RaSaves, Backup
<1>6. PutBack = IF disk[RaSavesOf(game)]["bak"] # None THEN "dropSrm" ELSE "swapOut"
  BY DEF Ready, raMemcardIn, SwapIn, backup, restore, PutBack, raMemcardOut, swapOut, recoverAfterCrash,
         RaSaves, Backup
<1>7. raMemcardOut("begin") = IF disk[RaSavesOf(game)]["srm"] # None THEN "srmOut" ELSE PutBack
  BY DEF Ready, raMemcardIn, SwapIn, backup, restore, PutBack, raMemcardOut, swapOut, recoverAfterCrash,
         RaSaves, Backup
<1>8. restore("begin", "unJournal") = IF BackupOf(game) \in there THEN "clearOwn" ELSE "unJournal"
  BY DEF Ready, raMemcardIn, SwapIn, backup, restore, PutBack, raMemcardOut, swapOut, recoverAfterCrash,
         RaSaves, Backup
<1>9. \A s : swapOut("begin", s, "unJournal") = IF s \in there THEN "copyOut" ELSE restore("begin", "unJournal")
  BY DEF Ready, raMemcardIn, SwapIn, backup, restore, PutBack, raMemcardOut, swapOut, recoverAfterCrash,
         RaSaves, Backup
<1>10. recoverAfterCrash("recover") =
          IF journal = NoJournal THEN "rest"
          ELSE IF journal.srm /\ disk[RaSavesOf(journal.game)]["srm"] # None THEN "srmOut" ELSE "swapOut"
  BY DEF Ready, raMemcardIn, SwapIn, backup, restore, PutBack, raMemcardOut, swapOut, recoverAfterCrash,
         RaSaves, Backup
<1> QED BY <1>1, <1>2, <1>3, <1>4, <1>5, <1>6, <1>7, <1>8, <1>9, <1>10

\* the stages of the steps
LEMMA StagesOfSteps ==
    ASSUME TypeOK, VisitOK
    PROVE  /\ step \in GoingIn \cup RaIn => stage = "in"
           /\ step \in Writes \cup {"renameDir", "repoint"} => stage = "edit"
           /\ step \in GoingOut \cup {"unJournal", "recover"} => stage \in {"back", "restore"}
           /\ step \in Restoring => stage \in {"in", "back", "restore"}
           /\ step \in {"ini", "row"} => stage \in {"edit", "in"}
           /\ step = "play" => stage = "play"
           /\ step = "rest" => stage = "rest"
<1>1. stage = "rest" \/ stage = "edit" \/ stage = "in" \/ stage = "play" \/ stage \in {"back", "restore"}
  BY DEF TypeOK, Stages
<1> QED BY <1>1 DEF VisitOK, GoingIn, RaIn, GoingOut, Restoring, Writes

\* the orders lead from step to step
LEMMA AfterIsAStep ==
    ASSUME TypeOK, VisitOK, step \notin {"rest", "recover"}
    PROVE  After(step) \in StepNames
<1> DEFINE Into == {"rest", "mkBackup", "backup", "clearIn", "mkIn", "copyIn", "journal", "aside", "raCard",
                    "note", "play", "srmOut", "dropSrm", "bakToSrm", "swapOut", "copyOut", "clearOwn",
                    "mkOwn", "copyOwn", "dropBackup", "unJournal", "ini", "row", "blank", "store", "repoint"}
<1>1. CASE stage = "in"
  <2>1. /\ step \in GoingIn \cup RaIn \cup Restoring \cup {"ini", "row"}
        /\ how \in {"pcsx", "ra"}
    BY <1>1 DEF VisitOK
  <2>2. Ready \in Into /\ SwapIn \in Into /\ backup("begin", SwapIn) \in Into
    <3>1. SwapIn \in Into
      BY Choices
    <3>2. Ready \in Into /\ (backup("begin", SwapIn) = SwapIn \/ backup("begin", SwapIn) = "mkBackup")
      BY Choices
    <3> QED BY <3>1, <3>2
  <2>3. After(step) \in Into
    <3> HIDE DEF Into
    <3>1. {"mkIn", "copyIn", "journal", "backup", "mkOwn", "copyOwn", "dropBackup", "ini", "row", "raCard",
           "note", "play"} \subseteq Into
      BY DEF Into
    <3> QED BY <1>1, <2>1, <2>2, <3>1, AfterIn DEF GoingIn, RaIn, Restoring
  <2> QED BY <2>3 DEF StepNames, Loops, RmDirs, MkDirs
<1>2. CASE stage \in {"back", "restore"}
  <2>1. /\ step \in GoingOut \cup Restoring \cup {"unJournal"}
        /\ how \in {"pcsx", "ra", "recover"}
    BY <1>2 DEF VisitOK
  <2>2. /\ PutBack \in Into /\ restore("begin", "unJournal") \in Into
        /\ \A s : swapOut("begin", s, "unJournal") \in Into
    BY Choices
  <2>3. After(step) \in Into
    <3> HIDE DEF Into
    <3>1. {"bakToSrm", "swapOut", "mkOwn", "copyOwn", "dropBackup", "unJournal", "rest"} \subseteq Into
      BY DEF Into
    <3>2. CASE step = "swapOut"
      BY <1>2, <2>1, <2>2, <3>1, <3>2, AfterOut
    <3> QED BY <1>2, <2>1, <2>2, <3>1, <3>2, AfterOut DEF GoingOut, Restoring
  <2> QED BY <2>3 DEF StepNames, Loops, RmDirs, MkDirs
<1>3. CASE stage = "play"
  BY <1>3, AfterOther, Choices DEF VisitOK, StepNames, Loops, RmDirs, MkDirs
<1>4. CASE stage = "edit"
  BY <1>4, AfterOther DEF VisitOK, Writes, StepNames, Loops, RmDirs, MkDirs
<1> QED BY <1>1, <1>2, <1>3, <1>4 DEF TypeOK, Stages, VisitOK

\* the next operation has what it needs
LEMMA OnType ==
    ASSUME TypeOK, VisitOK, step \notin {"rest", "recover"},
           NEW s \in Sets \cup {SONY, None}, On(s)
    PROVE  /\ stage' \in Stages /\ step' \in StepNames /\ left' \subseteq CardNames
           /\ game' \in Games \cup {None} /\ set' \in Sets \cup {SONY, None}
           /\ name' \in Sets \cup {None} /\ how' \in {"none", "pcsx", "dir", "ra", "recover"}
<1>1. CASE After(step) = "rest"
  BY <1>1 DEF On, Rest, Stages, StepNames
<1>2. CASE After(step) # "rest"
  <2>1. /\ step' = After(step) /\ set' = s /\ left' = ToCopy(After(step), s)
        /\ game' = game /\ name' = name /\ how' = how
        /\ stage' = CASE stage = "in" /\ After(step) = "play" -> "play"
                      [] stage \in {"play", "back"} /\ After(step) \in {"dropSrm", "clearOwn"} -> "restore"
                      [] stage = "play" /\ After(step) \notin {"dropSrm", "clearOwn"} -> "back"
                      [] OTHER -> stage
    BY <1>2 DEF On
  <2>2. stage' \in Stages
    BY <2>1 DEF Stages, TypeOK
  <2>3. ToCopy(After(step), s) \subseteq CardNames
    BY DEF ToCopy, Listed
  <2> QED BY <2>1, <2>2, <2>3, AfterIsAStep DEF TypeOK
<1> QED BY <1>1, <1>2

\* one file is written
LEMMA OneFile ==
    ASSUME NEW R, NEW f \in [Folders -> [FileNames -> R]], NEW d \in Folders, NEW n \in FileNames,
           NEW c \in R, NEW g, g = [f EXCEPT ![d][n] = c]
    PROVE  /\ g \in [Folders -> [FileNames -> R]] /\ g[d][n] = c
           /\ \A e \in Folders, m \in FileNames : e # d \/ m # n => g[e][m] = f[e][m]
           /\ \A e \in Folders : e # d => g[e] = f[e]
OBVIOUS

\* a copy writes one file, or none
LEMMA CopyWrites ==
    ASSUME TypeOK, NEW d \in Folders, NEW n \in FileNames, NEW content \in Content \cup {None},
           Copy(content, d, n)
    PROVE  /\ disk' \in [Folders -> [FileNames -> Content \cup {None}]]
           /\ d \in there => disk'[d][n] = IF content = None THEN Torn ELSE content
           /\ d \notin there => disk' = disk
           /\ \A e \in Folders, m \in FileNames : e # d \/ m # n => disk'[e][m] = disk[e][m]
           /\ \A e \in Folders : e # d => disk'[e] = disk[e]
<1> DEFINE c == IF content = None THEN Torn ELSE content
<1>1. c \in Content \cup {None} /\ disk \in [Folders -> [FileNames -> Content \cup {None}]]
  BY DEF Content, TypeOK
<1>2. CASE d \in there
  <2>1. disk' = [disk EXCEPT ![d][n] = c]
    BY <1>2 DEF Copy
  <2> HIDE DEF c
  <2>2. /\ disk' \in [Folders -> [FileNames -> Content \cup {None}]] /\ disk'[d][n] = c
        /\ \A e \in Folders, m \in FileNames : e # d \/ m # n => disk'[e][m] = disk[e][m]
        /\ \A e \in Folders : e # d => disk'[e] = disk[e]
    BY <1>1, <2>1, OneFile
  <2> QED BY <1>2, <2>2 DEF c
<1>3. CASE d \notin there
  BY <1>1, <1>3 DEF Copy
<1> QED BY <1>2, <1>3

\* the folders of the steps
LEMMA FoldersOfSteps ==
    ASSUME Inv
    PROVE  /\ step \in Loops \ {"blank"} => From(step) \in Folders
           /\ step \in Loops => To(step) \in Folders
           /\ step \in RmDirs \cup MkDirs => Dir(step) \in Folders
           /\ step \in GoingIn \cup RaIn \cup GoingOut \cup Restoring => game \in Games
           /\ step \in RaIn \cup GoingOut \cup Restoring \cup GoingIn =>
                 Memcards \in Folders /\ Backup \in Folders /\ RaSaves \in Folders
           /\ NextCard \in FileNames /\ NextCard \in CardNames
<1>1. step \in GoingIn \cup RaIn \cup GoingOut \cup Restoring \cup {"store"} => game \in Games
  BY StagesOfSteps DEF Inv, VisitOK, GoingIn, RaIn, GoingOut, Restoring, Writes
<1>2. step \in GoingIn \cup RaIn \cup GoingOut \cup Restoring \cup {"store"} =>
          Memcards \in Folders /\ Backup \in Folders /\ RaSaves \in Folders
  BY <1>1, FoldersApart DEF Memcards, Backup, RaSaves
<1>3. step \in {"clearIn", "mkIn", "copyIn", "copyOut"} => set \in Folders
  BY FoldersApart DEF Inv, SetCards, Session, GoingOut
<1>4. step \in Writes => set \in Folders
  BY StagesOfSteps, FoldersApart DEF Inv, VisitOK
<1>5. step \in Loops \ {"blank"} => From(step) \in Folders
  BY <1>2, <1>3 DEF From, Loops, GoingIn, GoingOut, Restoring
<1>6. step \in Loops => To(step) \in Folders
  BY <1>2, <1>3, <1>4 DEF To, Loops, GoingIn, GoingOut, Restoring, Writes
<1>7. step \in RmDirs \cup MkDirs => Dir(step) \in Folders
  BY <1>2, <1>4 DEF Dir, RmDirs, MkDirs, GoingIn, Restoring, Writes
<1> QED BY <1>1, <1>2, <1>5, <1>6, <1>7 DEF NextCard, CardNames, FileNames

\* no step leaves the types
LEMMA TypeStep ==
    ASSUME Inv, Next
    PROVE  TypeOK'
<1> DEFINE Disks == [Folders -> [FileNames -> Content \cup {None}]]
<1>0. TypeOK /\ VisitOK
  BY DEF Inv
<1>1. ASSUME NEW s \in Sets \cup {SONY, None}, On(s), step \notin {"rest", "recover"}
      PROVE  /\ stage' \in Stages /\ step' \in StepNames /\ left' \subseteq CardNames
             /\ game' \in Games \cup {None} /\ set' \in Sets \cup {SONY, None}
             /\ name' \in Sets \cup {None} /\ how' \in {"none", "pcsx", "dir", "ra", "recover"}
  BY <1>0, <1>1, OnType
<1>2. ASSUME Visits PROVE TypeOK'
  <2>1. ASSUME NEW w \in StepNames, NEW s \in Stages, NEW g \in Games \cup {None}, NEW k \in Sets \cup {SONY, None},
               Visit(w, s, g, k),
               saved' \in Disks, damaged' \subseteq Games \cup Sets, name' \in Sets \cup {None},
               how' \in {"none", "pcsx", "dir", "ra", "recover"}
        PROVE  TypeOK'
    BY <1>0, <2>1, MemoryCardsAssumption DEF TypeOK, Visit, files, setOf
  <2>2. NoSaves \in [FileNames -> Content \cup {None}]
    BY DEF NoSaves
  <2>3. {"play", "ini", "swapIn", "mkSet", "rmSet", "renameDir"} \subseteq StepNames
        /\ {"play", "in", "edit"} \subseteq Stages
    BY DEF StepNames, Stages, MkDirs, RmDirs
  <2>4. ASSUME NEW g \in Games, NEW e \in {"pcsx", "ra"}, NEW b \in BOOLEAN, Launch(g, e, b)
        PROVE  TypeOK'
    <3>1. row[g] \in Sets \cup {SONY, None}
      BY <1>0 DEF TypeOK
    <3>2. saved' \in Disks /\ damaged' \subseteq Games \cup Sets /\ name' \in Sets \cup {None}
      BY <1>0, <2>4 DEF Launch, history, TypeOK
    <3>3. \/ Visit("play", "play", g, row[g]) /\ how' = "dir"
          \/ Visit("ini", "in", g, None) /\ how' = e
          \/ Visit("swapIn", "in", g, None) /\ how' = e
      BY <2>4 DEF Launch
    <3> QED BY <2>1, <2>3, <3>1, <3>2, <3>3
  <2>5. ASSUME NEW g \in Games, NEW s \in Sets \cup {SONY}, ChooseCard(g, s)
        PROVE  TypeOK'
    BY <1>0, <2>1, <2>3, <2>5 DEF ChooseCard, Edit, history, TypeOK
  <2>6. ASSUME NEW s \in Sets, createCard(s) \/ removeCard(s)
        PROVE  TypeOK'
    <3>1. saved' \in Disks
      BY <1>0, <2>2, <2>6 DEF createCard, removeCard, history, TypeOK
    <3> QED BY <1>0, <2>1, <2>3, <2>6, <3>1 DEF createCard, removeCard, Edit, history, TypeOK
  <2>7. ASSUME NEW g \in Games, NEW s \in Sets, storeGameCardsAsSet(g, s)
        PROVE  TypeOK'
    <3>1. saved' \in Disks
      BY <1>0, <2>2, <2>7 DEF storeGameCardsAsSet, TypeOK
    <3>2. damaged' \subseteq Games \cup Sets
      BY <1>0, <2>7 DEF storeGameCardsAsSet, TypeOK
    <3> QED BY <1>0, <2>1, <2>3, <2>7, <3>1, <3>2 DEF storeGameCardsAsSet, Edit, TypeOK
  <2>8. ASSUME NEW s \in Sets, NEW t \in Sets, renameCard(s, t)
        PROVE  TypeOK'
    BY <1>0, <2>1, <2>3, <2>8 DEF renameCard, Edit, history, TypeOK
  <2> QED BY <1>2, <2>4, <2>5, <2>6, <2>7, <2>8 DEF Visits
<1>3. ASSUME CopyStep PROVE TypeOK'
  <2>1. disk' \in Disks
    <3>1. CASE left = {}
      BY <1>0, <1>3, <3>1 DEF CopyStep, TypeOK
    <3>2. CASE left # {}
      <4> DEFINE content == IF step = "blank" THEN Blank ELSE disk[From(step)][NextCard]
      <4>1. content \in Content \cup {None} /\ To(step) \in Folders /\ NextCard \in FileNames
        BY <1>0, <1>3, FoldersOfSteps DEF CopyStep, TypeOK, Content
      <4>2. Copy(content, To(step), NextCard)
        BY <1>3, <3>2 DEF CopyStep
      <4> HIDE DEF content
      <4> QED BY <1>0, <4>1, <4>2, CopyWrites
    <3> QED BY <3>1, <3>2
  <2>2. CASE On(set)
    <3>1. step \notin {"rest", "recover"} /\ set \in Sets \cup {SONY, None}
      BY <1>0, <1>3 DEF CopyStep, Loops, TypeOK
    <3> QED BY <1>0, <1>1, <1>3, <2>1, <2>2, <3>1 DEF CopyStep, TypeOK, setOf, history, bounds
  <2>3. CASE ~On(set)
    BY <1>0, <1>3, <2>1, <2>3 DEF CopyStep, TypeOK, setOf, history, bounds, visit
  <2> QED BY <2>2, <2>3
<1>4. ASSUME RmDirStep PROVE TypeOK'
  <2>1. disk' \in Disks
    <3>1. disk \in Disks /\ None \in Content \cup {None} /\ Dir(step) \in Folders
      BY <1>0, <1>4, FoldersOfSteps DEF RmDirStep, TypeOK
    <3>2. disk' = disk \/ \E n \in FileNames : disk' = [disk EXCEPT ![Dir(step)][n] = None]
      BY <1>4 DEF RmDirStep
    <3> QED BY <3>1, <3>2, OneFile
  <2>2. CASE On(set)
    <3>1. step \notin {"rest", "recover"} /\ set \in Sets \cup {SONY, None}
      BY <1>0, <1>4 DEF RmDirStep, RmDirs, TypeOK
    <3> QED BY <1>0, <1>1, <1>4, <2>1, <2>2, <3>1 DEF RmDirStep, TypeOK, setOf, history, bounds
  <2>3. CASE ~On(set)
    BY <1>0, <1>4, <2>1, <2>3 DEF RmDirStep, TypeOK, setOf, history, bounds, work, visit
  <2> QED BY <2>2, <2>3
<1>5. ASSUME CreateDirStep PROVE TypeOK'
  <2>1. step \notin {"rest", "recover"} /\ set \in Sets \cup {SONY, None} /\ Dir(step) \in Folders
    BY <1>0, <1>5, FoldersOfSteps DEF CreateDirStep, MkDirs, TypeOK
  <2> QED BY <1>0, <1>1, <1>5, <2>1 DEF CreateDirStep, TypeOK, setOf, history, bounds
<1>6. ASSUME RenameDirStep PROVE TypeOK'
  <2>1. /\ set \in Sets /\ name \in Sets /\ set \in Folders /\ name \in Folders
        /\ step \notin {"rest", "recover"}
    BY <1>0, <1>6, StagesOfSteps, FoldersApart DEF RenameDirStep, VisitOK
  <2>2. disk' \in Disks /\ saved' \in Disks
    <3>1. disk \in Disks /\ saved \in Disks /\ NoSaves \in [FileNames -> Content \cup {None}]
      BY <1>0 DEF TypeOK, NoSaves
    <3> QED BY <1>6, <2>1, <3>1 DEF RenameDirStep
  <2> QED BY <1>0, <1>1, <1>6, <2>1, <2>2 DEF RenameDirStep, TypeOK, setOf, bounds
<1>7. ASSUME SrmStep PROVE TypeOK'
  <2>1. /\ Memcards \in Folders /\ RaSaves \in Folders /\ step \notin {"rest", "recover"}
        /\ set \in Sets \cup {SONY, None}
    BY <1>0, <1>7, FoldersOfSteps DEF SrmStep, RaIn, GoingOut, TypeOK
  <2>2. {"srm", "bak", "card1"} \subseteq FileNames /\ disk \in Disks
    BY <1>0 DEF FileNames, CardNames, TypeOK
  <2>3. /\ disk[RaSaves]["srm"] \in Content \cup {None} /\ disk[RaSaves]["bak"] \in Content \cup {None}
        /\ disk[Memcards]["card1"] \in Content \cup {None}
    BY <2>1, <2>2
  <2>4. disk' \in Disks
    <3>1. CASE step \in {"aside", "raCard", "srmOut"}
      BY <1>0, <1>7, <2>1, <2>2, <2>3, <3>1, CopyWrites DEF SrmStep
    <3>2. CASE step \in {"dropSrm", "bakToSrm"}
      BY <1>7, <2>1, <2>2, <2>3, <3>2 DEF SrmStep
    <3> QED BY <1>7, <3>1, <3>2 DEF SrmStep
  <2> QED BY <1>0, <1>1, <1>7, <2>1, <2>4 DEF SrmStep, TypeOK, setOf, history, bounds
<1>8. ASSUME RepointStep PROVE TypeOK'
  <2>1. set \in Sets /\ name \in Sets /\ step \notin {"rest", "recover"}
    BY <1>0, <1>8, StagesOfSteps DEF RepointStep, VisitOK
  <2>2. CASE On(set)
    BY <1>0, <1>1, <1>8, <2>1, <2>2 DEF RepointStep, TypeOK, files, history, bounds
  <2>3. CASE ~On(set)
    BY <1>0, <1>8, <2>1, <2>3 DEF RepointStep, TypeOK, files, history, bounds, work, visit
  <2> QED BY <2>2, <2>3
<1>9. ASSUME SetStep PROVE TypeOK'
  <2>1. /\ game \in Games /\ step \notin {"rest", "recover"}
        /\ stage = "edit" => set \in Sets \cup {SONY}
    BY <1>0, <1>9, StagesOfSteps DEF SetStep, VisitOK
  <2>2. ini' \in [Games -> Sets \cup {SONY}] /\ row' \in [Games -> Sets \cup {SONY}]
    BY <1>0, <1>9, <2>1 DEF SetStep, TypeOK
  <2>3. On(IF stage = "edit" THEN set ELSE None)
    BY <1>9 DEF SetStep
  <2>4. (IF stage = "edit" THEN set ELSE None) \in Sets \cup {SONY, None}
    BY <2>1
  <2> QED BY <1>0, <1>1, <1>9, <2>1, <2>2, <2>3, <2>4 DEF SetStep, TypeOK, files, history, bounds
<1>10. ASSUME SwapInStep \/ SwapOutStep \/ JournalStep \/ EndGame PROVE TypeOK'
  <2>1. step \notin {"rest", "recover"} /\ (step # "play" => game \in Games)
    BY <1>0, <1>10, StagesOfSteps
       DEF SwapInStep, SwapOutStep, JournalStep, EndGame, VisitOK, GoingIn, RaIn, GoingOut
  <2>2. game \in Games => SetNamed(game) \in Sets \cup {SONY, None}
    BY <1>0 DEF SetNamed, TypeOK
  <2>3. PICK s \in Sets \cup {SONY, None} : On(s)
    BY <1>0, <1>10, <2>1, <2>2 DEF SwapInStep, SwapOutStep, JournalStep, EndGame, TypeOK
  <2>4. journal' \in Journals
    <3>1. step = "journal" => set \in Sets
      BY DEF Inv, SetCards
    <3>2. journal.set \in Sets \cup {None}
      BY <1>0 DEF TypeOK, Journals, NoJournal
    <3>3. journal \in Journals /\ NoJournal \in Journals
      BY <1>0 DEF TypeOK, Journals
    <3>4. \/ journal' \in {journal, NoJournal}
          \/ step = "journal" /\ journal' = [game |-> game, set |-> set, srm |-> FALSE]
          \/ step = "note" /\ journal' = [game |-> game, set |-> journal.set, srm |-> TRUE]
      BY <1>10 DEF SwapInStep, SwapOutStep, JournalStep, EndGame
    <3>5. CASE step = "journal" /\ journal' = [game |-> game, set |-> set, srm |-> FALSE]
      BY <2>1, <3>1, <3>5 DEF Journals
    <3>6. CASE step = "note" /\ journal' = [game |-> game, set |-> journal.set, srm |-> TRUE]
      BY <2>1, <3>2, <3>6 DEF Journals
    <3> QED BY <3>3, <3>4, <3>5, <3>6
  <2>5. UNCHANGED <<there, disk, ini, row, saved, damaged, saves, visits, cuts>>
    BY <1>10 DEF SwapInStep, SwapOutStep, JournalStep, EndGame, files, setOf, history, bounds
  <2> QED BY <1>0, <1>1, <2>1, <2>3, <2>4, <2>5 DEF TypeOK
<1>11. ASSUME RecoverStep PROVE TypeOK'
  <2>1. CASE journal = NoJournal
    BY <1>0, <1>11, <2>1 DEF RecoverStep, Rest, TypeOK, Stages, StepNames, files, setOf, history, bounds
  <2>2. CASE journal # NoJournal
    <3>1. journal.game \in Games /\ journal.set \in Sets \cup {None}
      BY <1>0, <2>2 DEF TypeOK, Journals
    <3>2. After(step) = recoverAfterCrash("recover")
      BY <1>0, <1>11, StagesOfSteps, AfterOut DEF RecoverStep, VisitOK
    <3>3. After(step) \in StepNames
      BY <2>2, <3>2, Choices DEF StepNames
    <3> QED BY <1>0, <1>11, <2>2, <3>1, <3>3 DEF RecoverStep, TypeOK, files, setOf, history, bounds
  <2> QED BY <2>1, <2>2
<1>12. ASSUME NEW c \in CardNames, SaveInGame(c) PROVE TypeOK'
  <2>1. game \in Games /\ how \in {"pcsx", "dir", "ra"}
    BY <1>0, <1>12, StagesOfSteps DEF SaveInGame, VisitOK
  <2>2. set # None => set \in Sets
    BY <1>12 DEF SaveInGame, Inv, Session
  <2>3. how = "dir" => set # None
    BY <1>12 DEF SaveInGame, Inv, Session
  <2>4. Home \in Folders /\ Slot(c)[1] \in Folders /\ Slot(c)[2] \in FileNames
    BY <2>1, <2>2, <2>3, FoldersApart DEF Home, Slot, Memcards, RaSaves, FileNames, CardNames
  <2>5. saves + 1 \in Content /\ saves' \in 0 .. MaxSaves
    BY <1>0, <1>12, MemoryCardsAssumption DEF SaveInGame, TypeOK, Content
  <2>6. disk' \in Disks /\ saved' \in Disks
    BY <1>0, <1>12, <2>4, <2>5, OneFile DEF SaveInGame, TypeOK, FileNames
  <2> QED BY <1>0, <1>12, <2>5, <2>6 DEF SaveInGame, TypeOK, setOf, work, visit
<1>13. ASSUME PowerCut PROVE TypeOK'
  <2>1. Torn \in Content \cup {None} /\ there \subseteq Folders
    BY <1>0 DEF Content, TypeOK
  <2>2. disk' \in Disks
    <3>1. disk \in Disks
      BY <1>0 DEF TypeOK
    <3>2. disk' = disk \/ \E d \in there, n \in FileNames : disk' = [disk EXCEPT ![d][n] = Torn]
      BY <1>13 DEF PowerCut
    <3>3. ASSUME NEW d \in there, NEW n \in FileNames, disk' = [disk EXCEPT ![d][n] = Torn]
          PROVE  disk' \in Disks
      <4>1. d \in Folders
        BY <2>1
      <4> QED BY <2>1, <3>1, <3>3, <4>1, OneFile
    <3> QED BY <3>1, <3>2, <3>3
  <2>3. stage = "in" => game \in Games
    BY <1>0 DEF VisitOK
  <2> QED BY <1>0, <1>13, <2>2, <2>3, MemoryCardsAssumption DEF PowerCut, TypeOK, Stages, StepNames, setOf
<1> QED BY <1>2, <1>3, <1>4, <1>5, <1>6, <1>7, <1>8, <1>9, <1>10, <1>11, <1>12, <1>13
        DEF Next, Steps, FileSteps

-----------------------------------------------------------------------------
(* What a step leaves alone.                                               *)

\* only the folders of game g and set k are touched
OnlyTouched(g, k) ==
    \A d \in Folders :
       d \notin {MemcardsOf(g), BackupOf(g), RaSavesOf(g), k} =>
          disk'[d] = disk[d] /\ saved'[d] = saved[d] /\ (d \in there' <=> d \in there)

\* a game or a set that is not touched stays fine
LEMMA OthersKept ==
    ASSUME NEW g \in Games, NEW k \in Sets \cup {SONY, None}, OnlyTouched(g, k)
    PROVE  /\ \A h \in Games \ {g} : GameFine(h) => GameFine(h)'
           /\ \A s \in Sets \ {k} : SetFine(s) => SetFine(s)'
<1>1. ASSUME NEW h \in Games \ {g}, GameFine(h) PROVE GameFine(h)'
  <2>1. {MemcardsOf(h), BackupOf(h), RaSavesOf(h)} \subseteq
           Folders \ {MemcardsOf(g), BackupOf(g), RaSavesOf(g), k}
    BY FoldersApart
  <2>2. \A d \in {MemcardsOf(h), BackupOf(h), RaSavesOf(h)} :
           disk'[d] = disk[d] /\ saved'[d] = saved[d] /\ (d \in there' <=> d \in there)
    BY <2>1 DEF OnlyTouched
  <2> QED BY <1>1, <2>2 DEF GameFine, AllIn, Holds, RaOwn
<1>2. ASSUME NEW s \in Sets \ {k}, SetFine(s) PROVE SetFine(s)'
  <2>1. disk'[s] = disk[s] /\ saved'[s] = saved[s] /\ (s \in there' <=> s \in there)
    BY FoldersApart DEF OnlyTouched
  <2> QED BY <1>2, <2>1 DEF SetFine, AllIn, Holds
<1> QED BY <1>1, <1>2

\* what the folders are to hold is what it was
LEMMA SavedShapeKept ==
    ASSUME SavedShape, UNCHANGED saved, \A g \in Games : RaSavesOf(g) \in there'
    PROVE  SavedShape'
BY DEF SavedShape

\* the games and sets a step does not touch stay fine, or are damaged by it
LEMMA FineCut ==
    ASSUME SetsFine, GamesFine, damaged \subseteq damaged',
           NEW g \in Games, NEW k \in Sets \cup {SONY, None}, OnlyTouched(g, k),
           GameAway => InHand = g, SetAway /\ SetInHand \in Sets => SetInHand = k,
           g \notin damaged' => (InHand' = g /\ GameAway') \/ GameFine(g)',
           k \in Sets \ damaged' => (SetInHand' = k /\ SetAway') \/ SetFine(k)'
    PROVE  SetsFine' /\ GamesFine'
<1>1. ASSUME NEW s \in Sets \ damaged' PROVE (s = SetInHand' /\ SetAway') \/ SetFine(s)'
  <2>1. CASE s = k
    BY <2>1
  <2>2. CASE s # k
    BY <2>2, OthersKept DEF SetsFine
  <2> QED BY <2>1, <2>2
<1>2. ASSUME NEW h \in Games \ damaged' PROVE (h = InHand' /\ GameAway') \/ GameFine(h)'
  <2>1. CASE h = g
    BY <2>1
  <2>2. CASE h # g
    BY <2>2, OthersKept DEF GamesFine
  <2> QED BY <2>1, <2>2
<1> QED BY <1>1, <1>2 DEF SetsFine, GamesFine

\* the same, where none is damaged
LEMMA FineStep ==
    ASSUME SetsFine, GamesFine, UNCHANGED damaged,
           NEW g \in Games, NEW k \in Sets \cup {SONY, None}, OnlyTouched(g, k),
           GameAway => InHand = g, SetAway /\ SetInHand \in Sets => SetInHand = k,
           g \notin damaged => (InHand' = g /\ GameAway') \/ GameFine(g)',
           k \in Sets \ damaged => (SetInHand' = k /\ SetAway') \/ SetFine(k)'
    PROVE  SetsFine' /\ GamesFine'
BY FineCut

-----------------------------------------------------------------------------
(* The cards in.                                                           *)

\* the game's own cards into backup/
LEMMA BackupStep ==
    ASSUME Inv, TypeOK', CopyStep, step = "backup"
    PROVE  Inv'
<1>0. TypeOK /\ SavedShape /\ VisitOK /\ Session /\ JournalOK /\ SetsFine /\ GamesFine /\ OwnCards
  BY DEF Inv
<1>1. stage = "in" /\ game \in Games /\ how \in {"pcsx", "ra"} /\ set = SetNamed(game) /\ set # None
      /\ journal = NoJournal
  BY <1>0, StagesOfSteps DEF VisitOK, Session, JournalOK, GoingIn
<1>2. UNCHANGED <<there, ini, row, journal, saved, damaged>>
  BY DEF CopyStep, setOf, history
<1>3. CASE left # {}
  <2>1. /\ UNCHANGED <<stage, step, game, set, name, how>> /\ left' = left \ {NextCard}
        /\ Copy(disk[MemcardsOf(game)][NextCard], BackupOf(game), NextCard)
    BY <1>3 DEF CopyStep, visit, From, To, Memcards, Backup
  <2>2. /\ \A e \in Folders, m \in FileNames :
              e # BackupOf(game) \/ m # NextCard => disk'[e][m] = disk[e][m]
        /\ \A e \in Folders : e # BackupOf(game) => disk'[e] = disk[e]
        /\ BackupOf(game) \in there =>
              disk'[BackupOf(game)][NextCard] =
                 IF disk[MemcardsOf(game)][NextCard] = None THEN Torn ELSE disk[MemcardsOf(game)][NextCard]
    <3>1. /\ NextCard \in FileNames /\ BackupOf(game) \in Folders
          /\ disk[MemcardsOf(game)][NextCard] \in Content \cup {None}
      BY <1>0, <1>1, FoldersOfSteps, FoldersApart DEF TypeOK
    <3> QED BY <1>0, <2>1, <3>1, CopyWrites
  <2>3. OnlyTouched(game, None)
    BY <1>2, <2>2 DEF OnlyTouched
  <2>4. SavedShape'
    BY <1>0, <1>2, SavedShapeKept DEF SavedShape
  <2>5. VisitOK' /\ Session' /\ JournalOK'
    BY <1>0, <1>1, <1>2, <2>1 DEF VisitOK, Session, JournalOK, JournalFits, SetNamed
  <2>6. SetsFine' /\ GamesFine'
    <3>1. ~Lent /\ ~SetAway /\ InHand' = game /\ InHand = game /\ GameAway'
      BY <2>1 DEF SetAway, GameAway, Lent, Writes, InHand, GoingIn, RaIn, GoingOut, Restoring
    <3> QED BY <1>0, <1>1, <1>2, <2>3, <3>1, FineStep, FoldersApart
  <2>7. WritesOK' /\ SetCards' /\ LentOK'
    BY <1>1, <2>1 DEF WritesOK, SetCards, LentOK, Writes, RaIn, GoingOut
  <2>8. OwnCards'
    BY <1>0, <1>1, <1>2, <2>1, <2>2, FoldersApart
       DEF OwnCards, AllIn, Holds, Memcards, Backup, RaOwn, NextCard, CardNames, FileNames
  <2> QED BY <2>4, <2>5, <2>6, <2>7, <2>8 DEF Inv
<1>4. CASE left = {}
  <2>1. On(set) /\ UNCHANGED disk
    BY <1>4 DEF CopyStep
  <2>2. After(step) = IF row[game] \in there THEN "clearIn" ELSE "clearOwn"
    BY <1>0, <1>1, AfterIn, Choices DEF OwnCards, Backup
  <2>3. /\ step' \in {"clearIn", "clearOwn"} /\ (step' = "clearIn" => row[game] \in there)
        /\ stage' = stage /\ UNCHANGED <<game, set, name, how>>
    BY <1>1, <2>1, <2>2 DEF On
  <2>4. OnlyTouched(game, None)
    BY <1>2, <2>1 DEF OnlyTouched
  <2>5. SavedShape'
    BY <1>0, <1>2, SavedShapeKept DEF SavedShape
  <2>6. VisitOK' /\ Session' /\ JournalOK'
    BY <1>0, <1>1, <1>2, <2>3 DEF VisitOK, Session, JournalOK, JournalFits, SetNamed,
       GoingIn, RaIn, GoingOut, Restoring
  <2>7. SetsFine' /\ GamesFine'
    <3>1. ~Lent /\ ~SetAway /\ InHand' = game /\ InHand = game /\ GameAway'
      BY <2>3 DEF SetAway, GameAway, Lent, Writes, InHand, GoingIn, RaIn, GoingOut, Restoring
    <3> QED BY <1>0, <1>1, <1>2, <2>4, <3>1, FineStep, FoldersApart
  <2>8. WritesOK' /\ LentOK'
    BY <1>1, <2>3 DEF WritesOK, LentOK, Writes, RaIn, GoingOut
  <2>9. SetCards'
    <3>1. step' = "clearIn" => set \in Sets /\ set \in there
      BY <1>0, <1>1, <2>3, FoldersApart DEF SetNamed, TypeOK
    <3> QED BY <1>2, <2>3, <3>1 DEF SetCards
  <2>10. OwnCards'
    BY <1>0, <1>1, <1>2, <1>4, <2>1, <2>3 DEF OwnCards, AllIn, Holds, Memcards, Backup, RaOwn
  <2> QED BY <2>5, <2>6, <2>7, <2>8, <2>9, <2>10 DEF Inv
<1> QED BY <1>3, <1>4

\* the cards are in: the game is next, in RetroArch after the session's card
LEMMA GetReady ==
    ASSUME Inv, TypeOK', stage = "in", step \in GoingIn \cup {"row"}, After(step) = Ready,
           NEW s \in Sets \cup {None}, On(s), UNCHANGED <<there, disk, saved, damaged>>,
           s = SetNamed(game)', s # None => s \in there,
           ~journal'.srm, JournalFits(game, s)',
           Away(game, s), InMemcards(game, s), game \notin damaged => RaOwn(game)
    PROVE  Inv'
<1>0. TypeOK /\ SavedShape /\ VisitOK /\ SetsFine /\ GamesFine
  BY DEF Inv
<1>1. game \in Games /\ how \in {"pcsx", "ra"} /\ step \notin Writes /\ ~Lent
  BY <1>0 DEF VisitOK, Writes, Lent, GoingIn, RaIn, GoingOut
<1>2. /\ step' \in {"play", "aside", "raCard"} /\ set' = s /\ UNCHANGED <<game, how>>
      /\ step' = "play" => how = "pcsx" /\ stage' = "play"
      /\ step' # "play" => how = "ra" /\ stage' = "in"
      /\ step' = "raCard" => ~(disk[RaSavesOf(game)]["bak"] = None /\ disk[RaSavesOf(game)]["srm"] # None)
  <2>1. Ready # "rest"
    BY Choices
  <2> QED BY <1>1, <2>1, Choices DEF On
<1>3. SavedShape'
  BY <1>0, SavedShapeKept DEF SavedShape
<1>4. VisitOK' /\ Session'
  BY <1>0, <1>1, <1>2 DEF VisitOK, Session, GoingIn, RaIn, GoingOut, Restoring, SetNamed
<1>5. JournalOK'
  BY <1>2 DEF JournalOK, GoingIn, RaIn, Restoring, JournalFits
<1>6. SetsFine' /\ GamesFine'
  <2>1. OnlyTouched(game, s)
    BY DEF OnlyTouched
  <2>2. ~SetAway /\ InHand = game /\ InHand' = game /\ SetInHand' = s /\ GameAway' /\ SetAway'
    BY <1>1, <1>2 DEF SetAway, GameAway, Lent, InHand, SetInHand, GoingIn, RaIn
  <2> QED BY <1>0, <1>1, <2>1, <2>2, FineStep
<1>7. WritesOK' /\ OwnCards' /\ SetCards'
  BY <1>2 DEF WritesOK, OwnCards, SetCards, Writes
<1>8. LentOK'
  <2>1. game \notin damaged => step' # "raCard"
    BY <1>2, FoldersApart DEF RaOwn
  <2>2. Away(game, set)' /\ InMemcards(game, set)' /\ (game \notin damaged => RaOwn(game))'
    BY <1>2 DEF Away, InMemcards, Whole, HomeOf, AllIn, Holds, RaOwn
  <2> QED BY <1>2, <2>1, <2>2 DEF LentOK, RaIn, GoingOut
<1> QED BY <1>3, <1>4, <1>5, <1>6, <1>7, <1>8 DEF Inv

\* the first choice of a launch: own cards or a set
LEMMA SwapInKeeps ==
    ASSUME Inv, TypeOK', SwapInStep
    PROVE  Inv'
<1>0. TypeOK /\ SavedShape /\ VisitOK /\ Session /\ JournalOK /\ SetsFine /\ GamesFine
  BY DEF Inv
<1>1. /\ step = "swapIn" /\ On(SetNamed(game)) /\ stage = "in" /\ game \in Games /\ how \in {"pcsx", "ra"}
      /\ journal = NoJournal /\ UNCHANGED <<there, disk, ini, row, journal, saved, damaged>>
  BY <1>0, StagesOfSteps DEF SwapInStep, VisitOK, JournalOK, GoingIn, files, setOf, history
<1>2. ~Lent /\ ~SetAway /\ ~GameAway /\ InHand = game
  BY <1>1 DEF SetAway, GameAway, Lent, Writes, InHand, GoingIn, RaIn, GoingOut, Restoring
<1>3. game \notin damaged => GameFine(game)
  BY <1>0, <1>1, <1>2 DEF GamesFine
<1>4. CASE ini[game] = SONY
  <2>1. SetNamed(game) = None /\ SetNamed(game)' = None /\ After(step) = Ready
    <3>1. After(step) = Ready
      BY <1>1, <1>4, AfterIn
    <3>2. game' = game
      BY <1>1, <3>1, Choices DEF On
    <3> QED BY <1>1, <1>4, <3>1, <3>2 DEF SetNamed
  <2>2. /\ ~journal'.srm /\ JournalFits(game, None)' /\ Away(game, None) /\ InMemcards(game, None)
        /\ game \notin damaged => RaOwn(game)
    BY <1>1, <1>3 DEF JournalFits, NoJournal, Away, InMemcards, Whole, HomeOf, GameFine
  <2> QED BY <1>1, <2>1, <2>2, GetReady DEF GoingIn
<1>5. CASE ini[game] # SONY
  <2>1. SetNamed(game) = row[game] /\ row[game] # None
    BY <1>0, <1>1, <1>5, FoldersApart DEF SetNamed, TypeOK
  <2>2. /\ step' \in {"mkBackup", "clearIn", "clearOwn"}
        /\ step' = "mkBackup" <=> BackupOf(game) \notin there
        /\ step' = "clearIn" => row[game] \in there
        /\ stage' = "in" /\ UNCHANGED <<game, how, name>> /\ set' = row[game]
    <3>1. After(step) = IF BackupOf(game) \notin there THEN "mkBackup"
                        ELSE IF row[game] \in there THEN "clearIn" ELSE "clearOwn"
      BY <1>1, <1>5, AfterIn, Choices
    <3> QED BY <1>1, <2>1, <3>1 DEF On
  <2>3. SavedShape'
    BY <1>0, <1>1, SavedShapeKept DEF SavedShape
  <2>4. VisitOK' /\ Session' /\ JournalOK'
    BY <1>0, <1>1, <2>1, <2>2
       DEF VisitOK, Session, JournalOK, JournalFits, SetNamed, GoingIn, RaIn, GoingOut, Restoring
  <2>5. SetsFine' /\ GamesFine'
    <3>1. OnlyTouched(game, None)
      BY <1>1 DEF OnlyTouched
    <3>2. \A g \in Games : g = game /\ g \notin damaged => GameFine(g)'
      BY <1>1, <1>3 DEF GameFine, AllIn, Holds, RaOwn
    <3> QED BY <1>0, <1>1, <1>2, <3>1, <3>2, FineStep, FoldersApart
  <2>6. game \notin damaged => step' = "mkBackup"
    BY <1>3, <2>2 DEF GameFine
  <2>7. WritesOK' /\ OwnCards' /\ LentOK'
    BY <1>1, <2>2, <2>6 DEF WritesOK, OwnCards, LentOK, Writes, RaIn, GoingOut, Backup
  <2>8. SetCards'
    <3>1. step' = "clearIn" => row[game] \in Sets
      BY <1>0, <1>1, <2>2, FoldersApart DEF TypeOK
    <3> QED BY <1>1, <2>2, <3>1 DEF SetCards
  <2> QED BY <2>3, <2>4, <2>5, <2>7, <2>8 DEF Inv
<1> QED BY <1>4, <1>5

\* a folder removed, a file at a time
LEMMA RmDirTouches ==
    ASSUME Inv, RmDirStep
    PROVE  /\ \A e \in Folders : e # Dir(step) => disk'[e] = disk[e] /\ (e \in there' <=> e \in there)
           /\ there' \subseteq there
           /\ \/ there' = there /\ UNCHANGED <<stage, step, left, game, set, name, how>>
              \/ there' = there \ {Dir(step)} /\ disk' = disk /\ On(set)
           /\ UNCHANGED <<ini, row, journal, saved, damaged>>
<1>1. disk \in [Folders -> [FileNames -> Content \cup {None}]]
  BY DEF Inv, TypeOK
<1>2. \/ /\ \E n \in FileNames : disk' = [disk EXCEPT ![Dir(step)][n] = None]
         /\ there' = there /\ UNCHANGED <<stage, step, left, game, set, name, how>>
      \/ there' = there \ {Dir(step)} /\ disk' = disk /\ On(set)
  BY DEF RmDirStep, work, visit
<1>3. \A e \in Folders : e # Dir(step) => disk'[e] = disk[e]
  BY <1>1, <1>2
<1> QED BY <1>2, <1>3 DEF RmDirStep, setOf, history

\* backup/ is made
LEMMA MkBackupKeeps ==
    ASSUME Inv, TypeOK', CreateDirStep, step = "mkBackup"
    PROVE  Inv'
<1>0. TypeOK /\ SavedShape /\ VisitOK /\ Session /\ JournalOK /\ SetsFine /\ GamesFine
  BY DEF Inv
<1>1. /\ On(set) /\ stage = "in" /\ game \in Games /\ how \in {"pcsx", "ra"} /\ set # None /\ set = SetNamed(game)
      /\ journal = NoJournal /\ there' = there \cup {BackupOf(game)}
      /\ UNCHANGED <<disk, ini, row, journal, saved, damaged>>
  BY <1>0, StagesOfSteps
     DEF CreateDirStep, Dir, Backup, VisitOK, Session, JournalOK, GoingIn, setOf, history
<1>2. step' = "backup" /\ stage' = "in" /\ UNCHANGED <<game, set, how, name>> /\ left' = Listed(MemcardsOf(game))
  BY <1>0, <1>1, AfterIn DEF On, ToCopy, Memcards
<1>3. ~Lent /\ ~SetAway /\ ~GameAway /\ InHand = game /\ InHand' = game /\ GameAway'
  BY <1>1, <1>2 DEF SetAway, GameAway, Lent, Writes, InHand, GoingIn, RaIn, GoingOut, Restoring
<1>4. game \notin damaged => GameFine(game)
  BY <1>0, <1>1, <1>3 DEF GamesFine
<1>5. SavedShape'
  BY <1>0, <1>1, SavedShapeKept DEF SavedShape
<1>6. VisitOK' /\ Session' /\ JournalOK'
  BY <1>0, <1>1, <1>2
     DEF VisitOK, Session, JournalOK, JournalFits, SetNamed, GoingIn, RaIn, GoingOut, Restoring
<1>7. SetsFine' /\ GamesFine'
  <2>1. OnlyTouched(game, None)
    BY <1>1 DEF OnlyTouched
  <2> QED BY <1>0, <1>1, <1>3, <2>1, FineStep, FoldersApart
<1>8. WritesOK' /\ SetCards' /\ LentOK'
  BY <1>2 DEF WritesOK, SetCards, LentOK, Writes, RaIn, GoingOut
<1>9. OwnCards'
  <2>1. game \notin damaged => CardNames \ Listed(MemcardsOf(game)) = {}
    BY <1>4 DEF GameFine, AllIn, Holds, Listed
  <2> QED BY <1>1, <1>2, <1>4, <2>1 DEF OwnCards, GameFine, AllIn, Holds, Memcards, Backup, RaOwn
<1> QED BY <1>5, <1>6, <1>7, <1>8, <1>9 DEF Inv

\* memcards/ is emptied, the folder made again
LEMMA ClearInKeeps ==
    ASSUME Inv, TypeOK', (RmDirStep /\ step = "clearIn") \/ (CreateDirStep /\ step = "mkIn")
    PROVE  Inv'
<1>0. TypeOK /\ SavedShape /\ VisitOK /\ Session /\ JournalOK /\ SetsFine /\ GamesFine /\ OwnCards /\ SetCards
  BY DEF Inv
<1>1. /\ stage = "in" /\ game \in Games /\ how \in {"pcsx", "ra"} /\ set # None /\ set = SetNamed(game)
      /\ set \in Sets /\ set \in there /\ journal = NoJournal /\ Dir(step) = MemcardsOf(game)
  BY <1>0, StagesOfSteps DEF VisitOK, Session, JournalOK, SetCards, GoingIn, Dir, Memcards
<1>2. /\ \A e \in Folders : e # MemcardsOf(game) => disk'[e] = disk[e] /\ (e \in there' <=> e \in there)
      /\ \/ UNCHANGED <<stage, step, left, game, set, name, how>> /\ step = "clearIn"
         \/ On(set) /\ disk' = disk /\ (step = "mkIn" => MemcardsOf(game) \in there')
      /\ UNCHANGED <<ini, row, journal, saved, damaged>>
  BY <1>1, RmDirTouches DEF CreateDirStep, setOf, history
<1>3. /\ stage' = "in" /\ UNCHANGED <<game, set, how, name>>
      /\ \/ step' \in {"clearIn", "mkIn"}
         \/ step' = "copyIn" /\ MemcardsOf(game) \in there' /\ left' = Listed(set) /\ disk' = disk
  BY <1>0, <1>1, <1>2, AfterIn DEF On, ToCopy
<1>4. ~Lent /\ ~SetAway /\ InHand = game /\ InHand' = game /\ GameAway'
  BY <1>1, <1>3 DEF SetAway, GameAway, Lent, Writes, InHand, GoingIn, RaIn, GoingOut, Restoring
<1>5. SavedShape'
  BY <1>0, <1>1, <1>2, SavedShapeKept, FoldersApart DEF SavedShape
<1>6. VisitOK' /\ Session' /\ JournalOK'
  BY <1>0, <1>1, <1>2, <1>3
     DEF VisitOK, Session, JournalOK, JournalFits, SetNamed, GoingIn, RaIn, GoingOut, Restoring
<1>7. SetsFine' /\ GamesFine'
  <2>1. OnlyTouched(game, None)
    BY <1>2 DEF OnlyTouched
  <2> QED BY <1>0, <1>1, <1>2, <1>4, <2>1, FineStep, FoldersApart
<1>8. WritesOK' /\ LentOK'
  BY <1>3 DEF WritesOK, LentOK, Writes, RaIn, GoingOut
<1>9. OwnCards'
  BY <1>0, <1>1, <1>2, <1>3, FoldersApart DEF OwnCards, AllIn, Holds, Memcards, Backup, RaOwn
<1>10. SetCards'
  <2>1. set \in there'
    BY <1>1, <1>2, FoldersApart
  <2>2. set \notin damaged => CardNames \ Listed(set) = {}
    BY <1>0, <1>1, <1>4 DEF SetsFine, SetFine, AllIn, Holds, Listed
  <2> QED BY <1>1, <1>2, <1>3, <2>1, <2>2 DEF SetCards, AllIn, Memcards
<1> QED BY <1>5, <1>6, <1>7, <1>8, <1>9, <1>10 DEF Inv

\* the set's cards into memcards/
LEMMA CopyInKeeps ==
    ASSUME Inv, TypeOK', CopyStep, step = "copyIn"
    PROVE  Inv'
<1>0. TypeOK /\ SavedShape /\ VisitOK /\ Session /\ JournalOK /\ SetsFine /\ GamesFine /\ OwnCards /\ SetCards
  BY DEF Inv
<1>1. /\ stage = "in" /\ game \in Games /\ how \in {"pcsx", "ra"} /\ set # None /\ set = SetNamed(game)
      /\ set \in Sets /\ set \in there /\ journal = NoJournal /\ MemcardsOf(game) \in there
  BY <1>0, StagesOfSteps DEF VisitOK, Session, JournalOK, SetCards, GoingIn, Memcards
<1>2. UNCHANGED <<there, ini, row, journal, saved, damaged>>
  BY DEF CopyStep, setOf, history
<1>3. ~Lent /\ ~SetAway /\ InHand = game
  BY DEF SetAway, GameAway, Lent, Writes, InHand, GoingIn, RaIn, GoingOut, Restoring
<1>4. set \notin damaged => SetFine(set) /\ AllIn(set, set, CardNames)
  BY <1>0, <1>1, <1>3 DEF SetsFine, SetFine
<1>5. /\ \A e \in Folders : e # MemcardsOf(game) => disk'[e] = disk[e]
      /\ stage' = "in" /\ UNCHANGED <<game, set, name, how>>
      /\ \/ /\ left # {} /\ step' = "copyIn" /\ left' = left \ {NextCard}
            /\ \A m \in FileNames : m # NextCard => disk'[MemcardsOf(game)][m] = disk[MemcardsOf(game)][m]
            /\ disk[set][NextCard] # None => disk'[MemcardsOf(game)][NextCard] = disk[set][NextCard]
         \/ left = {} /\ step' = "journal" /\ disk' = disk
  <2>1. CASE left # {}
    <3>1. /\ NextCard \in FileNames /\ MemcardsOf(game) \in Folders
          /\ disk[set][NextCard] \in Content \cup {None}
      BY <1>0, <1>1, FoldersOfSteps, FoldersApart DEF TypeOK
    <3>2. /\ UNCHANGED <<stage, step, game, set, name, how>> /\ left' = left \ {NextCard}
          /\ Copy(disk[set][NextCard], MemcardsOf(game), NextCard)
      BY <2>1 DEF CopyStep, visit, From, To, Memcards
    <3> QED BY <1>0, <1>1, <2>1, <3>1, <3>2, CopyWrites
  <2>2. CASE left = {}
    BY <1>0, <1>1, <2>2, AfterIn DEF CopyStep, On
  <2> QED BY <2>1, <2>2
<1>6. SavedShape'
  BY <1>0, <1>2, SavedShapeKept DEF SavedShape
<1>7. VisitOK' /\ Session' /\ JournalOK'
  BY <1>0, <1>1, <1>2, <1>5
     DEF VisitOK, Session, JournalOK, JournalFits, SetNamed, GoingIn, RaIn, GoingOut, Restoring
<1>8. SetsFine' /\ GamesFine'
  <2>1. OnlyTouched(game, None)
    BY <1>2, <1>5 DEF OnlyTouched
  <2>2. InHand' = game /\ GameAway'
    BY <1>5 DEF GameAway, InHand, GoingIn
  <2> QED BY <1>0, <1>1, <1>2, <1>3, <2>1, <2>2, FineStep, FoldersApart
<1>9. WritesOK' /\ LentOK'
  BY <1>5 DEF WritesOK, LentOK, Writes, RaIn, GoingOut
<1>10. OwnCards'
  BY <1>0, <1>1, <1>2, <1>5, FoldersApart DEF OwnCards, AllIn, Holds, Memcards, Backup, RaOwn
<1>11. SetCards'
  <2>1. ASSUME set \notin damaged, NEW c \in CardNames, step' = "copyIn" => c \notin left'
        PROVE  Holds(set, c, MemcardsOf(game), c)'
    <3>1. disk[set][c] # None /\ (saved[set][c] # None => disk[set][c] = saved[set][c]) /\ c \in FileNames
      BY <1>4, <2>1 DEF AllIn, Holds, FileNames
    <3>2. c \notin left => Holds(set, c, MemcardsOf(game), c)
      BY <1>0, <2>1 DEF SetCards, AllIn, Memcards
    <3>3. /\ c \notin left => disk[MemcardsOf(game)][c] # None
          /\ c \notin left => (saved[set][c] # None => disk[MemcardsOf(game)][c] = saved[set][c])
      BY <3>2 DEF Holds
    <3>4. /\ disk'[MemcardsOf(game)][c] # None
          /\ saved[set][c] # None => disk'[MemcardsOf(game)][c] = saved[set][c]
      BY <1>5, <2>1, <3>1, <3>3
    <3> QED BY <1>2, <1>5, <3>4 DEF Holds
  <2> QED BY <1>1, <1>2, <1>5, <2>1 DEF SetCards, AllIn, Memcards
<1> QED BY <1>6, <1>7, <1>8, <1>9, <1>10, <1>11 DEF Inv

\* the cards are in: the journal says so
LEMMA JournalKeeps ==
    ASSUME Inv, TypeOK', JournalStep, step = "journal"
    PROVE  Inv'
<1>0. TypeOK /\ SavedShape /\ VisitOK /\ Session /\ JournalOK /\ SetsFine /\ GamesFine /\ OwnCards /\ SetCards
  BY DEF Inv
<1>1. /\ stage = "in" /\ game \in Games /\ how \in {"pcsx", "ra"} /\ set # None /\ set = SetNamed(game)
      /\ set \in Sets /\ set \in there /\ MemcardsOf(game) \in there /\ BackupOf(game) \in there
      /\ On(set) /\ UNCHANGED <<there, disk, ini, row, saved, damaged>>
      /\ journal' = [game |-> game, set |-> set, srm |-> FALSE]
  BY <1>0, StagesOfSteps
     DEF VisitOK, Session, SetCards, OwnCards, GoingIn, Memcards, Backup, JournalStep, files, setOf, history
<1>2. After(step) = Ready
  BY <1>1, AfterIn
<1>3. set \notin damaged => SetFine(set)
  BY <1>0, <1>1 DEF SetsFine, SetAway, Lent, Writes, RaIn, GoingOut
<1> SUFFICES ASSUME NEW s \in Sets, s = set PROVE Inv'
  BY <1>1
<1>4. /\ s = SetNamed(game)' /\ ~journal'.srm /\ JournalFits(game, s)'
  <2>1. UNCHANGED <<game, set>>
    BY <1>1, <1>2, Choices DEF On
  <2> QED BY <1>1, <2>1 DEF SetNamed, JournalFits
<1>5. Away(game, set) /\ InMemcards(game, set) /\ (game \notin damaged => RaOwn(game))
  BY <1>0, <1>1, <1>3
     DEF Away, InMemcards, Whole, HomeOf, OwnCards, SetCards, SetFine, AllIn, Holds, Memcards, Backup
<1> QED BY <1>1, <1>2, <1>4, <1>5, GetReady DEF GoingIn

\* a set that is gone, or not whole enough: the game on its own cards
LEMMA FallBackKeeps ==
    ASSUME Inv, TypeOK', SetStep, stage = "in"
    PROVE  Inv'
<1>0. TypeOK /\ SavedShape /\ VisitOK /\ Session /\ JournalOK /\ SetsFine /\ GamesFine
  BY DEF Inv
<1>1. /\ step \in {"ini", "row"} /\ game \in Games /\ how \in {"pcsx", "ra"} /\ On(None)
      /\ journal = NoJournal /\ UNCHANGED <<there, disk, journal, saved, damaged>>
      /\ step = "ini" => ini' = [ini EXCEPT ![game] = SONY]
      /\ step = "row" => ini' = ini
  BY <1>0 DEF SetStep, VisitOK, JournalOK, files, history
<1>2. ~Lent /\ ~SetAway /\ ~GameAway /\ InHand = game
  BY <1>1 DEF SetAway, GameAway, Lent, Writes, InHand, GoingIn, RaIn, GoingOut, Restoring
<1>3. game \notin damaged => GameFine(game)
  BY <1>0, <1>1, <1>2 DEF GamesFine
<1>4. CASE step = "ini"
  <2>1. /\ step' = "row" /\ stage' = "in" /\ UNCHANGED <<game, how, name>> /\ set' = None
        /\ ini'[game] = SONY
    BY <1>0, <1>1, <1>4, AfterIn DEF On, TypeOK
  <2>2. SavedShape'
    BY <1>0, <1>1, SavedShapeKept DEF SavedShape
  <2>3. VisitOK' /\ Session' /\ JournalOK'
    BY <1>0, <1>1, <2>1
       DEF VisitOK, Session, JournalOK, JournalFits, SetNamed, GoingIn, RaIn, GoingOut, Restoring, Writes
  <2>4. SetsFine' /\ GamesFine'
    <3>1. OnlyTouched(game, None)
      BY <1>1 DEF OnlyTouched
    <3>2. \A g \in Games : g = game /\ g \notin damaged => GameFine(g)'
      BY <1>1, <1>3 DEF GameFine, AllIn, Holds, RaOwn
    <3> QED BY <1>0, <1>1, <1>2, <3>1, <3>2, FineStep, FoldersApart
  <2>5. WritesOK' /\ OwnCards' /\ SetCards' /\ LentOK'
    BY <2>1 DEF WritesOK, OwnCards, SetCards, LentOK, Writes, RaIn, GoingOut
  <2> QED BY <2>2, <2>3, <2>4, <2>5 DEF Inv
<1>5. CASE step = "row"
  <2>1. After(step) = Ready
    BY <1>1, <1>5, AfterIn
  <2>2. ini[game] = SONY
    BY <1>0, <1>5 DEF Session
  <2>3. None = SetNamed(game)' /\ ~journal'.srm /\ JournalFits(game, None)'
    <3>1. UNCHANGED game
      BY <1>1, <2>1, Choices DEF On
    <3> QED BY <1>1, <1>5, <2>2, <3>1 DEF SetNamed, JournalFits, NoJournal
  <2>4. Away(game, None) /\ InMemcards(game, None) /\ (game \notin damaged => RaOwn(game))
    BY <1>3 DEF Away, InMemcards, Whole, HomeOf, GameFine
  <2> QED BY <1>1, <1>5, <2>1, <2>3, <2>4, GetReady
<1> QED BY <1>1, <1>4, <1>5

-----------------------------------------------------------------------------
(* The game's own cards back.                                              *)

\* memcards/ is emptied, the folder made again
LEMMA ClearOwnKeeps ==
    ASSUME Inv, TypeOK', (RmDirStep /\ step = "clearOwn") \/ (CreateDirStep /\ step = "mkOwn")
    PROVE  Inv'
<1>0. TypeOK /\ SavedShape /\ VisitOK /\ Session /\ JournalOK /\ SetsFine /\ GamesFine /\ OwnCards
  BY DEF Inv
<1>1. /\ stage \in {"in", "restore"} /\ game \in Games /\ how \in {"pcsx", "ra", "recover"}
      /\ stage = "in" => how # "recover"
      /\ Dir(step) = MemcardsOf(game)
  BY <1>0, StagesOfSteps DEF VisitOK, Restoring, Dir, Memcards
<1>2. /\ \A e \in Folders : e # MemcardsOf(game) => disk'[e] = disk[e] /\ (e \in there' <=> e \in there)
      /\ \/ UNCHANGED <<stage, step, left, game, set, name, how>> /\ step = "clearOwn"
         \/ On(set) /\ disk' = disk /\ (step = "mkOwn" => MemcardsOf(game) \in there')
      /\ UNCHANGED <<ini, row, journal, saved, damaged>>
  BY <1>1, RmDirTouches DEF CreateDirStep, setOf, history
<1>3. /\ UNCHANGED <<stage, game, set, how, name>>
      /\ \/ step' \in {"clearOwn", "mkOwn"}
         \/ step' = "copyOwn" /\ MemcardsOf(game) \in there' /\ left' = Listed(BackupOf(game)) /\ disk' = disk
  BY <1>0, <1>1, <1>2, AfterIn, AfterOut DEF On, ToCopy, Backup
<1>4. ~Lent /\ ~SetAway /\ InHand = game /\ InHand' = game /\ GameAway'
  BY <1>1, <1>3 DEF SetAway, GameAway, Lent, Writes, InHand, GoingIn, RaIn, GoingOut, Restoring
<1>5. SavedShape'
  BY <1>0, <1>1, <1>2, SavedShapeKept, FoldersApart DEF SavedShape
<1>6. VisitOK' /\ Session' /\ JournalOK'
  BY <1>0, <1>1, <1>2, <1>3
     DEF VisitOK, Session, JournalOK, JournalFits, SetNamed, GoingIn, RaIn, GoingOut, Restoring
<1>7. SetsFine' /\ GamesFine'
  <2>1. OnlyTouched(game, None)
    BY <1>2 DEF OnlyTouched
  <2> QED BY <1>0, <1>1, <1>2, <1>4, <2>1, FineStep, FoldersApart
<1>8. WritesOK' /\ LentOK' /\ SetCards'
  BY <1>3 DEF WritesOK, LentOK, SetCards, Writes, RaIn, GoingOut
<1>9. OwnCards'
  <2>1. game \notin damaged => CardNames \ Listed(BackupOf(game)) = {}
    BY <1>0, <1>2 DEF OwnCards, AllIn, Holds, Listed, Backup, RmDirStep, CreateDirStep
  <2> QED BY <1>0, <1>1, <1>2, <1>3, <2>1, FoldersApart
          DEF OwnCards, AllIn, Holds, Memcards, Backup, RaOwn
<1> QED BY <1>5, <1>6, <1>7, <1>8, <1>9 DEF Inv

\* the game's own cards out of backup/
LEMMA CopyOwnKeeps ==
    ASSUME Inv, TypeOK', CopyStep, step = "copyOwn"
    PROVE  Inv'
<1>0. TypeOK /\ SavedShape /\ VisitOK /\ Session /\ JournalOK /\ SetsFine /\ GamesFine /\ OwnCards
  BY DEF Inv
<1>1. /\ stage \in {"in", "restore"} /\ game \in Games /\ how \in {"pcsx", "ra", "recover"}
      /\ stage = "in" => how # "recover"
  BY <1>0, StagesOfSteps DEF VisitOK, Restoring
<1>2. UNCHANGED <<there, ini, row, journal, saved, damaged>>
  BY DEF CopyStep, setOf, history
<1>3. ~Lent /\ ~SetAway /\ InHand = game
  BY DEF SetAway, GameAway, Lent, Writes, InHand, GoingIn, RaIn, GoingOut, Restoring
<1>4. /\ \A e \in Folders : e # MemcardsOf(game) => disk'[e] = disk[e]
      /\ UNCHANGED <<stage, game, set, name, how>>
      /\ \/ /\ left # {} /\ step' = "copyOwn" /\ left' = left \ {NextCard}
            /\ \A m \in FileNames : m # NextCard => disk'[MemcardsOf(game)][m] = disk[MemcardsOf(game)][m]
            /\ MemcardsOf(game) \in there /\ disk[BackupOf(game)][NextCard] # None =>
                  disk'[MemcardsOf(game)][NextCard] = disk[BackupOf(game)][NextCard]
         \/ left = {} /\ step' = "dropBackup" /\ disk' = disk
  <2>1. CASE left # {}
    <3>1. /\ NextCard \in FileNames /\ MemcardsOf(game) \in Folders
          /\ disk[BackupOf(game)][NextCard] \in Content \cup {None}
      BY <1>0, <1>1, FoldersOfSteps, FoldersApart DEF TypeOK
    <3>2. /\ UNCHANGED <<stage, step, game, set, name, how>> /\ left' = left \ {NextCard}
          /\ Copy(disk[BackupOf(game)][NextCard], MemcardsOf(game), NextCard)
      BY <2>1 DEF CopyStep, visit, From, To, Memcards, Backup
    <3> QED BY <1>0, <1>1, <2>1, <3>1, <3>2, CopyWrites
  <2>2. CASE left = {}
    BY <1>0, <1>1, <2>2, AfterIn, AfterOut DEF CopyStep, On
  <2> QED BY <2>1, <2>2
<1>5. SavedShape'
  BY <1>0, <1>2, SavedShapeKept DEF SavedShape
<1>6. VisitOK' /\ Session' /\ JournalOK'
  BY <1>0, <1>1, <1>2, <1>4
     DEF VisitOK, Session, JournalOK, JournalFits, SetNamed, GoingIn, RaIn, GoingOut, Restoring
<1>7. SetsFine' /\ GamesFine'
  <2>1. OnlyTouched(game, None)
    BY <1>2, <1>4 DEF OnlyTouched
  <2>2. InHand' = game /\ GameAway'
    BY <1>4 DEF GameAway, InHand, Restoring
  <2> QED BY <1>0, <1>1, <1>2, <1>3, <2>1, <2>2, FineStep, FoldersApart
<1>8. WritesOK' /\ LentOK' /\ SetCards'
  BY <1>4 DEF WritesOK, LentOK, SetCards, Writes, RaIn, GoingOut
<1>9. OwnCards'
  <2>1. ASSUME game \notin damaged, NEW c \in CardNames, step' = "copyOwn" => c \notin left'
        PROVE  Holds(MemcardsOf(game), c, MemcardsOf(game), c)'
    <3>1. /\ disk[BackupOf(game)][c] # None /\ MemcardsOf(game) \in there
          /\ saved[MemcardsOf(game)][c] # None => disk[BackupOf(game)][c] = saved[MemcardsOf(game)][c]
          /\ c \in FileNames
      BY <1>0, <2>1 DEF OwnCards, AllIn, Holds, FileNames, Memcards, Backup
    <3>2. c \notin left => Holds(MemcardsOf(game), c, MemcardsOf(game), c)
      BY <1>0, <2>1 DEF OwnCards, AllIn, Memcards
    <3>3. /\ c \notin left => disk[MemcardsOf(game)][c] # None
          /\ c \notin left => (saved[MemcardsOf(game)][c] # None
                               => disk[MemcardsOf(game)][c] = saved[MemcardsOf(game)][c])
      BY <3>2 DEF Holds
    <3>4. /\ disk'[MemcardsOf(game)][c] # None
          /\ saved[MemcardsOf(game)][c] # None => disk'[MemcardsOf(game)][c] = saved[MemcardsOf(game)][c]
      BY <1>4, <2>1, <3>1, <3>3
    <3> QED BY <1>2, <1>4, <3>4 DEF Holds
  <2>2. game \notin damaged => MemcardsOf(game) \in there /\ RaOwn(game)' /\ AllIn(Memcards, Backup, CardNames)'
    BY <1>0, <1>1, <1>2, <1>4, FoldersApart DEF OwnCards, AllIn, Holds, Memcards, Backup, RaOwn
  <2> QED BY <1>0, <1>1, <1>2, <1>4, <2>1, <2>2 DEF OwnCards, AllIn, Memcards, Backup
<1> QED BY <1>5, <1>6, <1>7, <1>8, <1>9 DEF Inv

\* backup/ goes, and the game is fine
LEMMA DropBackupKeeps ==
    ASSUME Inv, TypeOK', RmDirStep, step = "dropBackup"
    PROVE  Inv'
<1>0. TypeOK /\ SavedShape /\ VisitOK /\ Session /\ JournalOK /\ SetsFine /\ GamesFine /\ OwnCards
  BY DEF Inv
<1>1. /\ stage \in {"in", "restore"} /\ game \in Games /\ how \in {"pcsx", "ra", "recover"}
      /\ stage = "in" => how # "recover"
      /\ Dir(step) = BackupOf(game)
  BY <1>0, StagesOfSteps DEF VisitOK, Restoring, Dir, Backup
<1>2. /\ \A e \in Folders : e # BackupOf(game) => disk'[e] = disk[e] /\ (e \in there' <=> e \in there)
      /\ \/ UNCHANGED <<stage, step, left, game, set, name, how>>
         \/ On(set) /\ disk' = disk /\ BackupOf(game) \notin there'
      /\ UNCHANGED <<ini, row, journal, saved, damaged>>
  BY <1>1, RmDirTouches
<1>3. /\ UNCHANGED <<stage, game, set, how, name>>
      /\ \/ step' = "dropBackup"
         \/ step' = (IF stage = "in" THEN "ini" ELSE "unJournal") /\ BackupOf(game) \notin there'
  BY <1>0, <1>1, <1>2, AfterIn, AfterOut DEF On
<1>4. ~Lent /\ ~SetAway /\ InHand = game /\ InHand' = game
  BY <1>1, <1>3 DEF SetAway, GameAway, Lent, Writes, InHand, GoingIn, RaIn, GoingOut, Restoring
<1>5. SavedShape'
  BY <1>0, <1>1, <1>2, SavedShapeKept, FoldersApart DEF SavedShape
<1>6. VisitOK' /\ Session' /\ JournalOK'
  BY <1>0, <1>1, <1>2, <1>3
     DEF VisitOK, Session, JournalOK, JournalFits, SetNamed, GoingIn, RaIn, GoingOut, Restoring, Writes
<1>7. SetsFine' /\ GamesFine'
  <2>1. OnlyTouched(game, None)
    BY <1>2 DEF OnlyTouched
  <2>2. \A g \in Games : g = game /\ g \notin damaged => GameAway' \/ GameFine(g)'
    <3>1. step' = "dropBackup" => GameAway'
      BY DEF GameAway, Restoring
    <3>2. ASSUME NEW g \in Games, g = game, g \notin damaged, step' # "dropBackup" PROVE GameFine(g)'
      BY <1>0, <1>1, <1>2, <1>3, <3>2, FoldersApart DEF OwnCards, GameFine, AllIn, Holds, RaOwn, Memcards
    <3> QED BY <3>1, <3>2
  <2> QED BY <1>0, <1>1, <1>2, <1>4, <2>1, <2>2, FineStep, FoldersApart
<1>8. WritesOK' /\ LentOK' /\ SetCards'
  BY <1>3 DEF WritesOK, LentOK, SetCards, Writes, RaIn, GoingOut
<1>9. OwnCards'
  BY <1>0, <1>1, <1>2, <1>3, FoldersApart DEF OwnCards, AllIn, Holds, Memcards, RaOwn
<1> QED BY <1>5, <1>6, <1>7, <1>8, <1>9 DEF Inv

-----------------------------------------------------------------------------
(* RetroArch's copy of card 1, and the game.                               *)

\* the files of RetroArch's saves are the only ones touched
LEMMA OnlySrm ==
    ASSUME NEW g \in Games, NEW s \in Sets \cup {None}, UNCHANGED <<there, saved, damaged>>,
           \A e \in Folders : e # RaSavesOf(g) => disk'[e] = disk[e]
    PROVE  /\ Away(g, s) => Away(g, s)'
           /\ InMemcards(g, s) => InMemcards(g, s)'
           /\ OnlyTouched(g, s)
<1>1. /\ disk'[MemcardsOf(g)] = disk[MemcardsOf(g)] /\ disk'[BackupOf(g)] = disk[BackupOf(g)]
      /\ s # None => disk'[s] = disk[s]
  BY FoldersApart
<1>2. Away(g, s) => Away(g, s)'
  BY <1>1 DEF Away, AllIn, Holds
<1>3. InMemcards(g, s) => InMemcards(g, s)'
  BY <1>1 DEF InMemcards, Whole, HomeOf, AllIn, Holds
<1> QED BY <1>2, <1>3 DEF OnlyTouched

\* RetroArch's own .srm aside, the session's card in its place
LEMMA RaInKeeps ==
    ASSUME Inv, TypeOK', SrmStep, step \in {"aside", "raCard"}
    PROVE  Inv'
<1>0. TypeOK /\ SavedShape /\ VisitOK /\ Session /\ JournalOK /\ SetsFine /\ GamesFine /\ LentOK
  BY DEF Inv
<1>1. /\ stage = "in" /\ game \in Games /\ how = "ra" /\ set = SetNamed(game)
      /\ set \in Sets \cup {None} /\ (set # None => set \in there) /\ ~journal.srm /\ JournalFits(game, set)
      /\ Away(game, set) /\ InMemcards(game, set) /\ RaSavesOf(game) \in there
      /\ game \notin damaged => IF step = "aside" THEN RaOwn(game) ELSE RaHeld(game)
      /\ On(set) /\ UNCHANGED <<there, ini, row, journal, saved, damaged>>
  BY <1>0, StagesOfSteps
     DEF VisitOK, Session, JournalOK, LentOK, SavedShape, RaIn, SrmStep, setOf, history
<1>2. /\ step' = IF step = "aside" THEN "raCard" ELSE "note"
      /\ stage' = "in" /\ UNCHANGED <<game, set, how, name>>
  BY <1>1, AfterIn DEF On, SrmStep
<1>3. /\ \A e \in Folders : e # RaSavesOf(game) => disk'[e] = disk[e]
      /\ game \notin damaged => RaHeld(game)'
      /\ step = "raCard" => InSrm(game, set)'
  <2>1. /\ RaSavesOf(game) \in Folders /\ MemcardsOf(game) \in Folders /\ {"srm", "bak", "card1"} \subseteq FileNames
        /\ disk \in [Folders -> [FileNames -> Content \cup {None}]]
    BY <1>0, <1>1, FoldersApart DEF FileNames, CardNames, TypeOK
  <2>2. /\ disk[RaSavesOf(game)]["srm"] \in Content \cup {None}
        /\ disk[MemcardsOf(game)]["card1"] \in Content \cup {None}
    BY <2>1
  <2>3. CASE step = "aside"
    <3>1. Copy(disk[RaSavesOf(game)]["srm"], RaSavesOf(game), "bak")
      BY <2>3 DEF SrmStep, RaSaves
    <3>2. /\ disk'[RaSavesOf(game)]["srm"] = disk[RaSavesOf(game)]["srm"]
          /\ \A e \in Folders : e # RaSavesOf(game) => disk'[e] = disk[e]
          /\ disk[RaSavesOf(game)]["srm"] # None =>
                disk'[RaSavesOf(game)]["bak"] = disk[RaSavesOf(game)]["srm"]
      BY <1>0, <1>1, <2>1, <2>2, <3>1, CopyWrites
    <3> QED BY <1>1, <1>2, <2>3, <3>2, FoldersApart DEF RaOwn, RaHeld
  <2>4. CASE step = "raCard"
    <3>1. \/ disk[MemcardsOf(game)]["card1"] = None /\ disk' = disk
          \/ /\ disk[MemcardsOf(game)]["card1"] # None
             /\ Copy(disk[MemcardsOf(game)]["card1"], RaSavesOf(game), "srm")
      BY <2>4 DEF SrmStep, RaSaves, Memcards
    <3>2. /\ disk'[RaSavesOf(game)]["bak"] = disk[RaSavesOf(game)]["bak"]
          /\ \A e \in Folders : e # RaSavesOf(game) => disk'[e] = disk[e]
          /\ disk'[RaSavesOf(game)]["srm"] = IF disk[MemcardsOf(game)]["card1"] # None
                                             THEN disk[MemcardsOf(game)]["card1"]
                                             ELSE disk[RaSavesOf(game)]["srm"]
      BY <1>0, <1>1, <2>1, <2>2, <3>1, CopyWrites
    <3>3. game \notin damaged => RaHeld(game)'
      BY <1>1, <1>2, <2>4, <3>2 DEF RaHeld
    <3>4. MemcardsOf(game) # RaSavesOf(game) /\ MemcardsOf(game) \in Folders
      BY <1>1, FoldersApart
    <3>5. InSrm(game, set)'
      BY <1>1, <1>2, <3>2, <3>4 DEF InSrm, InMemcards, Whole, HomeOf, AllIn, Holds, CardNames
    <3> QED BY <2>4, <3>2, <3>3, <3>5
  <2> QED BY <2>3, <2>4 DEF SrmStep
<1>4. \A g \in Games, s \in Sets \cup {None} :
         g = game /\ s = set => Away(g, s)' /\ InMemcards(g, s)' /\ OnlyTouched(g, s)
  BY <1>1, <1>3, OnlySrm
<1>5. SavedShape'
  BY <1>0, <1>1, SavedShapeKept DEF SavedShape
<1>6. VisitOK' /\ Session' /\ JournalOK'
  BY <1>0, <1>1, <1>2
     DEF VisitOK, Session, JournalOK, JournalFits, SetNamed, GoingIn, RaIn, GoingOut, Restoring
<1>7. SetsFine' /\ GamesFine'
  <2>1. InHand = game /\ SetInHand = set /\ InHand' = game /\ SetInHand' = set /\ GameAway' /\ SetAway'
    BY <1>2 DEF InHand, SetInHand, GameAway, SetAway, Lent, RaIn
  <2> QED BY <1>0, <1>1, <1>4, <2>1, FineStep
<1>8. WritesOK' /\ OwnCards' /\ SetCards'
  BY <1>2 DEF WritesOK, OwnCards, SetCards, Writes
<1>9. LentOK'
  <2>1. Away(game, set)' /\ InMemcards(game, set)'
    BY <1>1, <1>2, <1>4 DEF Away, InMemcards, Whole, HomeOf, AllIn, Holds
  <2> QED BY <1>1, <1>2, <1>3, <2>1 DEF LentOK, RaIn, GoingOut
<1> QED BY <1>5, <1>6, <1>7, <1>8, <1>9 DEF Inv

\* the journal names the session card
LEMMA NoteKeeps ==
    ASSUME Inv, TypeOK', JournalStep, step = "note"
    PROVE  Inv'
<1>0. TypeOK /\ SavedShape /\ VisitOK /\ Session /\ JournalOK /\ SetsFine /\ GamesFine /\ LentOK
  BY DEF Inv
<1>1. /\ stage = "in" /\ game \in Games /\ how = "ra" /\ set = SetNamed(game)
      /\ set \in Sets \cup {None} /\ (set # None => set \in there) /\ journal.set = set
      /\ Away(game, set) /\ InSrm(game, set) /\ (game \notin damaged => RaHeld(game))
      /\ On(set) /\ UNCHANGED <<there, disk, ini, row, saved, damaged>>
      /\ journal' = [game |-> game, set |-> set, srm |-> TRUE]
  <2>1. stage = "in" /\ game \in Games /\ how = "ra"
    BY <1>0, StagesOfSteps DEF VisitOK, RaIn
  <2>2. set = SetNamed(game) /\ set \in Sets \cup {None} /\ (set # None => set \in there)
    BY <1>0, <2>1 DEF Session, RaIn
  <2>3. JournalFits(game, set) /\ ~journal.srm
    BY <1>0 DEF JournalOK, RaIn
  <2>4. journal.set = set
    BY <2>3 DEF JournalFits, NoJournal
  <2>5. Away(game, set) /\ InSrm(game, set) /\ (game \notin damaged => RaHeld(game))
    BY <1>0 DEF LentOK, RaIn
  <2> QED BY <2>1, <2>2, <2>4, <2>5 DEF JournalStep, files, setOf, history
<1>2. step' = "play" /\ stage' = "play" /\ UNCHANGED <<game, set, how, name>>
  BY <1>1, AfterIn DEF On
<1>3. SavedShape'
  BY <1>0, <1>1, SavedShapeKept DEF SavedShape
<1>4. VisitOK' /\ Session' /\ JournalOK'
  BY <1>0, <1>1, <1>2
     DEF VisitOK, Session, JournalOK, JournalFits, SetNamed, GoingIn, RaIn, GoingOut, Restoring
<1>5. SetsFine' /\ GamesFine'
  <2>1. OnlyTouched(game, set)
    BY <1>1 DEF OnlyTouched
  <2>2. InHand = game /\ SetInHand = set /\ InHand' = game /\ SetInHand' = set /\ GameAway' /\ SetAway'
    BY <1>1, <1>2 DEF InHand, SetInHand, GameAway, SetAway, Lent, RaIn
  <2> QED BY <1>0, <1>1, <2>1, <2>2, FineStep
<1>6. WritesOK' /\ OwnCards' /\ SetCards'
  BY <1>2 DEF WritesOK, OwnCards, SetCards, Writes
<1>7. LentOK'
  <2>1. Away(game, set)' /\ InSrm(game, set)' /\ (game \notin damaged => RaHeld(game))'
    BY <1>1, <1>2 DEF Away, InSrm, Whole, HomeOf, AllIn, Holds, RaHeld
  <2> QED BY <1>1, <1>2, <2>1 DEF LentOK, RaIn, GoingOut
<1> QED BY <1>3, <1>4, <1>5, <1>6, <1>7 DEF Inv

\* a save: on the card in play, where the session keeps it
LEMMA SaveKeeps ==
    ASSUME Inv, TypeOK', NEW c \in CardNames, SaveInGame(c)
    PROVE  Inv'
<1>0. TypeOK /\ SavedShape /\ VisitOK /\ Session /\ JournalOK /\ SetsFine /\ GamesFine /\ LentOK
  BY DEF Inv
<1> DEFINE n == saves + 1
<1>1. /\ step = "play" /\ stage = "play" /\ game \in Games /\ how \in {"pcsx", "dir", "ra"}
      /\ set \in Sets \cup {None} /\ (set # None => set \in there) /\ (how = "dir" => set # None)
      /\ UNCHANGED <<there, ini, row, journal, stage, step, left, game, set, name, how, damaged>>
      /\ n # None
  <2>1. n \in 1 .. MaxSaves
    BY <1>0, MemoryCardsAssumption DEF SaveInGame, TypeOK
  <2> QED BY <1>0, <2>1, StagesOfSteps, FoldersApart DEF VisitOK, Session, SaveInGame, setOf, work, visit
<1> HIDE DEF n
<1> DEFINE home == IF set = None THEN MemcardsOf(game) ELSE set
           d == IF how = "dir" THEN set ELSE IF how = "pcsx" THEN MemcardsOf(game) ELSE RaSavesOf(game)
           f == IF how = "ra" THEN "srm" ELSE c
<1>2. /\ home \in Folders /\ d \in Folders /\ c \in FileNames /\ f \in FileNames
      /\ how = "ra" => c = "card1"
  BY <1>1, FoldersApart DEF SaveInGame, Played, FileNames, CardNames
<1>3. /\ disk' = [disk EXCEPT ![d][f] = n] /\ saved' = [saved EXCEPT ![home][c] = n]
  BY <1>1 DEF SaveInGame, Home, Slot, Memcards, RaSaves, n
<1> HIDE DEF home, d, f
<1>4. /\ disk'[d][f] = n /\ saved'[home][c] = n
      /\ \A e \in Folders, m \in FileNames : e # d \/ m # f => disk'[e][m] = disk[e][m]
      /\ \A e \in Folders, m \in FileNames : e # home \/ m # c => saved'[e][m] = saved[e][m]
      /\ \A e \in Folders : e # d => disk'[e] = disk[e]
      /\ \A e \in Folders : e # home => saved'[e] = saved[e]
  BY <1>0, <1>2, <1>3 DEF TypeOK
<1>5. SavedShape'
  <2>1. \A g \in Games : RaSavesOf(g) # home /\ (MemcardsOf(g) = home => set = None /\ g = game)
    BY <1>1, FoldersApart DEF home
  <2>2. {"srm", "bak"} \subseteq FileNames /\ CardNames \subseteq FileNames /\ c \notin {"srm", "bak"}
    BY DEF FileNames, CardNames
  <2>3. \A e \in Folders : saved'[e]["bak"] = saved[e]["bak"] /\ saved'[e]["srm"] = saved[e]["srm"]
    BY <1>4, <2>2
  <2>4. ASSUME NEW g \in Games
        PROVE  /\ \A k \in CardNames : saved'[MemcardsOf(g)][k] # None
               /\ saved'[RaSavesOf(g)] = saved[RaSavesOf(g)]
    <3>1. saved'[RaSavesOf(g)] = saved[RaSavesOf(g)]
      BY <1>4, <2>1, FoldersApart
    <3>2. ASSUME NEW k \in CardNames PROVE saved'[MemcardsOf(g)][k] # None
      <4>1. CASE MemcardsOf(g) = home /\ k = c
        BY <1>1, <1>4, <4>1
      <4>2. CASE ~(MemcardsOf(g) = home /\ k = c)
        <5>1. MemcardsOf(g) \in Folders /\ k \in FileNames
          BY <2>2, FoldersApart
        <5>2. saved'[MemcardsOf(g)][k] = saved[MemcardsOf(g)][k]
          BY <1>4, <4>2, <5>1
        <5> QED BY <1>0, <5>2 DEF SavedShape
      <4> QED BY <4>1, <4>2
    <3> QED BY <3>1, <3>2
  <2> QED BY <1>0, <1>1, <2>3, <2>4, FoldersApart DEF SavedShape
<1>6. VisitOK' /\ Session' /\ JournalOK'
  BY <1>0, <1>1 DEF VisitOK, Session, JournalOK, JournalFits, SetNamed
<1>7. WritesOK' /\ OwnCards' /\ SetCards'
  BY <1>1 DEF WritesOK, OwnCards, SetCards, Writes
<1>8. SetsFine' /\ GamesFine'
  <2>1. OnlyTouched(game, set)
    BY <1>1, <1>4 DEF OnlyTouched, home, d
  <2>2. InHand = game /\ SetInHand = set /\ InHand' = game /\ SetInHand' = set
    BY <1>1 DEF InHand, SetInHand
  <2>3. CASE how # "dir"
    BY <1>0, <1>1, <2>1, <2>2, <2>3, FineStep DEF GameAway, SetAway, Lent
  <2>4. CASE how = "dir"
    <3>1. ~GameAway /\ ~SetAway
      BY <1>1, <2>4 DEF GameAway, SetAway, Lent, GoingIn, RaIn, GoingOut, Restoring, Writes
    <3>2. d = set /\ home = set /\ f = c
      BY <1>1, <2>4 DEF d, home, f
    <3>3. ASSUME NEW g \in Games, g = game, g \notin damaged PROVE GameFine(g)'
      <4>1. GameFine(g)
        BY <1>0, <3>1, <3>3 DEF GamesFine
      <4>2. \A e \in {MemcardsOf(g), BackupOf(g), RaSavesOf(g)} : disk'[e] = disk[e] /\ saved'[e] = saved[e]
        BY <1>1, <1>4, <3>2, FoldersApart
      <4> QED BY <1>1, <4>1, <4>2 DEF GameFine, AllIn, Holds, RaOwn
    <3>4. ASSUME NEW s \in Sets, s = set, s \notin damaged PROVE SetFine(s)'
      <4>1. SetFine(s)
        BY <1>0, <3>1, <3>4 DEF SetsFine
      <4>2. CardNames \subseteq FileNames /\ s \in Folders /\ d = s /\ home = s /\ f = c
        BY <3>2, <3>4, FoldersApart DEF FileNames
      <4>3. s \in there /\ there' = there
        BY <1>1, <2>4, <3>4
      <4>4. ASSUME NEW k \in CardNames PROVE Holds(s, k, s, k)'
        <5>1. k \in FileNames
          BY <4>2
        <5>2. CASE k = c
          <6>1. disk'[s][k] = n /\ saved'[s][k] = n
            BY <1>4, <4>2, <5>2
          <6> QED BY <1>1, <6>1 DEF Holds
        <5>3. CASE k # c
          <6>1. disk'[s][k] = disk[s][k] /\ saved'[s][k] = saved[s][k]
            BY <1>4, <4>2, <5>1, <5>3
          <6>2. Holds(s, k, s, k)
            BY <4>1, <4>3 DEF SetFine, AllIn
          <6> QED BY <6>1, <6>2 DEF Holds
        <5> QED BY <5>2, <5>3
      <4>5. s \in there'
        BY <4>3
      <4>6. AllIn(s, s, CardNames)'
        BY <4>4 DEF AllIn
      <4> QED BY <4>5, <4>6 DEF SetFine
    <3> QED BY <1>0, <1>1, <2>1, <3>1, <3>3, <3>4, FineStep
  <2> QED BY <2>3, <2>4
<1>9. LentOK'
  <2>1. CASE how = "dir"
    BY <1>1, <2>1 DEF LentOK, RaIn, GoingOut
  <2>2. CASE how = "pcsx"
    <3>1. /\ d = MemcardsOf(game) /\ f = c /\ home = HomeOf(game, set)
      BY <2>2 DEF d, f, home, HomeOf
    <3>2. Away(game, set) /\ InMemcards(game, set) /\ (game \notin damaged => RaOwn(game))
      BY <1>0, <1>1, <2>2 DEF LentOK
    <3>3. /\ RaSavesOf(game) # d /\ BackupOf(game) # d /\ set # d
          /\ set # None => MemcardsOf(game) # home
          /\ {MemcardsOf(game), BackupOf(game), RaSavesOf(game)} \subseteq Folders
          /\ set # None => set \in Folders
      BY <1>1, <3>1, FoldersApart DEF HomeOf
    <3>4. Away(game, set)' /\ (game \notin damaged => RaOwn(game))'
      BY <1>1, <1>4, <3>2, <3>3 DEF Away, AllIn, Holds, RaOwn
    <3>5. InMemcards(game, set)'
      <4>1. CardNames \subseteq FileNames
        BY DEF FileNames
      <4>2. home' = home /\ HomeOf(game, set)' = home
        BY <1>1, <3>1 DEF home, HomeOf
      <4> QED BY <1>1, <1>2, <1>4, <3>1, <3>2, <3>3, <4>1, <4>2 DEF InMemcards, Whole, AllIn, Holds
    <3> QED BY <1>1, <2>2, <3>4, <3>5 DEF LentOK, RaIn, GoingOut
  <2>3. CASE how = "ra"
    <3>1. /\ d = RaSavesOf(game) /\ f = "srm" /\ home = HomeOf(game, set) /\ c = "card1"
      BY <1>2, <2>3 DEF d, f, home, HomeOf
    <3>2. Away(game, set) /\ InSrm(game, set) /\ (game \notin damaged => RaHeld(game))
      BY <1>0, <1>1, <2>3 DEF LentOK
    <3>3. /\ MemcardsOf(game) # d /\ BackupOf(game) # d /\ set # d
          /\ set # None => MemcardsOf(game) # home
          /\ {MemcardsOf(game), BackupOf(game), RaSavesOf(game)} \subseteq Folders
          /\ set # None => set \in Folders
      BY <1>1, <3>1, FoldersApart DEF HomeOf
    <3>4. {"srm", "bak", "card1", "card2"} \subseteq FileNames
      BY DEF FileNames, CardNames
    <3>5. Away(game, set)'
      BY <1>1, <1>4, <3>2, <3>3 DEF Away, AllIn, Holds
    <3>6. (game \notin damaged => RaHeld(game))'
      BY <1>1, <1>4, <3>1, <3>2, <3>3, <3>4 DEF RaHeld
    <3>7. InSrm(game, set)'
      <4>1. HomeOf(game, set)' = home
        BY <1>1, <3>1 DEF HomeOf
      <4> QED BY <1>1, <1>2, <1>4, <3>1, <3>2, <3>3, <3>4, <4>1 DEF InSrm, Whole, Holds
    <3> QED BY <1>1, <2>3, <3>5, <3>6, <3>7 DEF LentOK, RaIn, GoingOut
  <2> QED BY <1>1, <2>1, <2>2, <2>3
<1> QED BY <1>5, <1>6, <1>7, <1>8, <1>9 DEF Inv

\* the visit ends, everything where it belongs
LEMMA RestIsFine ==
    ASSUME TypeOK', Rest, journal' = NoJournal, SavedShape', SetsFine', GamesFine'
    PROVE  Inv'
<1>1. VisitOK' /\ Session' /\ JournalOK'
  BY DEF Rest, VisitOK, Session, JournalOK, NoJournal, GoingIn, RaIn, GoingOut, Restoring
<1>2. WritesOK' /\ OwnCards' /\ SetCards' /\ LentOK'
  BY DEF Rest, WritesOK, OwnCards, SetCards, LentOK, Writes, RaIn, GoingOut
<1> QED BY <1>1, <1>2 DEF Inv

\* nothing was away when the visit ends
LEMMA RestKeeps ==
    ASSUME Inv, TypeOK', Rest, UNCHANGED <<there, disk, saved, damaged>>, journal' = NoJournal,
           SetAway => SetInHand \notin Sets, GameAway => InHand \notin Games
    PROVE  Inv'
<1>0. TypeOK /\ SavedShape /\ SetsFine /\ GamesFine
  BY DEF Inv
<1>1. SavedShape'
  BY <1>0, SavedShapeKept DEF SavedShape
<1>2. \A s \in Sets : SetFine(s) => SetFine(s)'
  BY DEF SetFine, AllIn, Holds
<1>3. \A g \in Games : GameFine(g) => GameFine(g)'
  BY DEF GameFine, AllIn, Holds, RaOwn
<1>4. /\ \A s \in Sets \ damaged : SetFine(s)
      /\ \A g \in Games \ damaged : GameFine(g)
  BY <1>0 DEF SetsFine, GamesFine
<1>5. SetsFine' /\ GamesFine'
  BY <1>2, <1>3, <1>4 DEF SetsFine, GamesFine
<1> QED BY <1>1, <1>5, RestIsFine

\* the emulator is gone: the way out begins
LEMMA EndGameKeeps ==
    ASSUME Inv, TypeOK', EndGame
    PROVE  Inv'
<1>0. TypeOK /\ SavedShape /\ VisitOK /\ Session /\ JournalOK /\ SetsFine /\ GamesFine /\ LentOK
  BY DEF Inv
<1>1. /\ step = "play" /\ stage = "play" /\ game \in Games /\ how \in {"pcsx", "dir", "ra"} /\ On(set)
      /\ set \in Sets \cup {None} /\ (set # None => set \in there)
      /\ UNCHANGED <<there, disk, ini, row, journal, saved, damaged>>
  BY <1>0, StagesOfSteps DEF VisitOK, Session, EndGame, files, setOf, history
<1>2. CASE how = "dir"
  <2>1. Rest /\ journal' = NoJournal
    BY <1>0, <1>1, <1>2, AfterOther DEF On, JournalOK
  <2>2. ~GameAway /\ ~SetAway
    BY <1>1, <1>2 DEF GameAway, SetAway, Lent, GoingIn, RaIn, GoingOut, Restoring, Writes
  <2> QED BY <1>1, <2>1, <2>2, RestKeeps
<1>3. CASE how # "dir"
  <2>1. /\ After(step) \in {"swapOut", "srmOut", "dropSrm"}
        /\ how = "pcsx" => After(step) = "swapOut"
        /\ how = "ra" => (After(step) = "srmOut" <=> disk[RaSavesOf(game)]["srm"] # None)
        /\ After(step) = "swapOut" => how = "pcsx" \/ disk[RaSavesOf(game)]["bak"] = None
    BY <1>1, <1>3, AfterOther, Choices
  <2>2. /\ step' = After(step) /\ UNCHANGED <<game, set, how, name>>
        /\ stage' = IF step' = "dropSrm" THEN "restore" ELSE "back"
    BY <1>1, <2>1 DEF On
  <2>3. /\ Away(game, set) /\ (how = "pcsx" => InMemcards(game, set)) /\ (how = "ra" => InSrm(game, set))
        /\ game \notin damaged => IF how = "ra" THEN RaHeld(game) ELSE RaOwn(game)
    BY <1>0, <1>1, <1>3 DEF LentOK
  <2>4. /\ (journal.srm <=> how = "ra") /\ JournalFits(game, set) /\ set = SetNamed(game)
    BY <1>0, <1>1, <1>3 DEF JournalOK, Session
  <2>5. SavedShape'
    BY <1>0, <1>1, SavedShapeKept DEF SavedShape
  <2>6. game \notin damaged /\ how = "ra" => step' = "srmOut"
    BY <2>1, <2>2, <2>3 DEF RaHeld
  <2>7. VisitOK' /\ Session'
    BY <1>0, <1>1, <1>3, <2>1, <2>2, <2>4
       DEF VisitOK, Session, SetNamed, GoingIn, RaIn, GoingOut, Restoring
  <2>8. JournalOK'
    BY <1>1, <1>3, <2>1, <2>2, <2>4, <2>6 DEF JournalOK, JournalFits, GoingIn, RaIn, Restoring
  <2>9. SetsFine' /\ GamesFine'
    <3>1. OnlyTouched(game, set)
      BY <1>1 DEF OnlyTouched
    <3>2. InHand = game /\ SetInHand = set /\ InHand' = game /\ SetInHand' = set /\ GameAway' /\ SetAway'
      BY <1>1, <2>1, <2>2 DEF InHand, SetInHand, GameAway, SetAway, Lent, GoingOut
    <3> QED BY <1>0, <1>1, <3>1, <3>2, FineStep
  <2>10. WritesOK' /\ OwnCards' /\ SetCards'
    BY <2>1, <2>2 DEF WritesOK, OwnCards, SetCards, Writes
  <2>11. LentOK'
    <3>1. step' # "srmOut" => InMemcards(game, set)
      BY <1>1, <1>3, <2>1, <2>2, <2>3 DEF InMemcards, InSrm, Holds
    <3>2. /\ Away(game, set)' /\ (how = "ra" => InSrm(game, set)')
          /\ step' # "srmOut" => InMemcards(game, set)'
          /\ how = "ra" /\ game \notin damaged => RaHeld(game)'
          /\ how = "pcsx" /\ game \notin damaged => RaOwn(game)'
      BY <1>1, <2>2, <2>3, <3>1
         DEF Away, InMemcards, InSrm, Whole, HomeOf, AllIn, Holds, RaHeld, RaOwn
    <3> QED BY <1>1, <1>3, <2>1, <2>2, <2>4, <2>6, <3>2 DEF LentOK, RaIn, GoingOut
  <2> QED BY <2>5, <2>7, <2>8, <2>9, <2>10, <2>11 DEF Inv
<1> QED BY <1>2, <1>3

-----------------------------------------------------------------------------
(* The cards out.                                                          *)

\* what is known of a session on its way out
LEMMA OnItsWayOut ==
    ASSUME Inv, step \in GoingOut
    PROVE  /\ stage \in {"back", "restore"} /\ game \in Games /\ how \in {"pcsx", "ra", "recover"}
           /\ step \in {"dropSrm", "bakToSrm"} => stage = "restore"
           /\ set \in Sets \cup {None} /\ (set # None => set \in there)
           /\ how # "recover" => set = SetNamed(game)
           /\ JournalFits(game, set) /\ Away(game, set)
           /\ step # "srmOut" => InMemcards(game, set)
           /\ stage = "back" /\ journal.srm => InSrm(game, set)
           /\ InHand = game /\ SetInHand = set /\ GameAway /\ SetAway
<1>1. VisitOK /\ Session /\ JournalOK /\ LentOK /\ TypeOK
  BY DEF Inv
<1>2. /\ stage \in {"back", "restore"} /\ game \in Games /\ how \in {"pcsx", "ra", "recover"}
      /\ step \in {"dropSrm", "bakToSrm"} => stage = "restore"
  BY <1>1, StagesOfSteps DEF VisitOK, GoingOut
<1>3. /\ set \in Sets \cup {None} /\ (set # None => set \in there)
      /\ how # "recover" => set = SetNamed(game)
  BY <1>1, <1>2 DEF Session
<1>4. JournalFits(game, set)
  BY <1>1, <1>2 DEF JournalOK, GoingOut
<1>5. Away(game, set) /\ (step # "srmOut" => InMemcards(game, set))
      /\ (stage = "back" /\ journal.srm => InSrm(game, set))
  BY <1>1 DEF LentOK
<1>6. InHand = game /\ SetInHand = set /\ GameAway /\ SetAway
  BY DEF InHand, SetInHand, GameAway, SetAway, Lent, GoingOut
<1> QED BY <1>2, <1>3, <1>4, <1>5, <1>6

\* the session's card back onto card 1
LEMMA SrmOutKeeps ==
    ASSUME Inv, TypeOK', SrmStep, step = "srmOut"
    PROVE  Inv'
<1>0. TypeOK /\ SavedShape /\ VisitOK /\ Session /\ JournalOK /\ SetsFine /\ GamesFine /\ LentOK
  BY DEF Inv
<1>1. /\ stage \in {"back", "restore"} /\ game \in Games /\ how \in {"pcsx", "ra", "recover"}
      /\ set \in Sets \cup {None} /\ (set # None => set \in there)
      /\ how # "recover" => set = SetNamed(game)
      /\ JournalFits(game, set) /\ Away(game, set) /\ (stage = "back" => InSrm(game, set))
      /\ InHand = game /\ SetInHand = set /\ GameAway /\ SetAway /\ journal.srm
      /\ On(set) /\ UNCHANGED <<there, ini, row, journal, saved, damaged>>
      /\ Copy(disk[RaSavesOf(game)]["srm"], MemcardsOf(game), "card1")
      /\ game \notin damaged => RaHeld(game)
  <2>1. journal.srm
    BY <1>0, OnItsWayOut DEF JournalOK, GoingOut
  <2>2. game \notin damaged => RaHeld(game)
    BY <1>0 DEF LentOK, GoingOut
  <2> QED BY <2>1, <2>2, OnItsWayOut DEF GoingOut, SrmStep, RaSaves, Memcards, setOf, history
<1>2. /\ step' \in {"dropSrm", "swapOut"} /\ UNCHANGED <<game, set, how, name>>
      /\ step' = "dropSrm" <=> disk[RaSavesOf(game)]["bak"] # None
      /\ stage' = IF step' = "dropSrm" THEN "restore" ELSE stage
  <2>1. After(step) = IF disk[RaSavesOf(game)]["bak"] # None THEN "dropSrm" ELSE "swapOut"
    BY <1>1, AfterOut, Choices
  <2> QED BY <1>1, <2>1 DEF On
<1>3. game \notin damaged => step' = "dropSrm"
  BY <1>1, <1>2, FoldersApart DEF RaHeld
<1>4. /\ \A e \in Folders : e # MemcardsOf(game) => disk'[e] = disk[e]
      /\ disk'[MemcardsOf(game)]["card2"] = disk[MemcardsOf(game)]["card2"]
      /\ MemcardsOf(game) \in there /\ disk[RaSavesOf(game)]["srm"] # None =>
            disk'[MemcardsOf(game)]["card1"] = disk[RaSavesOf(game)]["srm"]
  <2>1. /\ RaSavesOf(game) \in Folders /\ MemcardsOf(game) \in Folders
        /\ {"srm", "card1", "card2"} \subseteq FileNames
    BY <1>1, FoldersApart DEF FileNames, CardNames
  <2>2. disk[RaSavesOf(game)]["srm"] \in Content \cup {None}
    BY <1>0, <2>1 DEF TypeOK
  <2> QED BY <1>0, <1>1, <2>1, <2>2, CopyWrites
<1>5. SavedShape'
  BY <1>0, <1>1, SavedShapeKept DEF SavedShape
<1>6. VisitOK' /\ Session'
  BY <1>0, <1>1, <1>2 DEF VisitOK, Session, SetNamed, GoingIn, RaIn, GoingOut, Restoring
<1>7. JournalOK'
  BY <1>0, <1>1, <1>2, <1>3, OnItsWayOut
     DEF JournalOK, JournalFits, GoingIn, RaIn, GoingOut, Restoring
<1>8. SetsFine' /\ GamesFine'
  <2>1. OnlyTouched(game, set)
    BY <1>1, <1>4 DEF OnlyTouched
  <2>2. InHand' = game /\ SetInHand' = set /\ GameAway' /\ SetAway'
    BY <1>2 DEF InHand, SetInHand, GameAway, SetAway, Lent, GoingOut
  <2> QED BY <1>0, <1>1, <2>1, <2>2, FineStep
<1>9. WritesOK' /\ OwnCards' /\ SetCards'
  BY <1>2 DEF WritesOK, OwnCards, SetCards, Writes
<1>10. LentOK'
  <2>1. /\ disk'[BackupOf(game)] = disk[BackupOf(game)] /\ disk'[RaSavesOf(game)] = disk[RaSavesOf(game)]
        /\ set # None => disk'[set] = disk[set]
    BY <1>1, <1>4, FoldersApart
  <2>2. Away(game, set)'
    BY <1>1, <1>2, <2>1 DEF Away, AllIn, Holds
  <2>3. stage = "back" => InSrm(game, set)' /\ InMemcards(game, set)'
    BY <1>1, <1>2, <1>4, <2>1 DEF InSrm, InMemcards, Whole, HomeOf, AllIn, Holds, CardNames
  <2>4. stage = "back"
    BY <1>0, <1>1 DEF VisitOK
  <2>5. game \notin damaged => disk'[RaSavesOf(game)]["bak"] = RaSave
    BY <1>1, <2>1 DEF RaHeld
  <2> QED BY <1>1, <1>2, <1>3, <2>2, <2>3, <2>4, <2>5 DEF LentOK, RaIn, GoingOut, RaSaves
<1> QED BY <1>5, <1>6, <1>7, <1>8, <1>9, <1>10 DEF Inv

\* RetroArch's own .srm back
LEMMA SrmHomeKeeps ==
    ASSUME Inv, TypeOK', SrmStep, step \in {"dropSrm", "bakToSrm"}
    PROVE  Inv'
<1>0. TypeOK /\ SavedShape /\ VisitOK /\ Session /\ JournalOK /\ SetsFine /\ GamesFine /\ LentOK
  BY DEF Inv
<1>1. /\ stage = "restore" /\ game \in Games /\ how \in {"pcsx", "ra", "recover"}
      /\ set \in Sets \cup {None} /\ (set # None => set \in there)
      /\ how # "recover" => set = SetNamed(game)
      /\ JournalFits(game, set) /\ Away(game, set) /\ InMemcards(game, set)
      /\ InHand = game /\ SetInHand = set /\ GameAway /\ SetAway /\ journal.srm
      /\ On(set) /\ UNCHANGED <<there, ini, row, journal, saved, damaged>>
      /\ game \notin damaged => disk[RaSavesOf(game)]["bak"] = RaSave
  <2>1. journal.srm
    BY <1>0, OnItsWayOut DEF JournalOK, GoingOut
  <2>2. game \notin damaged => disk[RaSavesOf(game)]["bak"] = RaSave
    BY <1>0 DEF LentOK, GoingOut, RaSaves
  <2> QED BY <2>1, <2>2, OnItsWayOut DEF GoingOut, SrmStep, setOf, history
<1>2. /\ step' = (IF step = "dropSrm" THEN "bakToSrm" ELSE "swapOut") /\ UNCHANGED <<game, set, how, name>>
      /\ stage' = "restore"
  BY <1>1, AfterOut DEF On
<1>3. /\ \A e \in Folders : e # RaSavesOf(game) => disk'[e] = disk[e]
      /\ game \notin damaged => IF step = "dropSrm" THEN disk'[RaSavesOf(game)]["bak"] = RaSave
                                ELSE RaOwn(game)'
  <2>1. /\ RaSavesOf(game) \in Folders /\ {"srm", "bak"} \subseteq FileNames
        /\ disk \in [Folders -> [FileNames -> Content \cup {None}]]
    BY <1>0, <1>1, FoldersApart DEF FileNames, TypeOK
  <2>2. CASE step = "dropSrm"
    <3>1. disk' = [disk EXCEPT ![RaSavesOf(game)]["srm"] = None]
      BY <2>2 DEF SrmStep, RaSaves
    <3> QED BY <1>1, <2>1, <2>2, <3>1
  <2>3. CASE step = "bakToSrm"
    <3>1. disk' = [disk EXCEPT ![RaSavesOf(game)]["srm"] = disk[RaSavesOf(game)]["bak"],
                               ![RaSavesOf(game)]["bak"] = None]
      BY <2>3 DEF SrmStep, RaSaves
    <3>2. /\ \A e \in Folders : e # RaSavesOf(game) => disk'[e] = disk[e]
          /\ disk'[RaSavesOf(game)]["srm"] = disk[RaSavesOf(game)]["bak"]
          /\ disk'[RaSavesOf(game)]["bak"] = None
      BY <2>1, <3>1
    <3> QED BY <1>1, <1>2, <2>3, <3>2 DEF RaOwn
  <2> QED BY <2>2, <2>3
<1>4. \A g \in Games, s \in Sets \cup {None} :
         g = game /\ s = set => Away(g, s)' /\ InMemcards(g, s)' /\ OnlyTouched(g, s)
  BY <1>1, <1>3, OnlySrm
<1>5. SavedShape'
  BY <1>0, <1>1, SavedShapeKept DEF SavedShape
<1>6. VisitOK' /\ Session'
  BY <1>0, <1>1, <1>2 DEF VisitOK, Session, SetNamed, GoingIn, RaIn, GoingOut, Restoring
<1>7. JournalOK'
  BY <1>0, <1>1, <1>2 DEF JournalOK, JournalFits, GoingIn, RaIn, GoingOut, Restoring
<1>8. SetsFine' /\ GamesFine'
  <2>1. InHand' = game /\ SetInHand' = set /\ GameAway' /\ SetAway'
    BY <1>2 DEF InHand, SetInHand, GameAway, SetAway, Lent, GoingOut
  <2> QED BY <1>0, <1>1, <1>4, <2>1, FineStep
<1>9. WritesOK' /\ OwnCards' /\ SetCards'
  BY <1>2 DEF WritesOK, OwnCards, SetCards, Writes
<1>10. LentOK'
  <2>1. Away(game, set)' /\ InMemcards(game, set)'
    BY <1>1, <1>2, <1>4 DEF Away, InMemcards, Whole, HomeOf, AllIn, Holds
  <2> QED BY <1>1, <1>2, <1>3, <2>1 DEF LentOK, RaIn, GoingOut, RaSaves
<1> QED BY <1>5, <1>6, <1>7, <1>8, <1>9, <1>10 DEF Inv

\* the cards are all in memcards/: out they go, or they are home
LEMMA SwapOutKeeps ==
    ASSUME Inv, TypeOK', SwapOutStep
    PROVE  Inv'
<1>0. TypeOK /\ SavedShape /\ VisitOK /\ Session /\ JournalOK /\ SetsFine /\ GamesFine /\ LentOK
  BY DEF Inv
<1>1. /\ stage \in {"back", "restore"} /\ game \in Games /\ how \in {"pcsx", "ra", "recover"}
      /\ set \in Sets \cup {None} /\ (set # None => set \in there)
      /\ how # "recover" => set = SetNamed(game)
      /\ JournalFits(game, set) /\ Away(game, set) /\ InMemcards(game, set)
      /\ stage = "back" /\ journal.srm => InSrm(game, set)
      /\ InHand = game /\ SetInHand = set /\ GameAway /\ SetAway
      /\ step = "swapOut" /\ On(set) /\ UNCHANGED <<there, disk, ini, row, journal, saved, damaged>>
      /\ game \notin damaged => RaOwn(game)
  <2>1. step = "swapOut"
    BY DEF SwapOutStep
  <2>2. game \notin damaged => RaOwn(game)
    BY <1>0, <2>1 DEF LentOK, GoingOut
  <2> QED BY <2>1, <2>2, OnItsWayOut DEF GoingOut, SwapOutStep, files, setOf, history
<1>2. /\ step' = (IF set = None THEN "unJournal" ELSE "copyOut") /\ UNCHANGED <<stage, game, set, how, name>>
      /\ set # None => left' = Listed(set)
  <2>1. After(step) = IF set = None THEN "unJournal" ELSE "copyOut"
    BY <1>1, AfterOut, Choices
  <2> QED BY <1>1, <2>1 DEF On, ToCopy
<1>3. SavedShape'
  BY <1>0, <1>1, SavedShapeKept DEF SavedShape
<1>4. VisitOK' /\ Session'
  BY <1>0, <1>1, <1>2 DEF VisitOK, Session, SetNamed, GoingIn, RaIn, GoingOut, Restoring
<1>5. JournalOK'
  BY <1>0, <1>1, <1>2 DEF JournalOK, JournalFits, GoingIn, RaIn, GoingOut, Restoring
<1>6. SetsFine' /\ GamesFine'
  <2>1. OnlyTouched(game, set)
    BY <1>1 DEF OnlyTouched
  <2>2. InHand' = game /\ SetInHand' = set
    BY <1>2 DEF InHand, SetInHand
  <2>3. CASE set # None
    <3>1. GameAway' /\ SetAway'
      BY <1>2, <2>3 DEF GameAway, SetAway, Lent, GoingOut
    <3> QED BY <1>0, <1>1, <2>1, <2>2, <3>1, FineStep
  <2>4. CASE set = None
    <3>1. ASSUME NEW g \in Games, g = game, g \notin damaged PROVE GameFine(g)'
      BY <1>1, <2>4, <3>1 DEF GameFine, Away, InMemcards, Whole, HomeOf, AllIn, Holds, RaOwn
    <3>2. set \notin Sets
      BY <2>4, FoldersApart
    <3> QED BY <1>0, <1>1, <2>1, <3>1, <3>2, FineStep
  <2> QED BY <2>3, <2>4
<1>7. WritesOK' /\ OwnCards' /\ SetCards'
  BY <1>2 DEF WritesOK, OwnCards, SetCards, Writes
<1>8. LentOK'
  <2>1. /\ Away(game, set)' /\ InMemcards(game, set)' /\ (game \notin damaged => RaOwn(game)')
        /\ stage = "back" /\ journal.srm => InSrm(game, set)'
    BY <1>1, <1>2 DEF Away, InMemcards, InSrm, Whole, HomeOf, AllIn, Holds, RaOwn
  <2>2. set # None /\ set \notin damaged => CardNames \ Listed(set) = {}
    BY <1>1 DEF Away, Listed
  <2> QED BY <1>1, <1>2, <2>1, <2>2 DEF LentOK, RaIn, GoingOut, AllIn
<1> QED BY <1>3, <1>4, <1>5, <1>6, <1>7, <1>8 DEF Inv

\* the session's cards into the set
LEMMA CopyOutKeeps ==
    ASSUME Inv, TypeOK', CopyStep, step = "copyOut"
    PROVE  Inv'
<1>0. TypeOK /\ SavedShape /\ VisitOK /\ Session /\ JournalOK /\ SetsFine /\ GamesFine /\ LentOK
  BY DEF Inv
<1>1. /\ stage \in {"back", "restore"} /\ game \in Games /\ how \in {"pcsx", "ra", "recover"}
      /\ set \in Sets /\ set # None /\ set \in there
      /\ how # "recover" => set = SetNamed(game)
      /\ JournalFits(game, set) /\ Away(game, set) /\ InMemcards(game, set)
      /\ stage = "back" /\ journal.srm => InSrm(game, set)
      /\ InHand = game /\ SetInHand = set /\ GameAway /\ SetAway
      /\ UNCHANGED <<there, ini, row, journal, saved, damaged>>
      /\ game \notin damaged => RaOwn(game)
      /\ set \notin damaged => AllIn(set, set, CardNames \ left)
  <2>1. set # None
    BY <1>0 DEF Session
  <2>2. game \notin damaged => RaOwn(game)
    BY <1>0 DEF LentOK, GoingOut
  <2>3. set \notin damaged => AllIn(set, set, CardNames \ left)
    BY <1>0 DEF LentOK, GoingOut
  <2> QED BY <2>1, <2>2, <2>3, OnItsWayOut DEF GoingOut, CopyStep, setOf, history
<1>2. SavedShape'
  BY <1>0, <1>1, SavedShapeKept DEF SavedShape
<1>3. CASE left # {}
  <2>1. /\ UNCHANGED <<stage, step, game, set, name, how>> /\ left' = left \ {NextCard}
        /\ Copy(disk[MemcardsOf(game)][NextCard], set, NextCard)
    BY <1>3 DEF CopyStep, visit, From, To, Memcards
  <2>2. /\ \A e \in Folders : e # set => disk'[e] = disk[e]
        /\ \A m \in FileNames : m # NextCard => disk'[set][m] = disk[set][m]
        /\ disk'[set][NextCard] =
              IF disk[MemcardsOf(game)][NextCard] = None THEN Torn ELSE disk[MemcardsOf(game)][NextCard]
    <3>1. /\ NextCard \in FileNames /\ set \in Folders /\ MemcardsOf(game) \in Folders
          /\ disk[MemcardsOf(game)][NextCard] \in Content \cup {None}
      BY <1>0, <1>1, <1>3, FoldersOfSteps, FoldersApart DEF TypeOK
    <3> QED BY <1>0, <1>1, <2>1, <3>1, CopyWrites
  <2>3. /\ disk'[BackupOf(game)] = disk[BackupOf(game)] /\ disk'[RaSavesOf(game)] = disk[RaSavesOf(game)]
        /\ disk'[MemcardsOf(game)] = disk[MemcardsOf(game)] /\ CardNames \subseteq FileNames
    BY <1>1, <2>2, FoldersApart DEF FileNames
  <2>4. VisitOK' /\ Session' /\ JournalOK'
    BY <1>0, <1>1, <2>1 DEF VisitOK, Session, JournalOK, JournalFits, SetNamed
  <2>5. SetsFine' /\ GamesFine'
    <3>1. OnlyTouched(game, set)
      BY <1>1, <2>2 DEF OnlyTouched
    <3>2. InHand' = game /\ SetInHand' = set /\ GameAway' /\ SetAway'
      BY <2>1 DEF InHand, SetInHand, GameAway, SetAway, Lent, GoingOut
    <3> QED BY <1>0, <1>1, <3>1, <3>2, FineStep
  <2>6. WritesOK' /\ OwnCards' /\ SetCards'
    BY <2>1 DEF WritesOK, OwnCards, SetCards, Writes
  <2>7. LentOK'
    <3>1. Away(game, set)'
      <4>1. ASSUME set \notin damaged, NEW c \in CardNames PROVE disk'[set][c] # None
        <5>1. disk[set][c] # None /\ c \in FileNames
          BY <1>1, <2>3, <4>1 DEF Away
        <5>2. disk'[set][NextCard] # None
          BY <2>2, FoldersApart
        <5> QED BY <2>2, <5>1, <5>2
      <4> QED BY <1>1, <2>1, <2>3, <4>1 DEF Away, AllIn, Holds
    <3>2. InMemcards(game, set)' /\ (stage = "back" /\ journal.srm => InSrm(game, set)')
      BY <1>1, <2>1, <2>3 DEF InMemcards, InSrm, Whole, HomeOf, AllIn, Holds
    <3>3. game \notin damaged => RaOwn(game)'
      BY <1>1, <2>1, <2>3 DEF RaOwn
    <3>4. set \notin damaged => AllIn(set, set, CardNames \ left)'
      <4>1. ASSUME set \notin damaged, NEW c \in CardNames \ left' PROVE Holds(set, c, set, c)'
        <5>1. Holds(set, c, MemcardsOf(game), c) /\ c \in FileNames
          BY <1>1, <2>3, <4>1 DEF InMemcards, Whole, HomeOf, AllIn
        <5>2. CASE c = NextCard
          <6>1. disk'[set][c] = disk[MemcardsOf(game)][c]
            BY <2>2, <5>1, <5>2 DEF Holds
          <6> QED BY <1>1, <2>1, <5>1, <6>1 DEF Holds
        <5>3. CASE c # NextCard
          <6>1. disk'[set][c] = disk[set][c] /\ c \in CardNames \ left
            BY <2>1, <2>2, <4>1, <5>1, <5>3
          <6>2. Holds(set, c, set, c)
            BY <1>1, <4>1, <6>1 DEF AllIn
          <6> QED BY <1>1, <2>1, <6>1, <6>2 DEF Holds
        <5> QED BY <5>2, <5>3
      <4> QED BY <4>1 DEF AllIn
    <3> QED BY <1>1, <2>1, <3>1, <3>2, <3>3, <3>4 DEF LentOK, RaIn, GoingOut
  <2> QED BY <1>2, <2>4, <2>5, <2>6, <2>7 DEF Inv
<1>4. CASE left = {}
  <2>1. On(set) /\ disk' = disk /\ BackupOf(game) \in there
    BY <1>1, <1>4 DEF CopyStep, Away
  <2>2. step' = "clearOwn" /\ stage' = "restore" /\ UNCHANGED <<game, set, name, how>>
    BY <1>1, <2>1, AfterOut, Choices DEF On
  <2>3. VisitOK' /\ Session'
    BY <1>0, <1>1, <2>2 DEF VisitOK, Session, SetNamed, GoingIn, RaIn, GoingOut, Restoring
  <2>4. JournalOK'
    BY <1>0, <1>1, <2>2 DEF JournalOK, JournalFits, GoingIn, RaIn, GoingOut, Restoring
  <2>5. SetsFine' /\ GamesFine'
    <3>1. OnlyTouched(game, set)
      BY <1>1, <2>1 DEF OnlyTouched
    <3>2. InHand' = game /\ GameAway'
      BY <2>2 DEF InHand, GameAway, Restoring
    <3>3. ASSUME NEW s \in Sets, s = set, s \notin damaged PROVE SetFine(s)'
      BY <1>1, <1>4, <2>1, <3>3 DEF SetFine, AllIn, Holds
    <3> QED BY <1>0, <1>1, <3>1, <3>2, <3>3, FineStep
  <2>6. WritesOK' /\ SetCards' /\ LentOK'
    BY <2>2 DEF WritesOK, SetCards, LentOK, Writes, RaIn, GoingOut
  <2>7. OwnCards'
    BY <1>1, <2>1, <2>2 DEF OwnCards, Away, AllIn, Holds, Memcards, Backup, RaOwn
  <2> QED BY <1>2, <2>3, <2>4, <2>5, <2>6, <2>7 DEF Inv
<1> QED BY <1>3, <1>4

\* the journal goes last
LEMMA UnJournalKeeps ==
    ASSUME Inv, TypeOK', JournalStep, step = "unJournal"
    PROVE  Inv'
<1>1. stage \in {"back", "restore"} /\ how \in {"pcsx", "ra", "recover"}
  BY StagesOfSteps DEF Inv, VisitOK
<1>2. After(step) = "rest"
  BY <1>1, AfterOut
<1>3. Rest /\ UNCHANGED <<there, disk, saved, damaged>> /\ journal' = NoJournal
  BY <1>2 DEF JournalStep, On, files, history
<1>4. ~SetAway /\ ~GameAway
  BY DEF SetAway, GameAway, Lent, GoingIn, RaIn, GoingOut, Restoring, Writes
<1> QED BY <1>3, <1>4, RestKeeps

\* the recovery takes the session up where the journal says it is
LEMMA RecoverKeeps ==
    ASSUME Inv, TypeOK', RecoverStep
    PROVE  Inv'
<1>0. TypeOK /\ SavedShape /\ VisitOK /\ Session /\ JournalOK /\ SetsFine /\ GamesFine /\ LentOK
  BY DEF Inv
<1>1. step = "recover" /\ stage = "back" /\ how = "recover"
      /\ UNCHANGED <<there, disk, ini, row, journal, saved, damaged>>
      /\ InHand = journal.game /\ SetInHand = journal.set /\ GameAway /\ SetAway
  BY <1>0, StagesOfSteps
     DEF RecoverStep, VisitOK, InHand, SetInHand, GameAway, SetAway, Lent, files, setOf, history
<1>2. CASE journal = NoJournal
  <2>1. SetInHand \notin Sets /\ InHand \notin Games
    BY <1>1, <1>2, FoldersApart DEF NoJournal
  <2> QED BY <1>1, <1>2, <2>1, RestKeeps DEF RecoverStep
<1>3. CASE journal # NoJournal
  <2>1. journal.game \in Games /\ journal.set \in Sets \cup {None} /\ journal.srm \in BOOLEAN
    BY <1>0, <1>3 DEF TypeOK, Journals
  <2> SUFFICES ASSUME NEW g \in Games, NEW s \in Sets \cup {None}, g = journal.game, s = journal.set
               PROVE Inv'
    BY <2>1
  <2>2. /\ Away(g, s) /\ IF journal.srm THEN InSrm(g, s) ELSE InMemcards(g, s)
        /\ g \notin damaged => IF journal.srm THEN RaHeld(g) ELSE RaOwn(g)
        /\ s # None => s \in there
    BY <1>0, <1>1, <1>3 DEF LentOK, Away
  <2>3. /\ step' = (IF journal.srm /\ disk[RaSavesOf(g)]["srm"] # None THEN "srmOut" ELSE "swapOut")
        /\ game' = g /\ set' = s /\ UNCHANGED <<stage, left, name, how>>
    BY <1>1, <1>3, AfterOut, Choices DEF RecoverStep
  <2>4. JournalFits(g, s)
    BY <1>0, <1>1, <1>3 DEF JournalOK
  <2>5. SavedShape'
    BY <1>0, <1>1, SavedShapeKept DEF SavedShape
  <2>6. VisitOK' /\ Session'
    BY <1>0, <1>1, <2>2, <2>3 DEF VisitOK, Session, SetNamed, GoingIn, RaIn, GoingOut, Restoring
  <2>7. JournalOK'
    <3>1. JournalFits(game, set)'
      BY <1>1, <2>3, <2>4 DEF JournalFits
    <3>2. journal.srm /\ step' # "srmOut" => g \in damaged
      BY <2>2, <2>3 DEF RaHeld
    <3> QED BY <1>1, <1>3, <2>3, <3>1, <3>2 DEF JournalOK, GoingIn, RaIn, GoingOut, Restoring
  <2>8. SetsFine' /\ GamesFine'
    <3>1. OnlyTouched(g, s)
      BY <1>1 DEF OnlyTouched
    <3>2. InHand' = g /\ SetInHand' = s /\ GameAway' /\ SetAway'
      BY <2>3 DEF InHand, SetInHand, GameAway, SetAway, Lent, GoingOut
    <3> QED BY <1>0, <1>1, <3>1, <3>2, FineStep
  <2>9. WritesOK' /\ OwnCards' /\ SetCards'
    BY <2>3 DEF WritesOK, OwnCards, SetCards, Writes
  <2>10. LentOK'
    <3>1. step' # "srmOut" => InMemcards(g, s)
      BY <2>2, <2>3 DEF InMemcards, InSrm, Holds
    <3>2. /\ Away(game, set)' /\ (step' # "srmOut" => InMemcards(game, set)')
          /\ journal.srm => InSrm(game, set)'
          /\ g \notin damaged => IF journal.srm THEN RaHeld(game)' ELSE RaOwn(game)'
      BY <1>1, <2>2, <2>3, <3>1
         DEF Away, InMemcards, InSrm, Whole, HomeOf, AllIn, Holds, RaHeld, RaOwn
    <3>3. g \notin damaged => (step' = "srmOut" <=> journal.srm)
      BY <2>2, <2>3 DEF RaHeld
    <3> QED BY <1>1, <2>3, <3>2, <3>3 DEF LentOK, RaIn, GoingOut
  <2> QED BY <2>5, <2>6, <2>7, <2>8, <2>9, <2>10 DEF Inv
<1> QED BY <1>2, <1>3

-----------------------------------------------------------------------------
(* A power cut.                                                            *)

\* the journal names the session the power cut, or there was none to name
LEMMA CutJournal ==
    ASSUME NEW g, NEW s, JournalFits(g, s)
    PROVE  /\ journal = NoJournal \/ (journal.game = g /\ journal.set = s)
           /\ journal = NoJournal \/ JournalFits(journal.game, journal.set)
           /\ s # None \/ journal.srm => journal # NoJournal
<1>1. CASE s = None /\ ~journal.srm
  BY <1>1 DEF JournalFits
<1>2. CASE ~(s = None /\ ~journal.srm)
  <2>1. journal = [game |-> g, set |-> s, srm |-> journal.srm]
    BY <1>2 DEF JournalFits
  <2>2. journal.game = g /\ journal.set = s
    BY <2>1
  <2> QED BY <1>2, <2>2 DEF JournalFits, NoJournal
<1> QED BY <1>1, <1>2

\* what the recovery is to find
LEMMA CutLeaves ==
    ASSUME Inv, TypeOK', PowerCut, NEW g \in Games, NEW s \in Sets \cup {None}, OnlyTouched(g, s),
           GameAway => InHand = g, SetAway /\ SetInHand \in Sets => SetInHand = s,
           journal = NoJournal \/ JournalFits(journal.game, journal.set),
           journal = NoJournal => /\ g \notin damaged' => GameFine(g)'
                                  /\ s \in Sets \ damaged' => SetFine(s)',
           journal # NoJournal =>
              /\ journal.game = g /\ journal.set = s
              /\ Away(g, s)' /\ IF journal.srm THEN InSrm(g, s)' ELSE InMemcards(g, s)'
              /\ g \notin damaged' => IF journal.srm THEN RaHeld(g)' ELSE RaOwn(g)'
    PROVE  Inv'
<1>0. TypeOK /\ SavedShape /\ SetsFine /\ GamesFine
  BY DEF Inv
<1>1. /\ step' = "recover" /\ stage' = "back" /\ game' = None /\ set' = None /\ how' = "recover"
      /\ UNCHANGED <<there, journal, saved>> /\ damaged \subseteq damaged'
  BY DEF PowerCut
<1>2. SavedShape'
  BY <1>0, <1>1, SavedShapeKept DEF SavedShape
<1>3. VisitOK' /\ Session' /\ JournalOK'
  BY <1>1 DEF VisitOK, Session, JournalOK, JournalFits, GoingIn, RaIn, GoingOut, Restoring
<1>4. WritesOK' /\ OwnCards' /\ SetCards'
  BY <1>1 DEF WritesOK, OwnCards, SetCards, Writes
<1>5. SetsFine' /\ GamesFine'
  <2>1. /\ InHand' = journal.game /\ SetInHand' = journal.set /\ GameAway' /\ SetAway'
    BY <1>1 DEF InHand, SetInHand, GameAway, SetAway, Lent
  <2> QED BY <1>0, <1>1, <2>1, FineCut
<1>6. LentOK'
  <2>1. journal' # NoJournal =>
           \A h \in Games, t \in Sets \cup {None} : h = journal'.game /\ t = journal'.set =>
              /\ Away(h, t)' /\ IF journal'.srm THEN InSrm(h, t)' ELSE InMemcards(h, t)'
              /\ h \notin damaged' => IF journal'.srm THEN RaHeld(h)' ELSE RaOwn(h)'
    BY <1>1
  <2>2. journal' # NoJournal => journal'.game \in Games /\ journal'.set \in Sets \cup {None}
    BY <1>1
  <2>3. journal' # NoJournal =>
          /\ Away(journal.game, journal.set)'
          /\ IF journal'.srm THEN InSrm(journal.game, journal.set)' ELSE InMemcards(journal.game, journal.set)'
          /\ journal'.game \notin damaged' => IF journal'.srm THEN RaHeld(journal.game)' ELSE RaOwn(journal.game)'
    BY <2>1, <2>2
  <2> QED BY <1>1, <2>3 DEF LentOK, RaIn, GoingOut
<1> QED BY <1>2, <1>3, <1>4, <1>5, <1>6 DEF Inv

\* a file that was being written is torn, no other
LEMMA TornAlone ==
    ASSUME TypeOK, PowerCut
    PROVE  \/ disk' = disk
           \/ \E d \in there, n \in FileNames :
                 /\ Writing(d, n) /\ d \in Folders /\ disk'[d][n] = Torn
                 /\ \A e \in Folders : e # d => disk'[e] = disk[e]
                 /\ \A m \in FileNames : m # n => disk'[d][m] = disk[d][m]
<1>1. ASSUME NEW d \in there, NEW n \in FileNames, disk' = [disk EXCEPT ![d][n] = Torn]
      PROVE  /\ d \in Folders /\ disk'[d][n] = Torn
             /\ \A e \in Folders : e # d => disk'[e] = disk[e]
             /\ \A m \in FileNames : m # n => disk'[d][m] = disk[d][m]
  BY <1>1 DEF TypeOK
<1>2. disk' = disk \/ \E d \in there, n \in FileNames : Writing(d, n) /\ disk' = [disk EXCEPT ![d][n] = Torn]
  BY DEF PowerCut
<1> QED BY <1>1, <1>2

\* cut at the swap-in: the game is damaged, the set is not
LEMMA CutInKeeps ==
    ASSUME Inv, TypeOK', PowerCut, stage = "in"
    PROVE  Inv'
<1>0. TypeOK /\ SavedShape /\ VisitOK /\ Session /\ JournalOK /\ SetsFine /\ GamesFine /\ LentOK
  BY DEF Inv
<1>1. /\ step \in GoingIn \cup RaIn \cup Restoring \cup {"ini", "row"} /\ game \in Games /\ InHand = game
      /\ game \in damaged' /\ damaged' = damaged \cup {game} /\ UNCHANGED <<there, journal, saved>>
  BY <1>0 DEF VisitOK, PowerCut, InHand, GoingIn, RaIn, Restoring
<1>2. CASE step \notin RaIn
  <2>1. journal = NoJournal /\ ~SetAway
    BY <1>0, <1>1, <1>2 DEF JournalOK, SetAway, Lent, GoingIn, RaIn, GoingOut, Restoring, Writes
  <2>2. \A e \in Folders : e \notin {MemcardsOf(game), BackupOf(game)} => disk'[e] = disk[e]
    <3>1. \A d \in there, n \in FileNames : Writing(d, n) => d \in {MemcardsOf(game), BackupOf(game)}
      BY <1>1, <1>2 DEF Writing, To, Loops, Memcards, Backup, GoingIn, RaIn, Restoring
    <3> QED BY <1>0, <3>1, TornAlone
  <2>3. OnlyTouched(game, None)
    BY <1>1, <2>2 DEF OnlyTouched
  <2> QED BY <1>1, <2>1, <2>3, CutLeaves, FoldersApart
<1>3. CASE step \in RaIn
  <2>1. /\ ~journal.srm /\ JournalFits(game, set) /\ SetInHand = set
        /\ set \in Sets \cup {None} /\ Away(game, set) /\ InMemcards(game, set)
    BY <1>0, <1>3 DEF JournalOK, Session, LentOK, SetInHand, RaIn
  <2>2. \A e \in Folders : e # RaSavesOf(game) => disk'[e] = disk[e]
    <3>1. \A d \in there, n \in FileNames : Writing(d, n) => d = RaSavesOf(game)
      BY <1>3 DEF Writing, Loops, RaSaves, RaIn
    <3> QED BY <1>0, <3>1, TornAlone
  <2> SUFFICES ASSUME NEW s \in Sets \cup {None}, s = set PROVE Inv'
    BY <2>1
  <2>3. OnlyTouched(game, s)
    BY <1>1, <2>2 DEF OnlyTouched
  <2>4. /\ disk'[MemcardsOf(game)] = disk[MemcardsOf(game)]
        /\ s # None => disk'[s] = disk[s]
    BY <1>1, <2>2, FoldersApart
  <2>5. s # None => \A g \in Games : g = game => Away(g, s)' /\ InMemcards(g, s)'
    <3>1. ASSUME NEW g \in Games, g = game, s # None PROVE Away(g, s)' /\ InMemcards(g, s)'
      BY <1>1, <2>1, <2>4, <3>1 DEF Away, InMemcards, Whole, HomeOf, AllIn, Holds
    <3> QED BY <3>1
  <2>6. s = None <=> journal = NoJournal
    BY <2>1, CutJournal, FoldersApart DEF JournalFits, NoJournal
  <2>7. s = None => s \notin Sets
    BY FoldersApart
  <2> SUFFICES ASSUME NEW g \in Games, g = game PROVE Inv'
    BY <1>1
  <2>8. journal = NoJournal \/ (journal.game = g /\ journal.set = s)
    BY <2>1, CutJournal
  <2>9. journal = NoJournal \/ JournalFits(journal.game, journal.set)
    BY <2>1, CutJournal
  <2>10. GameAway => InHand = g
    BY <1>1
  <2>11. SetAway /\ SetInHand \in Sets => SetInHand = s
    BY <2>1
  <2>12. OnlyTouched(g, s)
    BY <2>3
  <2> QED BY <1>1, <2>1, <2>5, <2>6, <2>7, <2>8, <2>9, <2>10, <2>11, <2>12, CutLeaves
<1> QED BY <1>2, <1>3

\* cut while the game runs
LEMMA CutPlayKeeps ==
    ASSUME Inv, TypeOK', PowerCut, stage = "play"
    PROVE  Inv'
<1>0. TypeOK /\ SavedShape /\ VisitOK /\ Session /\ JournalOK /\ SetsFine /\ GamesFine /\ LentOK
  BY DEF Inv
<1>1. /\ step = "play" /\ game \in Games /\ how \in {"pcsx", "dir", "ra"}
      /\ InHand = game /\ SetInHand = set /\ set \in Sets \cup {None}
      /\ UNCHANGED <<there, journal, saved, damaged>>
  BY <1>0 DEF VisitOK, Session, PowerCut, InHand, SetInHand
<1>2. disk' = disk
  <2>1. \A d \in there, n \in FileNames : ~Writing(d, n)
    BY <1>1 DEF Writing, Loops
  <2> QED BY <1>0, <2>1, TornAlone
<1> SUFFICES ASSUME NEW g \in Games, NEW s \in Sets \cup {None}, g = game, s = set PROVE Inv'
  BY <1>1
<1>3. OnlyTouched(g, s)
  BY <1>1, <1>2 DEF OnlyTouched
<1>4. CASE how = "dir"
  <2>1. journal = NoJournal /\ ~SetAway /\ ~GameAway
    BY <1>0, <1>1, <1>4
       DEF JournalOK, SetAway, GameAway, Lent, GoingIn, RaIn, GoingOut, Restoring, Writes
  <2>2. g \notin damaged' => GameFine(g)'
    BY <1>0, <1>1, <1>2, <2>1 DEF GamesFine, GameFine, AllIn, Holds, RaOwn
  <2>3. s \in Sets \ damaged' => SetFine(s)'
    BY <1>0, <1>1, <1>2, <2>1 DEF SetsFine, SetFine, AllIn, Holds
  <2> QED BY <1>3, <2>1, <2>2, <2>3, CutLeaves
<1>5. CASE how # "dir"
  <2>1. JournalFits(g, s) /\ (journal.srm <=> how = "ra")
    BY <1>0, <1>1, <1>5 DEF JournalOK
  <2>2. /\ Away(g, s) /\ IF journal.srm THEN InSrm(g, s) ELSE InMemcards(g, s)
        /\ g \notin damaged => IF journal.srm THEN RaHeld(g) ELSE RaOwn(g)
    BY <1>0, <1>1, <1>5, <2>1 DEF LentOK
  <2>3. /\ Away(g, s)' /\ IF journal.srm THEN InSrm(g, s)' ELSE InMemcards(g, s)'
        /\ g \notin damaged' => IF journal.srm THEN RaHeld(g)' ELSE RaOwn(g)'
    BY <1>1, <1>2, <2>2 DEF Away, InMemcards, InSrm, Whole, HomeOf, AllIn, Holds, RaHeld, RaOwn
  <2>4. journal = NoJournal => s = None /\ ~journal.srm
    BY <2>1, CutJournal
  <2>5. journal = NoJournal => (g \notin damaged' => GameFine(g)') /\ s \notin Sets
    BY <2>3, <2>4, FoldersApart DEF GameFine, Away, InMemcards, Whole, HomeOf
  <2>6. journal = NoJournal \/ (journal.game = g /\ journal.set = s)
    BY <2>1, CutJournal
  <2>7. journal = NoJournal \/ JournalFits(journal.game, journal.set)
    BY <2>1, CutJournal
  <2> QED BY <1>1, <1>3, <2>3, <2>5, <2>6, <2>7, CutLeaves
<1> QED BY <1>4, <1>5

\* cut on the way out, or in the recovery of an earlier cut
LEMMA CutBackKeeps ==
    ASSUME Inv, TypeOK', PowerCut, stage = "back"
    PROVE  Inv'
<1>0. TypeOK /\ SavedShape /\ VisitOK /\ Session /\ JournalOK /\ SetsFine /\ GamesFine /\ LentOK /\ OwnCards
  BY DEF Inv
<1>1. /\ step \in {"srmOut", "swapOut", "copyOut", "unJournal", "recover"}
      /\ UNCHANGED <<there, journal, saved, damaged>>
      /\ step' = "recover" /\ stage' = "back" /\ game' = None /\ set' = None /\ how' = "recover"
  BY <1>0 DEF VisitOK, PowerCut, GoingOut, Restoring
<1>2. CASE step = "recover"
  <2>1. disk' = disk
    <3>1. \A d \in there, n \in FileNames : ~Writing(d, n)
      BY <1>2 DEF Writing, Loops
    <3> QED BY <1>0, <3>1, TornAlone
  <2>2. SavedShape'
    BY <1>0, <1>1, SavedShapeKept DEF SavedShape
  <2>3. VisitOK' /\ Session' /\ JournalOK'
    BY <1>0, <1>1, <1>2 DEF VisitOK, Session, JournalOK, JournalFits, GoingIn, RaIn, GoingOut, Restoring
  <2>4. WritesOK' /\ OwnCards' /\ SetCards'
    BY <1>1 DEF WritesOK, OwnCards, SetCards, Writes
  <2>5. SetsFine' /\ GamesFine'
    <3>1. /\ InHand' = InHand /\ SetInHand' = SetInHand /\ GameAway' /\ SetAway'
      BY <1>1, <1>2 DEF InHand, SetInHand, GameAway, SetAway, Lent
    <3>2. \A s \in Sets : SetFine(s) => SetFine(s)'
      BY <1>1, <2>1 DEF SetFine, AllIn, Holds
    <3>3. \A g \in Games : GameFine(g) => GameFine(g)'
      BY <1>1, <2>1 DEF GameFine, AllIn, Holds, RaOwn
    <3> QED BY <1>0, <1>1, <3>1, <3>2, <3>3 DEF SetsFine, GamesFine
  <2>6. LentOK'
    BY <1>0, <1>1, <1>2, <2>1
       DEF LentOK, RaIn, GoingOut, Away, InMemcards, InSrm, Whole, HomeOf, AllIn, Holds, RaHeld, RaOwn
  <2> QED BY <2>2, <2>3, <2>4, <2>5, <2>6 DEF Inv
<1>3. CASE step # "recover"
  <2>1. /\ game \in Games /\ set \in Sets \cup {None} /\ JournalFits(game, set)
        /\ InHand = game /\ SetInHand = set
        /\ journal.srm /\ step # "srmOut" => game \in damaged
        /\ step = "srmOut" => journal.srm /\ (game \notin damaged => RaHeld(game))
        /\ step \in {"swapOut", "copyOut"} => (game \notin damaged => RaOwn(game))
    <3>1. /\ game \in Games /\ JournalFits(game, set) /\ InHand = game /\ SetInHand = set
          /\ journal.srm /\ step # "srmOut" => game \in damaged
      BY <1>0, <1>1, <1>3 DEF VisitOK, JournalOK, InHand, SetInHand
    <3>2. set \in Sets \cup {None}
      BY <1>0, <1>1, <1>3 DEF Session, OwnCards, GoingOut
    <3>3. step = "srmOut" => journal.srm /\ (game \notin damaged => RaHeld(game))
      BY <1>0 DEF JournalOK, LentOK, GoingOut
    <3>4. step \in {"swapOut", "copyOut"} => (game \notin damaged => RaOwn(game))
      BY <1>0 DEF LentOK, GoingOut
    <3> QED BY <3>1, <3>2, <3>3, <3>4
  <2> SUFFICES ASSUME NEW g \in Games, NEW s \in Sets \cup {None}, g = game, s = set PROVE Inv'
    BY <2>1
  <2>2. \/ disk' = disk
        \/ /\ step = "srmOut" /\ \A e \in Folders : e # MemcardsOf(g) => disk'[e] = disk[e]
           /\ \A m \in FileNames : m # "card1" => disk'[MemcardsOf(g)][m] = disk[MemcardsOf(g)][m]
        \/ /\ step = "copyOut" /\ s # None /\ \A e \in Folders : e # s => disk'[e] = disk[e]
           /\ \A m \in FileNames : disk'[s][m] = disk[s][m] \/ disk'[s][m] = Torn
    <3>1. \A d \in there, n \in FileNames : Writing(d, n) =>
             \/ step = "srmOut" /\ d = MemcardsOf(g) /\ n = "card1"
             \/ step = "copyOut" /\ d = s
      BY <1>1, <1>3 DEF Writing, Loops, To, Memcards
    <3>2. step = "copyOut" => s # None
      BY <1>0 DEF Session
    <3> QED BY <1>0, <3>1, <3>2, TornAlone
  <2>3. OnlyTouched(g, s)
    BY <1>1, <2>2 DEF OnlyTouched
  <2>4. CASE step = "unJournal"
    <3>1. s = None /\ ~GameAway /\ ~SetAway /\ disk' = disk
      BY <1>0, <2>2, <2>4
         DEF OwnCards, GameAway, SetAway, Lent, GoingIn, RaIn, GoingOut, Restoring, Writes
    <3>2. g \notin damaged' => GameFine(g)'
      BY <1>0, <1>1, <3>1 DEF GamesFine, GameFine, AllIn, Holds, RaOwn
    <3>3. s \notin Sets
      BY <3>1, FoldersApart
    <3>4. journal # NoJournal => journal.srm /\ g \in damaged
      BY <1>3, <2>1, <2>4, <3>1 DEF JournalFits
    <3>5. g \in damaged => Away(g, s)' /\ InSrm(g, s)'
      BY <1>1, <3>1 DEF Away, InSrm, Whole
    <3>6. journal = NoJournal \/ (journal.game = g /\ journal.set = s)
      BY <2>1, CutJournal
    <3>7. journal = NoJournal \/ JournalFits(journal.game, journal.set)
      BY <2>1, CutJournal
    <3> QED BY <1>1, <2>3, <3>1, <3>2, <3>3, <3>4, <3>5, <3>6, <3>7, CutLeaves
  <2>5. CASE step # "unJournal"
    <3>1. /\ Away(g, s) /\ (journal.srm => InSrm(g, s)) /\ (~journal.srm => InMemcards(g, s))
      BY <1>0, <1>1, <1>3, <2>1, <2>5 DEF LentOK, GoingOut
    <3>2. /\ {MemcardsOf(g), BackupOf(g), RaSavesOf(g)} \subseteq Folders
          /\ BackupOf(g) # MemcardsOf(g) /\ RaSavesOf(g) # MemcardsOf(g)
          /\ s # None => s \in Folders /\ s \notin {MemcardsOf(g), BackupOf(g), RaSavesOf(g)}
          /\ CardNames \subseteq FileNames /\ "card2" \in CardNames /\ "card2" # "card1"
      BY FoldersApart DEF FileNames, CardNames
    <3>3. /\ disk'[BackupOf(g)] = disk[BackupOf(g)] /\ disk'[RaSavesOf(g)] = disk[RaSavesOf(g)]
          /\ disk'[MemcardsOf(g)]["card2"] = disk[MemcardsOf(g)]["card2"]
          /\ step # "srmOut" => disk'[MemcardsOf(g)] = disk[MemcardsOf(g)]
          /\ s # None => \A c \in CardNames : disk[s][c] # None => disk'[s][c] # None
      BY <2>2, <3>2, FoldersApart
    <3>4. Away(g, s)'
      BY <1>1, <3>1, <3>3 DEF Away, AllIn, Holds
    <3>5. journal.srm => InSrm(g, s)'
      BY <1>1, <3>1, <3>3 DEF InSrm, Whole, HomeOf, Holds
    <3>6. ~journal.srm => InMemcards(g, s)'
      BY <1>1, <2>1, <3>1, <3>3 DEF InMemcards, Whole, HomeOf, AllIn, Holds
    <3>7. g \notin damaged' => IF journal.srm THEN RaHeld(g)' ELSE RaOwn(g)'
      BY <1>1, <1>3, <2>1, <2>5, <3>3 DEF RaHeld, RaOwn
    <3>8. journal = NoJournal => s = None /\ ~journal.srm
      BY <2>1, CutJournal
    <3>9. journal = NoJournal => (g \notin damaged' => GameFine(g)') /\ s \notin Sets
      BY <3>4, <3>6, <3>7, <3>8, FoldersApart DEF GameFine, Away, InMemcards, Whole, HomeOf
    <3>10. journal = NoJournal \/ (journal.game = g /\ journal.set = s)
      BY <2>1, CutJournal
    <3>11. journal = NoJournal \/ JournalFits(journal.game, journal.set)
      BY <2>1, CutJournal
    <3> QED BY <2>1, <2>3, <3>4, <3>5, <3>6, <3>7, <3>9, <3>10, <3>11, CutLeaves
  <2> QED BY <2>4, <2>5
<1> QED BY <1>2, <1>3

-----------------------------------------------------------------------------
(* The screens.                                                            *)

\* the sets of K alone are touched
LEMMA FineEdit ==
    ASSUME SetsFine, GamesFine, ~GameAway, damaged \subseteq damaged', NEW K \in SUBSET Sets,
           \A d \in Folders \ K : disk'[d] = disk[d] /\ saved'[d] = saved[d] /\ (d \in there' <=> d \in there),
           SetAway => SetInHand \in K,
           \A k \in K \ damaged' : (SetInHand' = k /\ SetAway') \/ SetFine(k)'
    PROVE  SetsFine' /\ GamesFine'
<1>1. ASSUME NEW s \in Sets \ damaged' PROVE (s = SetInHand' /\ SetAway') \/ SetFine(s)'
  <2>1. CASE s \in K
    BY <2>1
  <2>2. CASE s \notin K
    <3>1. SetFine(s)
      BY <2>2 DEF SetsFine
    <3>2. disk'[s] = disk[s] /\ saved'[s] = saved[s] /\ (s \in there' <=> s \in there)
      BY <2>2, FoldersApart
    <3> QED BY <3>1, <3>2 DEF SetFine, AllIn, Holds
  <2> QED BY <2>1, <2>2
<1>2. ASSUME NEW g \in Games \ damaged' PROVE GameFine(g)'
  <2>1. GameFine(g)
    BY DEF GamesFine
  <2>2. {MemcardsOf(g), BackupOf(g), RaSavesOf(g)} \subseteq Folders \ K
    BY FoldersApart
  <2>3. \A d \in {MemcardsOf(g), BackupOf(g), RaSavesOf(g)} :
           disk'[d] = disk[d] /\ saved'[d] = saved[d] /\ (d \in there' <=> d \in there)
    BY <2>2
  <2> QED BY <2>1, <2>3 DEF GameFine, AllIn, Holds, RaOwn
<1> QED BY <1>1, <1>2 DEF SetsFine, GamesFine

\* a visit of the screens goes on
LEMMA EditGoesOn ==
    ASSUME TypeOK', stage' = "edit", journal' = NoJournal, VisitOK', SavedShape', SetsFine', GamesFine', WritesOK'
    PROVE  Inv'
<1>1. step' \in Writes \cup {"renameDir", "repoint", "ini", "row"}
  BY DEF VisitOK
<1>2. Session' /\ JournalOK'
  BY <1>1 DEF Session, JournalOK, NoJournal, GoingIn, RaIn, GoingOut, Restoring, Writes
<1>3. OwnCards' /\ SetCards' /\ LentOK'
  BY <1>1 DEF OwnCards, SetCards, LentOK, RaIn, GoingOut, Writes
<1> QED BY <1>2, <1>3 DEF Inv

\* what the screens find
LEMMA OnAScreen ==
    ASSUME Inv, stage \in {"rest", "edit"}
    PROVE  /\ journal = NoJournal /\ ~GameAway
           /\ SetAway <=> step \in Writes
           /\ step \in Writes \cup {"renameDir", "repoint"} => set \in Sets /\ SetInHand = set
           /\ \A s \in Sets \ damaged : SetFine(s) \/ (s = set /\ step \in Writes)
           /\ \A g \in Games \ damaged : GameFine(g)
<1>0. TypeOK /\ VisitOK /\ JournalOK /\ SetsFine /\ GamesFine
  BY DEF Inv
<1>1. step \in Writes \cup {"renameDir", "repoint", "ini", "row", "rest"}
  BY <1>0 DEF VisitOK
<1>2. /\ journal = NoJournal /\ ~GameAway
      /\ SetAway <=> step \in Writes
      /\ step \in Writes \cup {"renameDir", "repoint"} => set \in Sets /\ SetInHand = set
  BY <1>0, <1>1
     DEF VisitOK, JournalOK, GameAway, SetAway, Lent, SetInHand, GoingIn, RaIn, GoingOut, Restoring, Writes
<1>3. /\ \A s \in Sets \ damaged : SetFine(s) \/ (s = set /\ step \in Writes)
      /\ \A g \in Games \ damaged : GameFine(g)
  BY <1>0, <1>2 DEF SetsFine, GamesFine
<1> QED BY <1>2, <1>3

\* the folder of a set
LEMMA MkSetKeeps ==
    ASSUME Inv, TypeOK', CreateDirStep, step = "mkSet"
    PROVE  Inv'
<1>0. TypeOK /\ SavedShape /\ VisitOK /\ SetsFine /\ GamesFine /\ WritesOK
  BY DEF Inv
<1>1. /\ stage = "edit" /\ set \in Sets /\ On(set) /\ there' = there \cup {set} /\ set \in Folders
      /\ UNCHANGED <<disk, journal, saved, damaged>>
  BY <1>0, StagesOfSteps, FoldersApart DEF VisitOK, CreateDirStep, Dir, Writes, history
<1>2. /\ step' = (IF game = None THEN "blank" ELSE "store") /\ stage' = "edit"
      /\ UNCHANGED <<game, set, name, how>>
      /\ left' = IF game = None THEN CardNames ELSE Listed(MemcardsOf(game))
  BY <1>1, AfterOther DEF On, ToCopy, Memcards
<1>3. SavedShape' /\ journal' = NoJournal
  BY <1>0, <1>1, OnAScreen, SavedShapeKept DEF SavedShape
<1>4. VisitOK'
  BY <1>0, <1>1, <1>2 DEF VisitOK, TypeOK, Writes
<1>5. SetsFine' /\ GamesFine'
  <2>1. SetInHand' = set /\ SetAway'
    BY <1>2 DEF SetInHand, SetAway, Writes
  <2>2. {set} \in SUBSET Sets /\ SetInHand = set /\ ~GameAway
    BY <1>1, OnAScreen DEF Writes
  <2>3. \A d \in Folders \ {set} : disk'[d] = disk[d] /\ saved'[d] = saved[d] /\ (d \in there' <=> d \in there)
    BY <1>1
  <2> QED BY <1>0, <1>1, <2>1, <2>2, <2>3, FineEdit
<1>6. WritesOK'
  <2>1. set \notin damaged => (\A c \in CardNames : saved[set][c] = None) /\ game \notin damaged
    BY <1>0 DEF WritesOK, Writes
  <2>2. game \in Games \ damaged => Listed(MemcardsOf(game)) = CardNames
    BY <1>1, OnAScreen DEF GameFine, AllIn, Holds, Listed
  <2>3. game \in Games \cup {None}
    BY <1>0 DEF TypeOK
  <2> QED BY <1>1, <1>2, <2>1, <2>2, <2>3 DEF WritesOK, Writes
<1> QED BY <1>2, <1>3, <1>4, <1>5, <1>6, EditGoesOn

\* the cards of a new set: blank ones, or those of a game
LEMMA FillSetKeeps ==
    ASSUME Inv, TypeOK', CopyStep, step \in {"blank", "store"}
    PROVE  Inv'
<1>0. TypeOK /\ SavedShape /\ VisitOK /\ SetsFine /\ GamesFine /\ WritesOK
  BY DEF Inv
<1>1. /\ stage = "edit" /\ set \in Sets /\ set \in there /\ set \in Folders
      /\ UNCHANGED <<there, journal, saved, damaged>>
      /\ set \notin damaged => \A c \in CardNames : saved[set][c] = None
      /\ set \notin damaged => game \notin damaged
      /\ set \notin damaged => \A c \in CardNames \ left : disk[set][c] # None
      /\ step = "store" => game \in Games
  <2>1. stage = "edit" /\ set \in Sets /\ (step = "store" => game \in Games)
    BY <1>0, StagesOfSteps DEF VisitOK, Writes
  <2> QED BY <1>0, <2>1, FoldersApart DEF WritesOK, CopyStep, Writes, history
<1>2. SavedShape' /\ journal' = NoJournal
  BY <1>0, <1>1, OnAScreen, SavedShapeKept DEF SavedShape
<1>3. {set} \in SUBSET Sets /\ SetInHand = set /\ ~GameAway
  BY <1>1, OnAScreen DEF Writes
<1>4. CASE left # {}
  <2>1. /\ UNCHANGED <<stage, step, game, set, name, how>> /\ left' = left \ {NextCard}
        /\ \A e \in Folders : e # set => disk'[e] = disk[e]
        /\ \A m \in FileNames : m # NextCard => disk'[set][m] = disk[set][m]
        /\ disk'[set][NextCard] # None
    <3> DEFINE content == IF step = "blank" THEN Blank ELSE disk[From(step)][NextCard]
    <3>1. content \in Content \cup {None} /\ NextCard \in FileNames
      BY <1>0, <1>4, FoldersOfSteps DEF CopyStep, TypeOK, Content
    <3>2. /\ UNCHANGED <<stage, step, game, set, name, how>> /\ left' = left \ {NextCard}
          /\ Copy(content, set, NextCard)
      BY <1>4 DEF CopyStep, visit, To
    <3> HIDE DEF content
    <3> QED BY <1>0, <1>1, <3>1, <3>2, CopyWrites, FoldersApart
  <2>2. VisitOK'
    BY <1>0, <1>1, <2>1 DEF VisitOK, Writes
  <2>3. SetsFine' /\ GamesFine'
    <3>1. SetInHand' = set /\ SetAway'
      BY <2>1 DEF SetInHand, SetAway, Writes
    <3>2. \A d \in Folders \ {set} : disk'[d] = disk[d] /\ saved'[d] = saved[d] /\ (d \in there' <=> d \in there)
      BY <1>1, <2>1
    <3> QED BY <1>0, <1>1, <1>3, <3>1, <3>2, FineEdit
  <2>4. WritesOK'
    <3>1. ASSUME set \notin damaged, NEW c \in CardNames \ left' PROVE disk'[set][c] # None
      <4>1. c \in FileNames
        BY DEF FileNames
      <4> QED BY <1>1, <2>1, <3>1, <4>1
    <3> QED BY <1>1, <2>1, <3>1 DEF WritesOK
  <2> QED BY <1>1, <1>2, <2>1, <2>2, <2>3, <2>4, EditGoesOn
<1>5. CASE left = {}
  <2>1. Rest /\ disk' = disk
    BY <1>1, <1>5, AfterOther DEF CopyStep, On
  <2>2. SetsFine' /\ GamesFine'
    <3>1. ASSUME NEW s \in {set}, s \notin damaged' PROVE SetFine(s)'
      BY <1>1, <1>5, <2>1, <3>1 DEF SetFine, AllIn, Holds
    <3>2. \A d \in Folders \ {set} : disk'[d] = disk[d] /\ saved'[d] = saved[d] /\ (d \in there' <=> d \in there)
      BY <1>1, <2>1
    <3> QED BY <1>0, <1>1, <1>3, <3>1, <3>2, FineEdit
  <2> QED BY <1>2, <2>1, <2>2, RestIsFine
<1> QED BY <1>4, <1>5

\* a set is removed
LEMMA RmSetKeeps ==
    ASSUME Inv, TypeOK', RmDirStep, step = "rmSet"
    PROVE  Inv'
<1>0. TypeOK /\ SavedShape /\ VisitOK /\ SetsFine /\ GamesFine /\ WritesOK
  BY DEF Inv
<1>1. stage = "edit" /\ set \in Sets /\ Dir(step) = set
  BY <1>0, StagesOfSteps DEF VisitOK, Dir, Writes
<1>2. /\ \A e \in Folders : e # set => disk'[e] = disk[e] /\ (e \in there' <=> e \in there)
      /\ \/ UNCHANGED <<stage, step, left, game, set, name, how>>
         \/ Rest /\ set \notin there'
      /\ UNCHANGED <<ini, row, journal, saved, damaged>>
  <2>1. After(step) = "rest"
    BY <1>1, AfterOther
  <2> QED BY <1>1, <2>1, RmDirTouches DEF On
<1>3. SavedShape' /\ journal' = NoJournal
  <2>1. \A g \in Games : RaSavesOf(g) \in there'
    BY <1>0, <1>1, <1>2, FoldersApart DEF SavedShape
  <2> QED BY <1>0, <1>1, <1>2, <2>1, OnAScreen, SavedShapeKept
<1>4. {set} \in SUBSET Sets /\ SetInHand = set /\ ~GameAway
  BY <1>1, OnAScreen DEF Writes
<1>5. \A d \in Folders \ {set} : disk'[d] = disk[d] /\ saved'[d] = saved[d] /\ (d \in there' <=> d \in there)
  BY <1>2
<1>6. set \notin damaged => (\A c \in CardNames : saved[set][c] = None) /\ game \notin damaged
  BY <1>0 DEF WritesOK, Writes
<1>7. CASE UNCHANGED <<stage, step, left, game, set, name, how>>
  <2>1. SetInHand' = set /\ SetAway'
    BY <1>7 DEF SetInHand, SetAway, Writes
  <2>2. SetsFine' /\ GamesFine'
    BY <1>0, <1>2, <1>4, <1>5, <2>1, FineEdit
  <2>3. VisitOK' /\ WritesOK'
    BY <1>0, <1>1, <1>2, <1>6, <1>7 DEF VisitOK, WritesOK, Writes
  <2> QED BY <1>1, <1>3, <1>7, <2>2, <2>3, EditGoesOn
<1>8. CASE Rest /\ set \notin there'
  <2>1. ASSUME NEW s \in {set}, s \notin damaged' PROVE SetFine(s)'
    BY <1>2, <1>6, <1>8, <2>1 DEF SetFine
  <2>2. SetsFine' /\ GamesFine'
    BY <1>0, <1>2, <1>4, <1>5, <2>1, FineEdit
  <2> QED BY <1>3, <1>8, <2>2, RestIsFine
<1> QED BY <1>2, <1>7, <1>8

\* a set is renamed, its saves with it
LEMMA RenameDirKeeps ==
    ASSUME Inv, TypeOK', RenameDirStep
    PROVE  Inv'
<1>0. TypeOK /\ SavedShape /\ VisitOK /\ SetsFine /\ GamesFine
  BY DEF Inv
<1>1. /\ step = "renameDir" /\ stage = "edit" /\ set \in Sets /\ name \in Sets /\ set \in there /\ name \notin there
      /\ set \in Folders /\ name \in Folders /\ set # name /\ On(set)
      /\ there' = (there \ {set}) \cup {name} /\ damaged \subseteq damaged'
      /\ set \in damaged => name \in damaged'
      /\ journal' = journal
  BY <1>0, StagesOfSteps, FoldersApart DEF VisitOK, RenameDirStep
<1>2. step' = "repoint" /\ stage' = "edit" /\ UNCHANGED <<game, set, name, how>>
  BY <1>1, AfterOther DEF On
<1>3. /\ \A d \in Folders \ {set, name} : disk'[d] = disk[d] /\ saved'[d] = saved[d]
      /\ disk'[name] = disk[set] /\ saved'[name] = saved[set] /\ saved'[set] = NoSaves
  <2>1. /\ disk' = [disk EXCEPT ![name] = disk[set], ![set] = disk[name]]
        /\ saved' = [saved EXCEPT ![name] = saved[set], ![set] = NoSaves]
    BY DEF RenameDirStep
  <2> QED BY <1>0, <1>1, <2>1 DEF TypeOK
<1>4. SavedShape' /\ journal' = NoJournal
  <2>1. \A n \in FileNames : NoSaves[n] = None
    BY DEF NoSaves
  <2>2. {"srm", "bak"} \subseteq FileNames
    BY DEF FileNames
  <2>3. /\ \A d \in Folders : saved'[d]["bak"] = None
        /\ \A s \in Sets : saved'[s]["srm"] = None
    <3>1. \A d \in Folders : saved'[d] = saved[d] \/ saved'[d] = saved[set] \/ saved'[d] = NoSaves
      BY <1>3
    <3>2. \A s \in Sets : s \in Folders /\ (saved'[s] = saved[s] \/ saved'[s] = saved[set] \/ saved'[s] = NoSaves)
      BY <3>1, FoldersApart
    <3> QED BY <1>0, <1>1, <2>1, <2>2, <3>1, <3>2 DEF SavedShape
  <2>4. \A g \in Games : {MemcardsOf(g), RaSavesOf(g)} \subseteq Folders \ {set, name}
    BY <1>1, FoldersApart
  <2>5. \A g \in Games : /\ saved'[MemcardsOf(g)] = saved[MemcardsOf(g)]
                         /\ saved'[RaSavesOf(g)] = saved[RaSavesOf(g)] /\ RaSavesOf(g) \in there'
    BY <1>0, <1>1, <1>3, <2>4 DEF SavedShape
  <2>6. SavedShape'
    BY <1>0, <2>3, <2>5 DEF SavedShape
  <2> QED BY <1>1, <2>6, OnAScreen
<1>5. VisitOK'
  BY <1>0, <1>1, <1>2 DEF VisitOK, Writes
<1>6. SetsFine' /\ GamesFine'
  <2>1. {set, name} \in SUBSET Sets /\ ~GameAway /\ ~SetAway
    BY <1>1, OnAScreen DEF Writes
  <2>2. \A d \in Folders \ {set, name} : disk'[d] = disk[d] /\ saved'[d] = saved[d] /\ (d \in there' <=> d \in there)
    BY <1>1, <1>3
  <2>3. ASSUME NEW k \in {set, name}, k \notin damaged' PROVE SetFine(k)'
    <3>1. CASE k = set
      <4>1. \A c \in CardNames : NoSaves[c] = None
        BY DEF NoSaves, FileNames
      <4> QED BY <1>1, <1>3, <3>1, <4>1 DEF SetFine
    <3>2. CASE k = name
      <4>1. SetFine(set)
        BY <1>0, <1>1, <2>1, <2>3, <3>2 DEF SetsFine
      <4> QED BY <1>1, <1>3, <3>2, <4>1 DEF SetFine, AllIn, Holds
    <3> QED BY <3>1, <3>2
  <2> QED BY <1>0, <1>1, <2>1, <2>2, <2>3, FineEdit
<1>7. WritesOK'
  BY <1>2 DEF WritesOK, Writes
<1> QED BY <1>2, <1>4, <1>5, <1>6, <1>7, EditGoesOn

\* the set of a game, or of the games that named the renamed one
LEMMA NameSetKeeps ==
    ASSUME Inv, TypeOK', RepointStep \/ (SetStep /\ stage = "edit")
    PROVE  Inv'
<1>0. TypeOK /\ SavedShape /\ VisitOK /\ SetsFine /\ GamesFine
  BY DEF Inv
<1>1. /\ stage = "edit" /\ step \in {"repoint", "ini", "row"}
      /\ UNCHANGED <<there, disk, journal, saved, damaged>>
      /\ On(set) \/ (step = "repoint" /\ UNCHANGED <<stage, step, left, game, set, name, how>>)
  BY <1>0, StagesOfSteps DEF VisitOK, RepointStep, SetStep, files, history, work, visit
<1>2. /\ ~GameAway /\ ~SetAway /\ journal = NoJournal
  BY <1>1, OnAScreen DEF Writes
<1>3. \/ Rest
      \/ /\ stage' = "edit" /\ UNCHANGED <<game, set, name, how>>
         /\ step' = (IF step = "ini" THEN "row" ELSE step) /\ step # "row"
  BY <1>1, AfterOther DEF On
<1>4. CASE Rest
  BY <1>1, <1>2, <1>4, RestKeeps
<1>5. CASE ~Rest
  <2>1. VisitOK' /\ WritesOK'
    BY <1>0, <1>1, <1>3, <1>5 DEF VisitOK, WritesOK, Writes
  <2>2. SavedShape'
    BY <1>0, <1>1, SavedShapeKept DEF SavedShape
  <2>3. SetsFine' /\ GamesFine'
    <3>1. {} \in SUBSET Sets
      OBVIOUS
    <3> QED BY <1>0, <1>1, <1>2, <3>1, FineEdit
  <2> QED BY <1>1, <1>2, <1>3, <1>5, <2>1, <2>2, <2>3, EditGoesOn
<1> QED BY <1>4, <1>5

-----------------------------------------------------------------------------
(* A visit begins.                                                         *)

\* a launch
LEMMA LaunchKeeps ==
    ASSUME Inv, TypeOK', NEW g \in Games, NEW e \in {"pcsx", "ra"}, NEW b \in BOOLEAN, Launch(g, e, b)
    PROVE  Inv'
<1>0. TypeOK /\ SavedShape /\ VisitOK /\ SetsFine /\ GamesFine
  BY DEF Inv
<1>1. /\ step = "rest" /\ stage = "rest" /\ journal = NoJournal /\ ~GameAway /\ ~SetAway /\ game' = g
      /\ UNCHANGED <<there, disk, ini, row, journal, saved, damaged>>
      /\ \/ /\ step' = "play" /\ stage' = "play" /\ how' = "dir" /\ set' = row[g] /\ row[g] \in there
         \/ /\ step' \in {"ini", "swapIn"} /\ stage' = "in" /\ how' \in {"pcsx", "ra"} /\ set' = None
  <2>1. step = "rest" /\ game' = g /\ UNCHANGED <<there, disk, ini, row, journal, saved, damaged>>
    BY DEF Launch, Visit, files, setOf, history
  <2>2. \/ /\ step' = "play" /\ stage' = "play" /\ how' = "dir" /\ set' = row[g] /\ row[g] \in there
        \/ /\ step' \in {"ini", "swapIn"} /\ stage' = "in" /\ how' \in {"pcsx", "ra"} /\ set' = None
    BY DEF Launch, Visit, SetDir
  <2>3. stage = "rest"
    BY <1>0, <2>1, StagesOfSteps
  <2> QED BY <2>1, <2>2, <2>3, OnAScreen DEF Writes
<1>2. row[g] \in there => row[g] \in Sets /\ row[g] # None
  BY <1>0, FoldersApart DEF TypeOK
<1>3. SavedShape'
  BY <1>0, <1>1, SavedShapeKept DEF SavedShape
<1>4. VisitOK' /\ Session' /\ JournalOK'
  BY <1>1, <1>2 DEF VisitOK, Session, JournalOK, NoJournal, GoingIn, RaIn, GoingOut, Restoring, Writes
<1>5. SetsFine' /\ GamesFine'
  <2>1. {} \in SUBSET Sets
    OBVIOUS
  <2> QED BY <1>0, <1>1, <2>1, FineEdit
<1>6. WritesOK' /\ OwnCards' /\ SetCards' /\ LentOK'
  BY <1>1 DEF WritesOK, OwnCards, SetCards, LentOK, Writes, RaIn, GoingOut
<1> QED BY <1>3, <1>4, <1>5, <1>6 DEF Inv

\* a set is chosen for a game
LEMMA ScreenKeeps ==
    ASSUME Inv, TypeOK', NEW g \in Games, NEW s \in Sets \cup {SONY}, ChooseCard(g, s)
    PROVE  Inv'
<1>0. TypeOK /\ SavedShape /\ VisitOK /\ SetsFine /\ GamesFine
  BY DEF Inv
<1>1. /\ step = "rest" /\ step' = "ini" /\ stage' = "edit" /\ game' = g /\ set' = s
      /\ UNCHANGED <<there, disk, journal, saved, damaged>>
  BY DEF ChooseCard, Edit, Visit, files, history
<1>2. stage = "rest"
  BY <1>0, <1>1, StagesOfSteps
<1>3. journal = NoJournal /\ ~GameAway /\ ~SetAway
  BY <1>1, <1>2, OnAScreen DEF Writes
<1>4. SavedShape' /\ VisitOK' /\ WritesOK'
  BY <1>0, <1>1, SavedShapeKept DEF SavedShape, VisitOK, WritesOK, Writes
<1>5. SetsFine' /\ GamesFine'
  <2>1. {} \in SUBSET Sets
    OBVIOUS
  <2> QED BY <1>0, <1>1, <1>3, <2>1, FineEdit
<1> QED BY <1>1, <1>3, <1>4, <1>5, EditGoesOn

\* a set s is made, removed, written over or renamed
LEMMA EditKeeps ==
    ASSUME Inv, TypeOK', NEW s \in Sets,
           \/ createCard(s) \/ removeCard(s)
           \/ \E g \in Games : storeGameCardsAsSet(g, s)
           \/ \E t \in Sets : renameCard(s, t)
    PROVE  Inv'
<1>0. TypeOK /\ SavedShape /\ VisitOK /\ SetsFine /\ GamesFine
  BY DEF Inv
<1>1. /\ step = "rest" /\ stage' = "edit" /\ step' \in {"mkSet", "rmSet", "renameDir"} /\ set' = s
      /\ UNCHANGED <<there, disk, journal>>
      /\ saved' = saved \/ saved' = [saved EXCEPT ![s] = NoSaves]
      /\ damaged' = damaged \/ damaged' = damaged \cup {s}
      /\ step' = "renameDir" => s \in there /\ name' \in Sets /\ name' \notin there /\ UNCHANGED <<saved, damaged>>
  BY DEF createCard, removeCard, storeGameCardsAsSet, renameCard, Edit, Visit, files, history
<1>2. stage = "rest"
  BY <1>0, <1>1, StagesOfSteps
<1>3. journal = NoJournal /\ ~GameAway /\ ~SetAway /\ (\A k \in Sets \ damaged : SetFine(k))
  BY <1>1, <1>2, OnAScreen DEF Writes
<1>4. /\ s \in Folders /\ \A d \in Folders \ {s} : saved'[d] = saved[d]
      /\ saved'[s] = saved[s] \/ saved'[s] = NoSaves
      /\ saved' = saved \/ saved'[s] = NoSaves
  BY <1>0, <1>1, FoldersApart DEF TypeOK
<1>5. SavedShape'
  <2>1. NoSaves["bak"] = None /\ NoSaves["srm"] = None
    BY DEF NoSaves, FileNames
  <2>2. \A d \in Folders : saved'[d]["bak"] = None
    BY <1>0, <1>4, <2>1 DEF SavedShape
  <2>3. \A k \in Sets : saved'[k]["srm"] = None
    BY <1>0, <1>4, <2>1, FoldersApart DEF SavedShape
  <2>4. \A g \in Games : /\ saved'[MemcardsOf(g)] = saved[MemcardsOf(g)]
                         /\ saved'[RaSavesOf(g)] = saved[RaSavesOf(g)]
    BY <1>4, FoldersApart
  <2> QED BY <1>0, <1>1, <2>2, <2>3, <2>4 DEF SavedShape
<1>6. VisitOK'
  <2>1. step' = "mkSet" \/ step' = "rmSet" \/ step' = "renameDir"
    BY <1>1
  <2> QED BY <1>1, <2>1 DEF VisitOK, Writes
<1>7. WritesOK'
  <2>1. CASE createCard(s)
    <3>1. s \notin damaged => \A c \in CardNames : saved[s][c] = None
      BY <1>3, <2>1 DEF SetFine, createCard
    <3>2. step' = "mkSet" /\ game' = None /\ UNCHANGED <<saved, damaged>> /\ None \notin damaged
      BY <1>0, <2>1, FoldersApart DEF createCard, Edit, Visit, history, TypeOK
    <3> QED BY <1>1, <3>1, <3>2 DEF WritesOK, Writes
  <2>2. CASE removeCard(s)
    <3>1. step' = "rmSet" /\ game' = None /\ saved'[s] = NoSaves /\ UNCHANGED damaged /\ None \notin damaged
      BY <1>0, <1>4, <2>2, FoldersApart DEF removeCard, Edit, Visit, TypeOK
    <3>2. \A c \in CardNames : NoSaves[c] = None
      BY DEF NoSaves, FileNames
    <3> QED BY <1>1, <3>1, <3>2 DEF WritesOK, Writes
  <2>3. ASSUME NEW g \in Games, storeGameCardsAsSet(g, s) PROVE WritesOK'
    <3>1. /\ step' = "mkSet" /\ game' = g /\ saved'[s] = NoSaves
          /\ damaged' = IF g \in damaged THEN damaged \cup {s} ELSE damaged
      BY <1>0, <1>4, <2>3 DEF storeGameCardsAsSet, Edit, Visit, TypeOK
    <3>2. \A c \in CardNames : NoSaves[c] = None
      BY DEF NoSaves, FileNames
    <3> QED BY <1>1, <3>1, <3>2 DEF WritesOK, Writes
  <2>4. ASSUME NEW t \in Sets, renameCard(s, t) PROVE WritesOK'
    BY <2>4 DEF renameCard, Edit, Visit, WritesOK, Writes
  <2> QED BY <2>1, <2>2, <2>3, <2>4
<1>8. SetsFine' /\ GamesFine'
  <2>1. {s} \in SUBSET Sets /\ damaged \subseteq damaged'
    BY <1>1
  <2>2. \A d \in Folders \ {s} : disk'[d] = disk[d] /\ saved'[d] = saved[d] /\ (d \in there' <=> d \in there)
    BY <1>1, <1>4
  <2>3. step' # "renameDir" => SetInHand' = s /\ SetAway'
    BY <1>1 DEF SetInHand, SetAway, Writes
  <2>4. step' = "renameDir" /\ s \notin damaged => SetFine(s)'
    BY <1>1, <1>3 DEF SetFine, AllIn, Holds
  <2>5. \A k \in {s} \ damaged' : (SetInHand' = k /\ SetAway') \/ SetFine(k)'
    BY <2>1, <2>3, <2>4
  <2> QED BY <1>0, <1>3, <2>1, <2>2, <2>5, FineEdit
<1> QED BY <1>1, <1>3, <1>5, <1>6, <1>7, <1>8, EditGoesOn

-----------------------------------------------------------------------------
(* The theorems.                                                           *)

\* at first everything is where it belongs
LEMMA InitInv == Init => Inv
<1> SUFFICES ASSUME Init PROVE Inv
  OBVIOUS
<1> USE FoldersApart, MemoryCardsAssumption
<1>1. /\ \A s \in Sets, c \in CardNames : disk[s][c] = (IF s \in FirstSets THEN Blank ELSE None)
      /\ \A s \in Sets : disk[s]["srm"] = None /\ disk[s]["bak"] = None
      /\ \A g \in Games, c \in CardNames : disk[MemcardsOf(g)][c] = g
      /\ \A g \in Games : /\ disk[MemcardsOf(g)]["srm"] = None /\ disk[MemcardsOf(g)]["bak"] = None
                          /\ disk[RaSavesOf(g)] = [n \in FileNames |-> IF n = "srm" THEN RaSave ELSE None]
                          /\ disk[RaSavesOf(g)]["srm"] = RaSave /\ disk[RaSavesOf(g)]["bak"] = None
      /\ disk \in [Folders -> [FileNames -> Content \cup {None}]]
  <2>1. {"card1", "card2", "srm", "bak"} = FileNames /\ CardNames = {"card1", "card2"}
    BY DEF FileNames, CardNames
  <2>2. \A d \in Folders, n \in FileNames : disk[d][n] =
                  CASE d \in FirstSets /\ n \in CardNames -> Blank
                    [] d \in {MemcardsOf(g) : g \in Games} /\ n \in CardNames -> d[1]
                    [] d \in {RaSavesOf(g) : g \in Games} /\ n = "srm" -> RaSave
                    [] OTHER -> None
    BY DEF Init
  <2>3. \A g \in Games : MemcardsOf(g)[1] = g
    BY DEF MemcardsOf
  <2>4. /\ \A s \in Sets, c \in CardNames : disk[s][c] = (IF s \in FirstSets THEN Blank ELSE None)
        /\ \A s \in Sets : disk[s]["srm"] = None /\ disk[s]["bak"] = None
    BY <2>1, <2>2
  <2>5. \A g \in Games, c \in CardNames : disk[MemcardsOf(g)][c] = g
    BY <2>1, <2>2, <2>3
  <2>6. \A g \in Games : disk[MemcardsOf(g)]["srm"] = None /\ disk[MemcardsOf(g)]["bak"] = None
    <3>1. \A g \in Games : MemcardsOf(g) \in Folders /\ MemcardsOf(g) \notin {RaSavesOf(h) : h \in Games}
      OBVIOUS
    <3>2. {"srm", "bak"} \subseteq FileNames \ CardNames
      BY <2>1
    <3> QED BY <2>2, <3>1, <3>2
  <2>7. \A g \in Games, n \in FileNames : disk[RaSavesOf(g)][n] = IF n = "srm" THEN RaSave ELSE None
    BY <2>1, <2>2
  <2>8. \A d \in Folders, n \in FileNames : disk[d][n] \in Content \cup {None}
    BY <2>2, <2>3 DEF Content
  <2>9. disk = [d \in Folders |-> [n \in FileNames |-> disk[d][n]]]
    BY DEF Init
  <2>10. \A g \in Games : disk[RaSavesOf(g)] = [n \in FileNames |-> IF n = "srm" THEN RaSave ELSE None]
    BY <2>7, <2>9
  <2>11. disk \in [Folders -> [FileNames -> Content \cup {None}]]
    BY <2>8, <2>9
  <2>12. \A g \in Games : disk[RaSavesOf(g)]["srm"] = RaSave /\ disk[RaSavesOf(g)]["bak"] = None
    <3>1. {"srm", "bak"} \subseteq FileNames /\ "bak" # "srm"
      BY <2>1
    <3> QED BY <2>7, <3>1
  <2> QED BY <2>4, <2>5, <2>6, <2>10, <2>11, <2>12
<1>2. /\ \A d \in Folders : saved[d] = IF d \in Sets \cup Games \X {"memcards", "saves"} THEN disk[d] ELSE NoSaves
      /\ saved \in [Folders -> [FileNames -> Content \cup {None}]]
  <2>1. NoSaves \in [FileNames -> Content \cup {None}]
    BY DEF NoSaves
  <2> QED BY <1>1, <2>1 DEF Init
<1>3. /\ there = FirstSets \cup Games \X {"memcards", "saves"}
      /\ \A g \in Games : MemcardsOf(g) \in there /\ RaSavesOf(g) \in there /\ BackupOf(g) \notin there
      /\ there \cap Sets = FirstSets
  <2>1. \A g \in Games : BackupOf(g) \notin Games \X {"memcards", "saves"}
    BY DEF BackupOf
  <2>2. Games \X {"memcards", "saves"} \subseteq GameFolders
    BY DEF GameFolders
  <2> QED BY <2>1, <2>2 DEF Init, MemcardsOf, RaSavesOf
<1>4. TypeOK
  <2>1. there \subseteq Folders
    BY <1>3 DEF Folders, GameFolders
  <2>2. /\ ini \in [Games -> Sets \cup {SONY}] /\ row \in [Games -> Sets \cup {SONY}]
        /\ journal \in Journals /\ damaged \subseteq Games \cup Sets
    BY DEF Init, Journals
  <2>3. /\ stage \in Stages /\ step \in StepNames /\ left \subseteq CardNames
        /\ game \in Games \cup {None} /\ set \in Sets \cup {SONY, None}
        /\ name \in Sets \cup {None} /\ how \in {"none", "pcsx", "dir", "ra", "recover"}
    BY DEF Init, Stages, StepNames
  <2>4. saves \in 0 .. MaxSaves /\ visits \in 0 .. MaxVisits /\ cuts \in 0 .. MaxCuts
    BY DEF Init
  <2> QED BY <1>1, <1>2, <2>1, <2>2, <2>3, <2>4 DEF TypeOK
<1>5. /\ \A g \in Games : saved[MemcardsOf(g)] = disk[MemcardsOf(g)] /\ saved[RaSavesOf(g)] = disk[RaSavesOf(g)]
      /\ \A s \in Sets : saved[s] = disk[s]
  BY <1>2 DEF MemcardsOf, RaSavesOf
<1>6. SavedShape
  <2>1. {"srm", "bak"} \subseteq FileNames /\ "bak" # "srm"
    BY DEF FileNames
  <2>2. \A d \in Folders : saved[d]["bak"] = None
    <3>1. ASSUME NEW d \in Folders PROVE saved[d]["bak"] = None
      <4>1. CASE d \in Sets
        BY <1>1, <1>5, <4>1
      <4>2. CASE d \notin Sets
        <5>1. PICK g \in Games : d \in {MemcardsOf(g), BackupOf(g), RaSavesOf(g)}
          BY <4>2 DEF Folders, GameFolders, MemcardsOf, BackupOf, RaSavesOf
        <5>2. CASE d = BackupOf(g)
          <6>1. d \notin Sets \cup Games \X {"memcards", "saves"}
            BY <4>2, <5>2 DEF BackupOf
          <6> QED BY <1>2, <2>1, <6>1 DEF NoSaves
        <5>3. CASE d = MemcardsOf(g)
          BY <1>1, <1>5, <5>3
        <5>4. CASE d = RaSavesOf(g)
          BY <1>1, <1>5, <2>1, <5>4
        <5> QED BY <5>1, <5>2, <5>3, <5>4
      <4> QED BY <4>1, <4>2
    <3> QED BY <3>1
  <2>3. ASSUME NEW g \in Games
        PROVE  /\ \A c \in CardNames : saved[MemcardsOf(g)][c] # None
               /\ saved[MemcardsOf(g)]["srm"] = None /\ RaSavesOf(g) \in there
               /\ saved[RaSavesOf(g)] = [n \in FileNames |-> IF n = "srm" THEN RaSave ELSE None]
    BY <1>1, <1>3, <1>5
  <2>4. \A s \in Sets : saved[s]["srm"] = None
    BY <1>1, <1>5
  <2> QED BY <2>2, <2>3, <2>4 DEF SavedShape
<1>7. SetsFine
  <2>1. ASSUME NEW s \in Sets PROVE SetFine(s)
    BY <1>1, <1>3, <1>5 DEF SetFine, AllIn, Holds
  <2> QED BY <2>1 DEF SetsFine
<1>8. GamesFine
  <2>1. ASSUME NEW g \in Games PROVE GameFine(g)
    <3>1. AllIn(MemcardsOf(g), MemcardsOf(g), CardNames)
      BY <1>1, <1>5 DEF AllIn, Holds
    <3>2. RaOwn(g)
      BY <1>1 DEF RaOwn
    <3> QED BY <1>3, <3>1, <3>2 DEF GameFine
  <2> QED BY <2>1 DEF GamesFine
<1>9. VisitOK /\ Session /\ JournalOK
  BY DEF Init, VisitOK, Session, JournalOK, GoingIn, RaIn, GoingOut, Restoring
<1>10. WritesOK /\ OwnCards /\ SetCards /\ LentOK
  BY DEF Init, WritesOK, OwnCards, SetCards, LentOK, Writes, RaIn, GoingOut
<1> QED BY <1>4, <1>6, <1>7, <1>8, <1>9, <1>10 DEF Inv

\* one lemma for each action
LEMMA StepKeeps ==
    ASSUME CutStages \subseteq {"in", "play", "back"}, Inv, Next
    PROVE  Inv'
<1>1. TypeOK'
  BY TypeStep
<1>2. ASSUME Visits PROVE Inv'
  <2>1. ASSUME NEW g \in Games, Launch(g, "pcsx", FALSE) \/ Launch(g, "pcsx", TRUE) \/ Launch(g, "ra", FALSE)
        PROVE  Inv'
    BY <1>1, <2>1, LaunchKeeps
  <2>2. ASSUME NEW g \in Games, NEW s \in Sets \cup {SONY}, ChooseCard(g, s) PROVE Inv'
    BY <1>1, <2>2, ScreenKeeps
  <2>3. ASSUME NEW s \in Sets, createCard(s) \/ removeCard(s) PROVE Inv'
    BY <1>1, <2>3, EditKeeps
  <2>4. ASSUME NEW g \in Games, NEW s \in Sets, storeGameCardsAsSet(g, s) PROVE Inv'
    BY <1>1, <2>4, EditKeeps
  <2>5. ASSUME NEW s \in Sets, NEW t \in Sets, renameCard(s, t) PROVE Inv'
    BY <1>1, <2>5, EditKeeps
  <2> QED BY <1>2, <2>1, <2>2, <2>3, <2>4, <2>5 DEF Visits
<1>3. ASSUME CopyStep PROVE Inv'
  <2>1. step \in {"backup", "copyIn", "copyOut", "copyOwn", "blank", "store"}
    BY <1>3 DEF CopyStep, Loops
  <2> QED BY <1>1, <1>3, <2>1, BackupStep, CopyInKeeps, CopyOutKeeps, CopyOwnKeeps, FillSetKeeps
<1>4. ASSUME RmDirStep PROVE Inv'
  <2>1. step \in {"clearIn", "clearOwn", "dropBackup", "rmSet"}
    BY <1>4 DEF RmDirStep, RmDirs
  <2> QED BY <1>1, <1>4, <2>1, ClearInKeeps, ClearOwnKeeps, DropBackupKeeps, RmSetKeeps
<1>5. ASSUME CreateDirStep PROVE Inv'
  <2>1. step \in {"mkBackup", "mkIn", "mkOwn", "mkSet"}
    BY <1>5 DEF CreateDirStep, MkDirs
  <2> QED BY <1>1, <1>5, <2>1, MkBackupKeeps, ClearInKeeps, ClearOwnKeeps, MkSetKeeps
<1>6. ASSUME SrmStep PROVE Inv'
  <2>1. step \in {"aside", "raCard", "srmOut", "dropSrm", "bakToSrm"}
    BY <1>6 DEF SrmStep
  <2> QED BY <1>1, <1>6, <2>1, RaInKeeps, SrmOutKeeps, SrmHomeKeeps
<1>7. ASSUME JournalStep PROVE Inv'
  <2>1. step \in {"journal", "note", "unJournal"}
    BY <1>7 DEF JournalStep
  <2> QED BY <1>1, <1>7, <2>1, JournalKeeps, NoteKeeps, UnJournalKeeps
<1>8. ASSUME SetStep PROVE Inv'
  <2>1. stage \in {"edit", "in"}
    BY <1>8, StagesOfSteps DEF SetStep, Inv
  <2> QED BY <1>1, <1>8, <2>1, FallBackKeeps, NameSetKeeps
<1>9. ASSUME PowerCut PROVE Inv'
  <2>1. stage \in {"in", "play", "back"}
    BY <1>9 DEF PowerCut
  <2> QED BY <1>1, <1>9, <2>1, CutInKeeps, CutPlayKeeps, CutBackKeeps
<1>10. ASSUME NEW c \in CardNames, SaveInGame(c) PROVE Inv'
  BY <1>1, <1>10, SaveKeeps
<1> QED BY <1>1, <1>2, <1>3, <1>4, <1>5, <1>6, <1>7, <1>8, <1>9, <1>10,
           RenameDirKeeps, NameSetKeeps, SwapInKeeps, SwapOutKeeps, EndGameKeeps, RecoverKeeps
        DEF Next, Steps, FileSteps

\* nothing happens
LEMMA StutterKeeps ==
    ASSUME Inv, UNCHANGED vars
    PROVE  Inv'
<1>1. /\ UNCHANGED <<there, disk, ini, row, journal, stage, step, left, game, set, name, how, saved, damaged>>
      /\ UNCHANGED <<saves, visits, cuts>>
  BY DEF vars, files, setOf, work, visit, history, bounds
<1>2. TypeOK' /\ SavedShape' /\ VisitOK'
  <2>1. TypeOK'
    BY <1>1 DEF Inv, TypeOK
  <2>2. SavedShape'
    BY <1>1 DEF Inv, SavedShape
  <2>3. VisitOK'
    BY <1>1 DEF Inv, VisitOK
  <2> QED BY <2>1, <2>2, <2>3
<1>3. Session' /\ JournalOK'
  BY <1>1 DEF Inv, Session, JournalOK, JournalFits, SetNamed
<1>4. SetsFine' /\ GamesFine'
  BY <1>1 DEF Inv, SetsFine, GamesFine, SetFine, GameFine, AllIn, Holds, RaOwn,
              SetInHand, InHand, SetAway, GameAway, Lent
<1>5. WritesOK' /\ OwnCards' /\ SetCards'
  BY <1>1 DEF Inv, WritesOK, OwnCards, SetCards, AllIn, Holds, RaOwn, Memcards, Backup
<1>6. LentOK'
  BY <1>1 DEF Inv, LentOK, Away, InMemcards, InSrm, Whole, HomeOf, AllIn, Holds, RaHeld, RaOwn, RaSaves
<1> QED BY <1>2, <1>3, <1>4, <1>5, <1>6 DEF Inv

(* What the invariant says of a session holds at every operation of every  *)
(* visit, of every recovery and after every power cut.                     *)
THEOREM CardsInvariant ==
    ASSUME CutStages \subseteq {"in", "play", "back"}
    PROVE  Spec => []Inv
<1>1. Inv /\ [Next]_vars => Inv'
  BY StepKeeps, StutterKeeps
<1> QED BY <1>1, InitInv, PTL DEF Spec

(* The folders and files are of their kind: no operation is ever without   *)
(* its game, its set or its name, and no count passes its bound.           *)
THEOREM CardsTypeOK ==
    ASSUME CutStages \subseteq {"in", "play", "back"}
    PROVE  Spec => []TypeOK
<1>1. Inv => TypeOK
  BY DEF Inv
<1> QED BY <1>1, CardsInvariant, PTL

(* Every save made in a set is in the set once the launcher is at rest     *)
(* (memcard.h:48-49, memcard.cpp:69-70): swap-in, swap-out, RetroArch's    *)
(* copy and the recovery, cut short wherever the journal still covers it.  *)
THEOREM SetsSafe ==
    ASSUME CutStages \subseteq {"in", "play", "back"}
    PROVE  Spec => []SetsKeepTheirSaves
<1>1. Inv => SetsKeepTheirSaves
  <2> SUFFICES ASSUME Inv, stage = "rest", NEW s \in Sets \ damaged PROVE KeptIn(s)
    BY DEF SetsKeepTheirSaves
  <2>1. step = "rest" /\ SavedShape
    BY DEF Inv, VisitOK
  <2>2. SetFine(s)
    BY <2>1, OnAScreen DEF Writes
  <2>3. saved[s]["srm"] = None /\ saved[s]["bak"] = None
    BY <2>1, FoldersApart DEF SavedShape
  <2>4. \A c \in CardNames : saved[s][c] # None => disk[s][c] = saved[s][c]
    BY <2>2 DEF SetFine, AllIn, Holds
  <2> QED BY <2>3, <2>4 DEF KeptIn, FileNames
<1> QED BY <1>1, CardsInvariant, PTL

(* A game the power did not catch at its swap-in has its own cards, and    *)
(* RetroArch's own save of it, back at rest (memcard.h:49).                *)
THEOREM GamesSafe ==
    ASSUME CutStages \subseteq {"in", "play", "back"}
    PROVE  Spec => []GamesKeepTheirSaves
<1>1. Inv => GamesKeepTheirSaves
  <2> SUFFICES ASSUME Inv, stage = "rest", NEW g \in Games \ damaged
               PROVE KeptIn(MemcardsOf(g)) /\ KeptIn(RaSavesOf(g))
    BY DEF GamesKeepTheirSaves
  <2>1. GameFine(g) /\ SavedShape
    BY OnAScreen DEF Inv
  <2>2. KeptIn(MemcardsOf(g))
    <3>1. saved[MemcardsOf(g)]["srm"] = None /\ saved[MemcardsOf(g)]["bak"] = None
      BY <2>1, FoldersApart DEF SavedShape
    <3> QED BY <2>1, <3>1 DEF GameFine, AllIn, Holds, KeptIn, FileNames
  <2>3. KeptIn(RaSavesOf(g))
    <3>1. \A n \in FileNames : saved[RaSavesOf(g)][n] = IF n = "srm" THEN RaSave ELSE None
      BY <2>1 DEF SavedShape
    <3> QED BY <2>1, <3>1 DEF GameFine, RaOwn, KeptIn
  <2> QED BY <2>2, <2>3
<1> QED BY <1>1, CardsInvariant, PTL

(* What an emulator finds on each card it plays is the last save of the    *)
(* home the session's saves go to, set or game (memcard.h:38-39).          *)
THEOREM CardsPlayed ==
    ASSUME CutStages \subseteq {"in", "play", "back"}
    PROVE  Spec => []PlaysItsCards
<1>1. Inv => PlaysItsCards
  <2> SUFFICES ASSUME Inv, step = "play", Whole(game, set), NEW c \in Played, saved[Home][c] # None
               PROVE disk[Slot(c)[1]][Slot(c)[2]] = saved[Home][c]
    BY DEF PlaysItsCards, Whole
  <2>1. /\ stage = "play" /\ game \in Games /\ how \in {"pcsx", "dir", "ra"} /\ SetsFine /\ LentOK
        /\ set \in Sets \cup {None} /\ (how = "dir" => set # None /\ set \in there)
    BY StagesOfSteps DEF Inv, VisitOK, Session
  <2>2. Home = HomeOf(game, set)
    BY DEF Home, HomeOf, Memcards
  <2>3. CASE how = "dir"
    <3>1. SetFine(set) /\ c \in CardNames
      BY <2>1, <2>3 DEF SetsFine, SetAway, Lent, Writes, RaIn, GoingOut, Whole, Played
    <3> QED BY <2>1, <2>2, <2>3, <3>1 DEF SetFine, AllIn, Holds, Slot, HomeOf
  <2>4. CASE how = "pcsx"
    <3>1. InMemcards(game, set) /\ c \in CardNames
      BY <2>1, <2>4 DEF LentOK, Played
    <3> QED BY <2>2, <2>4, <3>1 DEF InMemcards, AllIn, Holds, Slot, Memcards
  <2>5. CASE how = "ra"
    <3>1. InSrm(game, set) /\ c = "card1"
      BY <2>1, <2>5 DEF LentOK, Played
    <3> QED BY <2>2, <2>5, <3>1 DEF InSrm, Holds, Slot, RaSaves
  <2> QED BY <2>1, <2>3, <2>4, <2>5
<1> QED BY <1>1, CardsInvariant, PTL

(* At rest no journal, no backup/ and no .srm.bak is left of a session     *)
(* (swapOutAfterLaunch, raMemcardOut, recoverAfterCrash).                  *)
THEOREM SessionsEnd ==
    ASSUME CutStages \subseteq {"in", "play", "back"}
    PROVE  Spec => []NothingLeftBehind
<1>1. Inv => NothingLeftBehind
  <2> SUFFICES ASSUME Inv, stage = "rest"
               PROVE  /\ journal = NoJournal
                      /\ \A g \in Games \ damaged : BackupOf(g) \notin there /\ disk[RaSavesOf(g)]["bak"] = None
    BY DEF NothingLeftBehind
  <2> QED BY OnAScreen DEF GameFine, RaOwn
<1> QED BY <1>1, CardsInvariant, PTL
=============================================================================
