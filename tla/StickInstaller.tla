--------------------------- MODULE StickInstaller ---------------------------
(***************************************************************************)
(* The jobs that put AutoBleem and RetroArch on a stick: the installer's   *)
(* own update with RetroArch ("full") or without ("autobleem"), and the    *)
(* console's three, RetroArch alone installed ("install", resumable), its  *)
(* zip laid over the one there is ("zip") and RetroArch removed.  One runs *)
(* at a time, step by step; the power may go, the user stop and a download *)
(* or a write fail between two steps, and what is on the stick is all the  *)
(* next job knows.                                                         *)
(*                                                                         *)
(* A job is a list of steps and the one it is at; some are passed over.    *)
(* The libraries, the apps and libretro's other bundles follow the cores   *)
(* and the assets; the covers, UpdateRoms, the BIOS files, the samples and *)
(* the layouts of old sticks are left out.                                 *)
(***************************************************************************)
EXTENDS Naturals, Sequences

CONSTANTS
    MaxVersion,  \* bound: the RetroArch builds the site publishes
    MaxBreaks,   \* bound: stops, failures and power cuts
    Mixes,       \* an interrupted job may be followed by a job of another kind
    None,        \* nothing there
    Half,        \* only a part of it is there
    Torn,        \* a part with bytes that never reached the stick
    Whole        \* all of it

Versions == 1..MaxVersion
Files == {"zip", "pack", "bundle"}   \* what a RetroArch install downloads

ASSUME StickInstallerAssumption ==
    /\ MaxVersion \in Nat \ {0} /\ MaxBreaks \in Nat /\ Mixes \in BOOLEAN
    /\ None \notin {Half, Torn, Whole} /\ Half \notin {Torn, Whole} /\ Torn # Whole
    /\ "broken" \notin {None, Half, Torn, Whole} /\ None # 0
    /\ {None, Half} \cap Versions = {}
    /\ None \notin {"autobleem", "full", "install", "zip", "remove"}

VARIABLES
    site,        \* the RetroArch build the site lists
    stick,       \* what is on the stick
    kept, keptFor,  \* System/Install/retroarch: the downloads, and the build they are of
    job, step,   \* the job that runs, and the step it is at
    unfinished,  \* the job that was interrupted
    (* the memory of a run *)
    want,        \* the build it installs
    saved,       \* the config.ini it took off the stick
    themed,      \* the build's zip is unpacked: its theme, keys and stamp are at hand
    ready,       \* assetsReady: the assets bundle is on the stick
    breaks

memory == <<want, saved, themed, ready>>
vars == <<site, stick, kept, keptFor, job, step, unfinished, memory, breaks>>

(* A stick with AutoBleem and the user's settings, and no RetroArch.       *)
Init ==
    /\ site = 1
    /\ stick = [launcher |-> Whole, config |-> "user",
                binary |-> None, staged |-> None, stamp |-> None, cfg |-> None,
                cores |-> None, assets |-> None, theme |-> None, removing |-> {}]
    /\ kept = [f \in Files |-> None] /\ keptFor = None
    /\ job = None /\ step = None /\ unfinished = None
    /\ want = None /\ saved = None /\ themed = FALSE /\ ready = TRUE
    /\ breaks = 0

Publish ==
    /\ site < MaxVersion /\ site' = site + 1
    /\ UNCHANGED <<stick, kept, keptFor, job, step, unfinished, memory, breaks>>

-----------------------------------------------------------------------------
(* The jobs.                                                               *)

goX == <<"prepare", "unpack", "restore", "build", "stage", "binary", "stamp", "cfg", "cores",
         "assets", "extract", "spoil", "theme", "lay", "keys", "clean">>
go == <<"prepare", "unpack", "restore", "build", "stage", "binary", "cfg", "cores",
        "assets", "extract", "spoil", "theme", "lay", "keys", "stamp", "clean">>

raInstall == <<"space", "zip", "pack", "bundle", "unzip", "cores", "bundles", "extract", "spoil", "cfg",
               "theme", "lay", "keys", "stage", "binary", "stamp", "clean">>

retroarchZip == <<"unzip", "stage", "binary", "cfg", "theme", "lay", "keys", "stamp", "clean">>

retroarchRemoveX == <<"dropBinary", "dropStaged", "dropStamp", "awayCores", "awayAssets", "clean">>
retroarchRemove == <<"dropBinary", "dropStaged", "dropStamp", "awayCores", "awayAssets",
                     "delete", "clean">>

Steps ==
    [autobleem |-> <<"prepare", "unpack", "restore", "clean">>,
     full |-> go, install |-> raInstall, zip |-> retroarchZip, remove |-> retroarchRemove]
Jobs == DOMAIN Steps
AllSteps == UNION {{Steps[j][i] : i \in 1..Len(Steps[j])} : j \in Jobs}

(* The installer's own test: a RetroArch of this very build is stamped.    *)
OnTheStick == stick.binary # None /\ stick.stamp = site

(* The job to be run again: the console's are not once the build is there. *)
Interrupted == IF unfinished \in {"install", "zip"} /\ OnTheStick THEN None ELSE unfinished

(* The launcher runs the console's jobs: an install where there is none of *)
(* this build, the zip over one that is stamped as another.                *)
MayStart(j) ==
    /\ j \in {"install", "zip", "remove"} => stick.launcher = Whole
    /\ j = "install" => ~OnTheStick
    /\ j = "zip" => /\ stick.binary # None
                    /\ Interrupted = j \/ stick.stamp \in Versions \ {site}
    /\ \/ Mixes
       \/ Interrupted \in {None, j}
       \/ Interrupted = "remove" /\ j = "install"

Start(j) ==
    /\ job = None /\ MayStart(j)
    /\ job' = j /\ step' = Steps[j][1] /\ unfinished' = j
    /\ want' = IF j = "zip" THEN site ELSE None
    /\ saved' = None /\ themed' = FALSE
    /\ ready' = (j # "zip" \/ stick.assets # None)
    /\ UNCHANGED <<site, stick, kept, keptFor, breaks>>

At(s) == job # None /\ step = s
After(s) == LET list == Steps[job] IN list[(CHOOSE i \in DOMAIN list : list[i] = s) + 1]
GoTo(s) == step' = s /\ UNCHANGED <<job, unfinished>>
Past(s) == GoTo(After(s))
Advance == Past(step)

(* A file or a tree is written, and is half there until it is.             *)
Lay(part, content) ==
    IF stick[part] # Half
    THEN stick' = [stick EXCEPT ![part] = Half] /\ UNCHANGED <<job, unfinished, step>>
    ELSE stick' = [stick EXCEPT ![part] = content] /\ Advance

StopHere == job' = None /\ step' = None /\ want' = None /\ saved' = None /\ themed' = FALSE /\ ready' = TRUE

-----------------------------------------------------------------------------
(* AutoBleem itself.                                                       *)

(* What the package ships goes, folder after folder, config.ini with the   *)
(* launcher's; only the run has it then.  A launcher found half there may  *)
(* have its binary, which is what makes the stick one to update, or not.   *)
prepare ==
    /\ At("prepare")
    /\ \/ /\ stick.launcher = Whole
          /\ saved' = stick.config
          /\ \E config \in {stick.config, None} :
                 stick' = [stick EXCEPT !.launcher = Half, !.config = config]
          /\ UNCHANGED <<job, unfinished, step>>
       \/ /\ stick.launcher = Half
          /\ saved' = IF saved = None THEN stick.config ELSE saved
          /\ stick' = [stick EXCEPT !.launcher = None, !.config = None]
          /\ Advance
       \/ /\ stick.launcher # Whole /\ saved = None
          /\ Advance
          /\ UNCHANGED <<saved, stick>>
    /\ UNCHANGED <<site, kept, keptFor, want, themed, ready, breaks>>

(* The tarball; its config.ini comes somewhere on the way.                 *)
unpack ==
    /\ At("unpack")
    /\ IF stick.launcher # Half
       THEN /\ \E config \in {stick.config, "package"} :
                   stick' = [stick EXCEPT !.launcher = Half, !.config = config]
            /\ UNCHANGED <<job, unfinished, step>>
       ELSE stick' = [stick EXCEPT !.launcher = Whole, !.config = "package"] /\ Advance
    /\ UNCHANGED <<site, kept, keptFor, memory, breaks>>

restore ==
    /\ At("restore")
    /\ stick' = [stick EXCEPT !.config = IF saved # None THEN saved ELSE @]
    /\ Advance
    /\ UNCHANGED <<site, kept, keptFor, memory, breaks>>

-----------------------------------------------------------------------------
(* The downloads of a RetroArch install.                                   *)

(* The catalogs; and the folders of a removal that was cut off go.         *)
raCheckSpace ==
    /\ At("space")
    /\ want' = site /\ keptFor' = site
    /\ kept' = [f \in Files |-> IF f = "bundle" \/ keptFor = site THEN kept[f] ELSE None]
    /\ stick' = [stick EXCEPT !.removing = {}]
    /\ Advance
    /\ UNCHANGED <<site, saved, themed, ready, breaks>>

(* A part that fails its check is removed, and the run with it; any other  *)
(* part is continued.                                                      *)
wrongPartX(f) == kept[f]
wrongPart(f) == None

downloadVerified(f) ==
    /\ At(f) /\ f # "bundle"
    /\ IF kept[f] = Torn
       THEN /\ kept' = [kept EXCEPT ![f] = wrongPart(f)]
            /\ StopHere /\ UNCHANGED unfinished
       ELSE /\ kept' = [kept EXCEPT ![f] = Whole]
            /\ Advance /\ UNCHANGED memory
    /\ UNCHANGED <<site, stick, keptFor, breaks>>

bundleThere == stick.assets # None \/ stick.theme # None

(* The bundle has no published sum: a torn part makes a broken zip of it.  *)
(* One that cannot be had is gone past.                                    *)
raDownloadBundles ==
    /\ At("bundle")
    /\ IF bundleThere \/ kept.bundle \in {Whole, "broken"}
       THEN UNCHANGED <<kept, ready>>
       ELSE \/ /\ kept' = [kept EXCEPT !.bundle = IF @ = Torn THEN "broken" ELSE Whole]
               /\ UNCHANGED ready
            \/ /\ kept' = [kept EXCEPT !.bundle = IF @ = None THEN Half ELSE @]
               /\ ready' = FALSE
    /\ Advance
    /\ UNCHANGED <<site, stick, keptFor, want, saved, themed, breaks>>

-----------------------------------------------------------------------------
(* RetroArch on the stick.                                                 *)

(* retroarch(): the build stamped on the stick is not fetched again, and   *)
(* the steps that lay it are skipped.                                      *)
build ==
    /\ At("build")
    /\ IF OnTheStick
       THEN Past("binary") /\ UNCHANGED <<want, themed>>
       ELSE /\ want' = site /\ themed' = TRUE
            /\ Advance
    /\ UNCHANGED <<site, stick, kept, keptFor, saved, ready, breaks>>

installZip ==
    /\ At("unzip")
    /\ themed' = TRUE
    /\ Advance
    /\ UNCHANGED <<site, stick, kept, keptFor, want, saved, ready, breaks>>

(* Copied beside the old one as retroarch.new, then renamed over it.       *)
StagedX == "binary"
Staged == "staged"

stageBinary ==
    /\ At("stage")
    /\ Lay(Staged, want)
    /\ UNCHANGED <<site, kept, keptFor, memory, breaks>>

installBinary ==
    /\ At("binary")
    /\ stick' = [stick EXCEPT !.binary = want, !.staged = None]
    /\ Advance
    /\ UNCHANGED <<site, kept, keptFor, memory, breaks>>

(* A new build's keys go over the user's retroarch.cfg, which writeText    *)
(* writes where it is; 0 is a cfg written without any.                     *)
writeRetroArchCfg ==
    /\ At("cfg")
    /\ IF themed
       THEN Lay("cfg", want)
       ELSE stick' = [stick EXCEPT !.cfg = IF @ = None THEN 0 ELSE @] /\ Advance
    /\ UNCHANGED <<site, kept, keptFor, memory, breaks>>

unpackCores ==
    /\ At("cores")
    /\ Lay("cores", Whole)
    /\ UNCHANGED <<site, kept, keptFor, memory, breaks>>

(* The full run's bundle: there already, fetched whole or broken, or gone  *)
(* without.                                                                *)
assets ==
    /\ At("assets")
    /\ \/ bundleThere /\ Past("spoil") /\ UNCHANGED ready
       \/ ~bundleThere /\ (\E how \in {"extract", "spoil"} : GoTo(how)) /\ UNCHANGED ready
       \/ ~bundleThere /\ Past("spoil") /\ ready' = FALSE
    /\ UNCHANGED <<site, stick, kept, keptFor, want, saved, themed, breaks>>

(* The install's goes by the zip, over whatever is there.                  *)
raUnpackBundles ==
    /\ At("bundles")
    /\ \/ kept.bundle = Whole /\ GoTo("extract")
       \/ kept.bundle = "broken" /\ GoTo("spoil")
       \/ kept.bundle \notin {Whole, "broken"} /\ Past("spoil")
    /\ UNCHANGED <<site, stick, kept, keptFor, memory, breaks>>

(* RetroArch's own files come back over the theme's.                       *)
HalfBundle == [stick EXCEPT !.assets = Half, !.theme = IF @ = None THEN None ELSE Half]

extractBundle ==
    /\ At("extract")
    /\ IF stick.assets # Half
       THEN /\ stick' = HalfBundle
            /\ UNCHANGED <<job, unfinished, step>>
       ELSE stick' = [stick EXCEPT !.assets = Whole] /\ Past("spoil")
    /\ UNCHANGED <<site, kept, keptFor, memory, breaks>>

brokenReadyX == ready
brokenReady == FALSE

(* A broken zip leaves some of its files or none, and is removed.          *)
extractFails ==
    /\ At("spoil")
    /\ \/ UNCHANGED stick
       \/ stick' = HalfBundle
    /\ kept' = IF job = "install" THEN [kept EXCEPT !.bundle = None] ELSE kept
    /\ ready' = brokenReady
    /\ Advance
    /\ UNCHANGED <<site, keptFor, want, saved, themed, breaks>>

(* The AutoBleem 2 look: its files over the assets, then its keys in the   *)
(* cfg; without the assets it waits.                                       *)
applyTheme ==
    /\ At("theme")
    /\ IF themed /\ ready THEN Advance ELSE Past("keys")
    /\ UNCHANGED <<site, stick, kept, keptFor, memory, breaks>>

applyThemeTree ==
    /\ At("lay")
    /\ Lay("theme", want)
    /\ UNCHANGED <<site, kept, keptFor, memory, breaks>>

(* Over the cfg of the step before, written once more.                     *)
setCfgKeys ==
    /\ At("keys")
    /\ Lay("cfg", want)
    /\ UNCHANGED <<site, kept, keptFor, memory, breaks>>

stampVersion ==
    /\ At("stamp")
    /\ IF themed THEN Lay("stamp", want) ELSE Advance /\ UNCHANGED stick
    /\ UNCHANGED <<site, kept, keptFor, memory, breaks>>

-----------------------------------------------------------------------------
(* The removal: the binary first, its stamp, then the folders renamed and  *)
(* deleted.                                                                *)
Drop(s, part) ==
    /\ At(s)
    /\ stick' = [stick EXCEPT ![part] = None]
    /\ Advance
    /\ UNCHANGED <<site, kept, keptFor, memory, breaks>>

Away(dir, there) == IF there THEN stick.removing \cup {dir} ELSE stick.removing \ {dir}

awayCores ==
    /\ At("awayCores")
    /\ stick' = [stick EXCEPT !.cores = None, !.removing = Away("cores", stick.cores # None)]
    /\ Advance
    /\ UNCHANGED <<site, kept, keptFor, memory, breaks>>

awayAssets ==
    /\ At("awayAssets")
    /\ stick' = [stick EXCEPT !.assets = None, !.theme = None, !.removing = Away("assets", bundleThere)]
    /\ Advance
    /\ UNCHANGED <<site, kept, keptFor, memory, breaks>>

Delete ==
    /\ At("delete")
    /\ IF stick.removing = {}
       THEN Advance /\ UNCHANGED stick
       ELSE /\ \E dir \in stick.removing : stick' = [stick EXCEPT !.removing = @ \ {dir}]
            /\ UNCHANGED <<job, unfinished, step>>
    /\ UNCHANGED <<site, kept, keptFor, memory, breaks>>

retroarchRemoval ==
    \/ Drop("dropBinary", "binary") \/ Drop("dropStaged", "staged") \/ Drop("dropStamp", "stamp")
    \/ awayCores \/ awayAssets \/ Delete

-----------------------------------------------------------------------------
(* The end of a run.                                                       *)

(* The scratch folder goes with a run that is done.  The installer's is    *)
(* System/Install, and the console's install keeps its own inside it.      *)
NoDownloads == kept' = [f \in Files |-> None] /\ keptFor' = None

finish ==
    /\ At("clean")
    /\ IF job \in {"zip", "remove"} THEN UNCHANGED <<kept, keptFor>> ELSE NoDownloads
    /\ StopHere /\ unfinished' = None
    /\ UNCHANGED <<site, stick, breaks>>

(* A stop, a download that is lost or a write that fails: the installer's  *)
(* run clears its scratch folder all the same, the console's install keeps *)
(* what it has.                                                            *)
GiveUp ==
    /\ job # None /\ step \notin {"restore", "extract", "spoil", "clean"}
    /\ ~(At("prepare") /\ saved # None)
    /\ breaks < MaxBreaks /\ breaks' = breaks + 1
    /\ IF job \in {"autobleem", "full"}
       THEN NoDownloads
       ELSE /\ kept' = [f \in Files |-> IF At(f) /\ kept[f] = None THEN Half ELSE kept[f]]
            /\ UNCHANGED keptFor
    /\ stick' = IF At("stage") /\ job # "install" THEN [stick EXCEPT !.staged = None] ELSE stick
    /\ StopHere
    /\ UNCHANGED <<site, unfinished>>

(* The power goes: what was being downloaded may be short or torn.         *)
Cut ==
    /\ job # None /\ breaks < MaxBreaks /\ breaks' = breaks + 1
    /\ \E f \in Files, part \in {None, Half, Torn} :
          kept' = IF At(f) /\ kept[f] \in {None, Half} THEN [kept EXCEPT ![f] = part] ELSE kept
    /\ StopHere
    /\ UNCHANGED <<site, stick, keptFor, unfinished>>

Step ==
    \/ prepare \/ unpack \/ restore
    \/ raCheckSpace \/ (\E f \in Files : downloadVerified(f)) \/ raDownloadBundles
    \/ build \/ installZip \/ stageBinary \/ installBinary \/ writeRetroArchCfg \/ unpackCores
    \/ assets \/ raUnpackBundles \/ extractBundle \/ extractFails
    \/ applyTheme \/ applyThemeTree \/ setCfgKeys \/ stampVersion
    \/ retroarchRemoval
    \/ finish

Next == Publish \/ (\E j \in Jobs : Start(j)) \/ Step \/ GiveUp \/ Cut

Spec == Init /\ [][Next]_vars

(* A run goes on until it is interrupted, and what was interrupted is      *)
(* started again.                                                          *)
Fairness == WF_vars(Step) /\ WF_vars(\E j \in Jobs : Interrupted = j /\ Start(j))
FairSpec == Spec /\ Fairness

-----------------------------------------------------------------------------
(* Properties.                                                             *)

TypeOK ==
    /\ site \in Versions
    /\ stick.launcher \in {None, Half, Whole} /\ stick.config \in {None, "package", "user"}
    /\ {stick.binary, stick.staged, stick.stamp, stick.theme} \subseteq Versions \cup {None, Half}
    /\ stick.cfg \in Versions \cup {None, Half, 0}
    /\ {stick.cores, stick.assets} \subseteq {None, Half, Whole}
    /\ stick.removing \subseteq {"cores", "assets"}
    /\ kept \in [Files -> {None, Half, Torn, Whole, "broken"}] /\ keptFor \in Versions \cup {None}
    /\ job \in Jobs \cup {None} /\ unfinished \in Jobs \cup {None}
    /\ step \in AllSteps \cup {None}
    /\ want \in Versions \cup {None} /\ saved \in {None, "package", "user"}
    /\ themed \in BOOLEAN /\ ready \in BOOLEAN
    /\ breaks \in 0..MaxBreaks

(* "an interrupted run leaves the old RetroArch or the new one, never half *)
(* of one": while it is not being removed a whole binary stays.            *)
OldOrNew ==
    [][/\ stick'.binary # Half
       /\ stick.binary # None /\ job # "remove" => stick'.binary # None]_vars

(* "a run that failed before it is offered again, not taken for done": a   *)
(* RetroArch the installer takes for the site's build is that build, with  *)
(* its keys in the cfg and all its cores - but for a full run over one     *)
(* that was up to date, which lays the cores again.                        *)
FailedRunIsOffered ==
    job = None /\ OnTheStick =>
        /\ stick.binary = site /\ stick.cfg = site
        /\ stick.cores = Whole \/ unfinished = "full"

(* Once nothing is left interrupted there is nothing half on the stick:    *)
(* what an earlier run left was written over, finished or removed.         *)
NothingLeftHalf ==
    job = None /\ Interrupted = None =>
        /\ stick.launcher = Whole
        /\ stick.cores # Half /\ stick.stamp # Half /\ stick.staged = None
        /\ stick.removing = {}

(* "a folder of ours under assets/ would make a fresh install skip         *)
(* libretro's own assets bundle": the theme is only laid over a bundle.    *)
ThemeNeverHidesBundle == stick.theme # None => stick.assets # None

(* An interrupted job is done in the end, whatever it left behind.         *)
EveryJobIsFinished == []<>(Interrupted = None)

(* "config.ini keeps the user's settings": whenever nothing is left        *)
(* interrupted, the settings on the stick are the user's.  They are not:   *)
(* from prepare to restore they are in the run's memory alone, and the run *)
(* after one cut off there keeps the package's.                            *)
SettingsAreKept == job = None /\ Interrupted = None => stick.config = "user"
=============================================================================
