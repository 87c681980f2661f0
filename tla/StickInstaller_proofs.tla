----------------------- MODULE StickInstaller_proofs -----------------------
(***************************************************************************)
(* Theorems about StickInstaller, for any number of builds and of breaks:  *)
(* its state is well formed, an update leaves the old RetroArch or the new *)
(* one, the theme is only over the assets, and - where an interrupted job  *)
(* is run again before one of another kind - a run that failed is offered  *)
(* again and one that is done left nothing half on the stick.              *)
(***************************************************************************)
EXTENDS StickInstaller, TLAPS

USE DEF memory

-----------------------------------------------------------------------------
(* The lists of the steps, as the step after each.                         *)

LEMMA AfterOfList ==
    ASSUME \A i, k \in DOMAIN Steps[job] : Steps[job][k] = Steps[job][i] => k = i
    PROVE  \A i \in DOMAIN Steps[job] : After(Steps[job][i]) = Steps[job][i + 1]
<1> DEFINE list == Steps[job]
<1>1. \A s : After(s) = list[(CHOOSE i \in DOMAIN list : list[i] = s) + 1]
      BY DEF After
<1> HIDE DEF list
<1>2. \A i, k \in DOMAIN list : list[k] = list[i] => k = i
      BY DEF list
<1>3. \A i \in DOMAIN list : (CHOOSE k \in DOMAIN list : list[k] = list[i]) = i
      BY <1>2
<1>4. \A i \in DOMAIN list : After(list[i]) = list[i + 1]
      BY <1>1, <1>3
<1> QED BY <1>4 DEF list

LEMMA AutoBleemFollows ==
    ASSUME job = "autobleem"
    PROVE  /\ After("prepare") = "unpack" /\ After("unpack") = "restore" /\ After("restore") = "clean"
<1> DEFINE list == Steps[job]
<1>1. list = <<"prepare", "unpack", "restore", "clean">>
      BY DEF Steps
<1>2. \A i, k \in DOMAIN list : list[k] = list[i] => k = i
      BY <1>1
<1>3. \A i \in DOMAIN list : After(list[i]) = list[i + 1]
      BY <1>2, AfterOfList
<1> HIDE DEF list
<1> QED BY <1>1, <1>3

LEMMA FullFollows ==
    ASSUME job = "full"
    PROVE  /\ After("prepare") = "unpack" /\ After("unpack") = "restore" /\ After("restore") = "build"
           /\ After("build") = "stage" /\ After("stage") = "binary" /\ After("binary") = "cfg"
           /\ After("cfg") = "cores" /\ After("cores") = "assets" /\ After("assets") = "extract"
           /\ After("extract") = "spoil" /\ After("spoil") = "theme" /\ After("theme") = "lay"
           /\ After("lay") = "keys" /\ After("keys") = "stamp" /\ After("stamp") = "clean"
<1> DEFINE list == Steps[job]
<1>1. list = go
      BY DEF Steps
<1>2. \A i, k \in DOMAIN list : list[k] = list[i] => k = i
      BY <1>1 DEF go
<1>3. \A i \in DOMAIN list : After(list[i]) = list[i + 1]
      BY <1>2, AfterOfList
<1> HIDE DEF list
<1> QED BY <1>1, <1>3 DEF go

LEMMA InstallFollows ==
    ASSUME job = "install"
    PROVE  /\ After("space") = "zip" /\ After("zip") = "pack" /\ After("pack") = "bundle"
           /\ After("bundle") = "unzip" /\ After("unzip") = "cores" /\ After("cores") = "bundles"
           /\ After("bundles") = "extract" /\ After("extract") = "spoil" /\ After("spoil") = "cfg"
           /\ After("cfg") = "theme" /\ After("theme") = "lay" /\ After("lay") = "keys"
           /\ After("keys") = "stage" /\ After("stage") = "binary" /\ After("binary") = "stamp"
           /\ After("stamp") = "clean"
<1> DEFINE list == Steps[job]
<1>1. list = raInstall
      BY DEF Steps
<1>2. \A i, k \in DOMAIN list : list[k] = list[i] => k = i
      BY <1>1 DEF raInstall
<1>3. \A i \in DOMAIN list : After(list[i]) = list[i + 1]
      BY <1>2, AfterOfList
<1> HIDE DEF list
<1> QED BY <1>1, <1>3 DEF raInstall

LEMMA ZipFollows ==
    ASSUME job = "zip"
    PROVE  /\ After("unzip") = "stage" /\ After("stage") = "binary" /\ After("binary") = "cfg"
           /\ After("cfg") = "theme" /\ After("theme") = "lay" /\ After("lay") = "keys"
           /\ After("keys") = "stamp" /\ After("stamp") = "clean"
<1> DEFINE list == Steps[job]
<1>1. list = retroarchZip
      BY DEF Steps
<1>2. \A i, k \in DOMAIN list : list[k] = list[i] => k = i
      BY <1>1 DEF retroarchZip
<1>3. \A i \in DOMAIN list : After(list[i]) = list[i + 1]
      BY <1>2, AfterOfList
<1> HIDE DEF list
<1> QED BY <1>1, <1>3 DEF retroarchZip

LEMMA RemoveFollows ==
    ASSUME job = "remove"
    PROVE  /\ After("dropBinary") = "dropStaged" /\ After("dropStaged") = "dropStamp" /\ After("dropStamp") = "awayCores"
           /\ After("awayCores") = "awayAssets" /\ After("awayAssets") = "delete" /\ After("delete") = "clean"
<1> DEFINE list == Steps[job]
<1>1. list = retroarchRemove
      BY DEF Steps
<1>2. \A i, k \in DOMAIN list : list[k] = list[i] => k = i
      BY <1>1 DEF retroarchRemove
<1>3. \A i \in DOMAIN list : After(list[i]) = list[i + 1]
      BY <1>2, AfterOfList
<1> HIDE DEF list
<1> QED BY <1>1, <1>3 DEF retroarchRemove

-----------------------------------------------------------------------------
(* The parts of the invariant.                                             *)

AtStep ==
    /\ job \in Jobs \cup {None}
    /\ job = None => step = None
    /\ job # None => unfinished = job
    /\ job = "autobleem" => step \in {"prepare", "unpack", "restore", "clean"}
    /\ job = "full" => step \in {"prepare", "unpack", "restore", "build", "stage", "binary", "cfg", "cores",
                                 "assets", "extract", "spoil", "theme", "lay", "keys", "stamp", "clean"}
    /\ job = "install" => step \in {"space", "zip", "pack", "bundle", "unzip", "cores", "bundles", "extract",
                                    "spoil", "cfg", "theme", "lay", "keys", "stage", "binary", "stamp", "clean"}
    /\ job = "zip" => step \in {"unzip", "stage", "binary", "cfg", "theme", "lay", "keys", "stamp", "clean"}
    /\ job = "remove" => step \in {"dropBinary", "dropStaged", "dropStamp", "awayCores", "awayAssets",
                                   "delete", "clean"}

Stick ==
    [launcher : {None, Half, Whole}, config : {None, "package", "user"},
     binary : Versions \cup {None}, staged : Versions \cup {None, Half}, stamp : Versions \cup {None, Half},
     cfg : Versions \cup {None, Half, 0}, cores : {None, Half, Whole}, assets : {None, Half, Whole},
     theme : Versions \cup {None, Half}, removing : SUBSET {"cores", "assets"}]

(* A build is known before anything of it is laid, and is none the site    *)
(* has not listed yet.                                                     *)
Builds ==
    /\ site \in Versions /\ want \in Versions \cup {None}
    /\ want \in Versions => want <= site
    /\ stick.stamp \in Versions => stick.stamp <= site
    /\ job = "zip" => want \in Versions /\ (step # "unzip" => themed)
    /\ job = "install" =>
          /\ step # "space" => want \in Versions
          /\ step \notin {"space", "zip", "pack", "bundle", "unzip"} => themed
    /\ job = "full" =>
          /\ themed => want \in Versions
          /\ step \in {"prepare", "unpack", "restore", "build"} => ~themed
          /\ step \in {"stage", "binary", "lay", "keys"} => themed

Values ==
    /\ kept \in [Files -> {None, Half, Torn, Whole, "broken"}] /\ keptFor \in Versions \cup {None}
    /\ unfinished \in Jobs \cup {None} /\ saved \in {None, "package", "user"}
    /\ themed \in BOOLEAN /\ ready \in BOOLEAN /\ breaks \in 0 .. MaxBreaks

(* ready is whether the theme may be laid.                                 *)
Bundle ==
    /\ stick.theme # None => stick.assets # None
    /\ job = "zip" /\ ready => stick.assets # None
    /\ job = "full" /\ step \in {"theme", "lay", "keys", "stamp", "clean"} /\ ready => stick.assets # None
    /\ job = "install" /\ step \in {"unzip", "cores", "bundles"} /\ ready =>
          stick.assets # None \/ kept.bundle \in {Whole, "broken"}
    /\ job = "install" /\ step \in {"cfg", "theme", "lay", "keys"} /\ ready => stick.assets # None
    /\ step \in {"lay", "keys"} => ready

(* What a run has done at a step of it.                                    *)
FullRun == job = "full" =>
    /\ themed /\ step # "clean" => stick.stamp # site
    /\ themed /\ step = "clean" => stick.stamp = want
    /\ themed /\ step \notin {"stage", "binary"} => stick.binary = want /\ stick.staged = None
    /\ themed /\ step \notin {"stage", "binary", "cfg", "keys"} => stick.cfg = want
    /\ ~themed /\ step \notin {"prepare", "unpack", "restore", "build"} =>
          stick.binary # None /\ stick.staged = None /\ stick.stamp \in Versions
    /\ step \in {"assets", "extract", "spoil", "theme", "lay", "keys", "stamp", "clean"} => stick.cores = Whole

InstallRun == job = "install" =>
    /\ stick.stamp = site =>
          /\ step # "space" => want = site
          /\ step \notin {"stamp", "clean"} => stick.binary = None
    /\ step # "space" => stick.removing = {}
    /\ step \notin {"space", "zip", "pack", "bundle", "unzip", "cores"} => stick.cores = Whole
    /\ step \in {"theme", "lay", "stage", "binary", "stamp", "clean"} => stick.cfg = want
    /\ step \in {"stamp", "clean"} => stick.binary = want /\ stick.staged = None
    /\ step = "clean" => stick.stamp = want

ZipRun == job = "zip" =>
    /\ stick.binary # None
    /\ step # "clean" => stick.stamp # site
    /\ step = "clean" => stick.stamp = want
    /\ step \notin {"unzip", "stage", "binary"} => stick.binary = want /\ stick.staged = None
    /\ step \notin {"unzip", "stage", "binary", "cfg", "keys"} => stick.cfg = want

RemoveRun == job = "remove" =>
    /\ step # "dropBinary" => stick.binary = None
    /\ step \notin {"dropBinary", "dropStaged", "dropStamp"} => stick.stamp = None
    /\ step = "clean" => stick.removing = {}

LauncherRun == job \in {"autobleem", "full"} /\ step \notin {"prepare", "unpack"} => stick.launcher = Whole

(* What runs leave, and who is to go on with it.                           *)
Left ==
    /\ stick.stamp = site /\ stick.binary # None =>
          /\ stick.cfg = site /\ stick.binary = site
          /\ stick.cores = Whole \/ unfinished = "full"
    /\ stick.binary # None /\ unfinished \in {None, "zip", "autobleem"} => stick.cores = Whole
    /\ stick.binary = None /\ stick.stamp # None => unfinished \in {"remove", "install"}
    /\ stick.cores = Half => unfinished \in {"full", "install"}
    /\ stick.staged # None => unfinished \in {"full", "install", "zip"} /\ ~OnTheStick
    /\ stick.removing # {} => unfinished \in {"remove", "install"} /\ stick.stamp = None /\ stick.binary = None
    /\ stick.launcher # Whole => unfinished \in {"autobleem", "full"}
    /\ stick.stamp = Half => unfinished \in {"full", "install", "zip"}

LEMMA NoJob ==
    /\ Jobs = {"autobleem", "full", "install", "zip", "remove"}
    /\ None # "autobleem" /\ None # "full" /\ None # "install" /\ None # "zip" /\ None # "remove"
BY StickInstallerAssumption DEF Jobs, Steps

LEMMA AtStepInit == Init => AtStep
BY NoJob DEF Init, AtStep

(* One step goes to another one of its list.                               *)
LEMMA WorkStays ==
    ASSUME AtStep, Step, Builds
    PROVE  \/ finish
           \/ StopHere /\ UNCHANGED unfinished
           \/ UNCHANGED <<job, unfinished>> /\ AtStep'
<1> USE DEF At, Advance, Past, GoTo, AtStep
<1>1. CASE prepare \/ unpack \/ restore
      BY <1>1, AutoBleemFollows, FullFollows DEF prepare, unpack, restore
<1>2. CASE raCheckSpace \/ raDownloadBundles \/ raUnpackBundles
      BY <1>2, InstallFollows DEF raCheckSpace, raDownloadBundles, raUnpackBundles
<1>3. ASSUME NEW f \in Files, downloadVerified(f)
      PROVE  \/ StopHere /\ UNCHANGED unfinished
             \/ UNCHANGED <<job, unfinished>> /\ AtStep'
      BY <1>3, InstallFollows DEF downloadVerified, Files
<1>4. CASE build \/ assets
      BY <1>4, FullFollows DEF build, assets
<1>5. CASE installZip
      BY <1>5, InstallFollows, ZipFollows DEF installZip
<1>6. CASE stageBinary \/ installBinary \/ writeRetroArchCfg
      BY <1>6, FullFollows, InstallFollows, ZipFollows DEF stageBinary, Lay, installBinary, writeRetroArchCfg
<1>7. CASE unpackCores \/ extractBundle \/ extractFails
      BY <1>7, FullFollows, InstallFollows DEF unpackCores, Lay, extractBundle, extractFails
<1>8. CASE applyTheme \/ applyThemeTree \/ setCfgKeys \/ stampVersion
      BY <1>8, FullFollows, InstallFollows, ZipFollows DEF applyTheme, applyThemeTree, Lay, setCfgKeys, stampVersion
<1>9. CASE retroarchRemoval
      BY <1>9, RemoveFollows DEF retroarchRemoval, Drop, awayCores, awayAssets, Delete
<1> QED BY <1>1, <1>2, <1>3, <1>4, <1>5, <1>6, <1>7, <1>8, <1>9 DEF Step

LEMMA AtStepStep == AtStep /\ Builds /\ [Next]_vars => AtStep'
<1> SUFFICES ASSUME AtStep, Builds, [Next]_vars PROVE AtStep'
    OBVIOUS
<1>1. CASE Step
      BY <1>1, NoJob, WorkStays DEF finish, StopHere, AtStep
<1>2. ASSUME NEW j \in Jobs, Start(j) PROVE AtStep'
  <2>1. job' = j /\ unfinished' = j /\ step' = Steps[j][1]
        BY <1>2 DEF Start
  <2>2. /\ Steps["autobleem"][1] = "prepare" /\ Steps["full"][1] = "prepare" /\ Steps["install"][1] = "space"
        /\ Steps["zip"][1] = "unzip" /\ Steps["remove"][1] = "dropBinary"
        BY DEF Steps, go, raInstall, retroarchZip, retroarchRemove
  <2> QED BY <2>1, <2>2, NoJob DEF AtStep
<1>3. CASE GiveUp \/ Cut
      BY <1>3, NoJob DEF GiveUp, Cut, StopHere, AtStep
<1>4. CASE Publish \/ UNCHANGED vars
      BY <1>4 DEF Publish, vars, AtStep
<1> QED BY <1>1, <1>2, <1>3, <1>4 DEF Next

-----------------------------------------------------------------------------
(* The types.                                                              *)

LEMMA BuildIsKnown ==
    ASSUME AtStep, Builds, job # None,
           step \in {"stage", "binary", "lay", "keys"} \/ (step \in {"cfg", "stamp"} /\ themed)
    PROVE  want \in Versions
BY NoJob DEF AtStep, Builds

LEMMA StickInit == Init => stick \in Stick
BY StickInstallerAssumption DEF Init, Stick, Versions

(* What is laid is half there, or there and the run goes on.               *)
LEMMA LayLays ==
    ASSUME NEW part, NEW content, Lay(part, content), stick \in Stick,
           part \in {"staged", "stamp", "cfg", "cores", "theme"},
           part = "cores" => content = Whole, part # "cores" => content \in Versions
    PROVE  stick' \in Stick
<1>1. stick' = [stick EXCEPT ![part] = Half] \/ stick' = [stick EXCEPT ![part] = content]
      BY DEF Lay
<1> QED BY <1>1 DEF Stick

LEMMA StickStep ==
    ASSUME stick \in Stick, AtStep, Builds, saved \in {None, "package", "user"}, [Next]_vars
    PROVE  stick' \in Stick
<1>1. CASE prepare \/ unpack \/ restore
  <2>1. CASE prepare
    <3>1. PICK config \in {None, "package", "user"} :
             stick' \in {[stick EXCEPT !.launcher = Half, !.config = config],
                        [stick EXCEPT !.launcher = None, !.config = None], stick}
          BY <2>1 DEF prepare, Stick
    <3>2. CASE stick' = [stick EXCEPT !.launcher = Half, !.config = config]
          BY <3>2 DEF Stick
    <3>3. CASE stick' = [stick EXCEPT !.launcher = None, !.config = None]
          BY <3>3 DEF Stick
    <3> QED BY <3>1, <3>2, <3>3
  <2>2. CASE unpack
    <3>1. PICK config \in {None, "package", "user"} :
             stick' \in {[stick EXCEPT !.launcher = Half, !.config = config],
                        [stick EXCEPT !.launcher = Whole, !.config = "package"]}
          BY <2>2 DEF unpack, Stick
    <3>2. CASE stick' = [stick EXCEPT !.launcher = Half, !.config = config]
          BY <3>2 DEF Stick
    <3>3. CASE stick' = [stick EXCEPT !.launcher = Whole, !.config = "package"]
          BY <3>3 DEF Stick
    <3> QED BY <3>1, <3>2, <3>3
  <2>3. CASE restore
        BY <2>3 DEF restore, Stick
  <2> QED BY <1>1, <2>1, <2>2, <2>3
<1>2. CASE raCheckSpace \/ (\E f \in Files : downloadVerified(f)) \/ raDownloadBundles \/ raUnpackBundles
      BY <1>2 DEF raCheckSpace, downloadVerified, raDownloadBundles, raUnpackBundles, Stick
<1>3. CASE build \/ assets \/ installZip \/ applyTheme \/ finish
      BY <1>3 DEF build, assets, installZip, applyTheme, finish
<1>4. CASE stageBinary
      BY <1>4, BuildIsKnown, LayLays DEF stageBinary, Staged, At
<1>5. CASE installBinary
      BY <1>5, BuildIsKnown DEF installBinary, At, Stick
<1>6. CASE writeRetroArchCfg
  <2>1. CASE themed
        BY <1>6, <2>1, BuildIsKnown, LayLays DEF writeRetroArchCfg, At
  <2>2. CASE ~themed
        BY <1>6, <2>2 DEF writeRetroArchCfg, Stick
  <2> QED BY <2>1, <2>2
<1>7. CASE unpackCores
      BY <1>7, LayLays DEF unpackCores
<1>8. CASE extractBundle \/ extractFails
  <2>1. HalfBundle \in Stick /\ [stick EXCEPT !.assets = Whole] \in Stick
        BY DEF HalfBundle, Stick
  <2> QED BY <1>8, <2>1 DEF extractBundle, extractFails
<1>9. CASE applyThemeTree
      BY <1>9, BuildIsKnown, LayLays DEF applyThemeTree, At
<1>10. CASE setCfgKeys
      BY <1>10, BuildIsKnown, LayLays DEF setCfgKeys, At
<1>11. CASE stampVersion
      BY <1>11, BuildIsKnown, LayLays DEF stampVersion, At
<1>12. CASE retroarchRemoval
  <2>1. CASE Drop("dropBinary", "binary") \/ Drop("dropStaged", "staged") \/ Drop("dropStamp", "stamp")
        BY <2>1 DEF Drop, Stick
  <2>2. CASE awayCores
        BY <2>2 DEF awayCores, Away, Stick
  <2>3. CASE awayAssets
        BY <2>3 DEF awayAssets, Away, Stick
  <2>4. CASE Delete
        BY <2>4 DEF Delete, Stick
  <2> QED BY <1>12, <2>1, <2>2, <2>3, <2>4 DEF retroarchRemoval
<1>13. CASE Publish \/ (\E j \in Jobs : Start(j)) \/ Cut \/ UNCHANGED vars
      BY <1>13 DEF Publish, Start, Cut, vars
<1>14. CASE GiveUp
      BY <1>14 DEF GiveUp, Stick
<1> QED BY <1>1, <1>2, <1>3, <1>4, <1>5, <1>6, <1>7, <1>8, <1>9, <1>10, <1>11, <1>12, <1>13, <1>14 DEF Next, Step

LEMMA BuildsInit == Init => Builds
BY NoJob, StickInstallerAssumption DEF Init, Builds, Versions

-----------------------------------------------------------------------------
(* What each action does to the stick, part by part.                       *)

Parts == {"launcher", "config", "binary", "staged", "stamp", "cfg", "cores", "assets", "theme", "removing"}
Only(parts) == \A p \in Parts \ parts : stick'[p] = stick[p]

(* A part is written: half of it is there, or all of it and the run goes   *)
(* on.                                                                     *)
Lays(part, content) ==
    /\ Only({part})
    /\ \/ step' = step /\ stick[part] # Half /\ stick'[part] = Half
       \/ step' = After(step) /\ stick[part] = Half /\ stick'[part] = content

LEMMA PutsOnly ==
    ASSUME stick \in Stick, NEW part \in Parts, NEW content, stick' = [stick EXCEPT ![part] = content]
    PROVE  Only({part}) /\ stick'[part] = content
<1>1. DOMAIN stick = Parts
      BY DEF Stick, Parts
<1>2. stick = [p \in Parts |-> stick[p]]
      BY <1>1 DEF Stick, Parts
<1> HIDE DEF Parts
<1> QED BY <1>1, <1>2 DEF Only

LEMMA LaysIt ==
    ASSUME stick \in Stick, NEW part \in Parts, NEW content, Lay(part, content)
    PROVE  Lays(part, content)
<1>1. CASE stick[part] # Half
  <2>1. stick' = [stick EXCEPT ![part] = Half] /\ step' = step
        BY <1>1 DEF Lay
  <2> QED BY <1>1, <2>1, PutsOnly DEF Lays
<1>2. CASE stick[part] = Half
  <2>1. stick' = [stick EXCEPT ![part] = content] /\ step' = After(step)
        BY <1>2 DEF Lay, Advance, Past, GoTo
  <2> QED BY <1>2, <2>1, PutsOnly DEF Lays
<1> QED BY <1>1, <1>2

LEMMA UpdateDoes ==
    ASSUME stick \in Stick
    PROVE  /\ prepare => Only({"launcher", "config"})
           /\ unpack => /\ Only({"launcher", "config"})
                        /\ step' = step \/ (step' = After(step) /\ stick'.launcher = Whole)
           /\ restore => Only({"config"})
<1>1. ASSUME prepare PROVE Only({"launcher", "config"})
      BY <1>1 DEF prepare, Only, Parts, Stick
<1>2. ASSUME unpack
      PROVE  /\ Only({"launcher", "config"})
             /\ step' = step \/ (step' = After(step) /\ stick'.launcher = Whole)
  <2>1. CASE stick.launcher # Half
        BY <1>2, <2>1 DEF unpack, Only, Parts, Stick
  <2>2. CASE stick.launcher = Half
        BY <1>2, <2>2 DEF unpack, Only, Parts, Stick, Advance, Past, GoTo
  <2> QED BY <2>1, <2>2
<1>3. ASSUME restore PROVE Only({"config"})
      BY <1>3, PutsOnly DEF restore, Parts
<1> QED BY <1>1, <1>2, <1>3

LEMMA RetroArchDoes ==
    ASSUME stick \in Stick
    PROVE  /\ raCheckSpace => Only({"removing"}) /\ stick'.removing = {}
           /\ stageBinary => Lays("staged", want)
           /\ installBinary => Only({"binary", "staged"}) /\ stick'.binary = want /\ stick'.staged = None
           /\ writeRetroArchCfg => IF themed THEN Lays("cfg", want)
                                   ELSE /\ Only({"cfg"}) /\ step' = After(step)
                                        /\ stick.cfg # None => stick'.cfg = stick.cfg
           /\ unpackCores => Lays("cores", Whole)
           /\ extractBundle => /\ Only({"assets", "theme"})
                               /\ stick'.assets # None
                               /\ step' = step \/ (step' = After("spoil") /\ stick'.theme = stick.theme)
                               /\ stick.theme = None => stick'.theme = None
           /\ extractFails => /\ Only({"assets", "theme"})
                              /\ stick' = stick \/ stick'.assets # None
           /\ applyThemeTree => Lays("theme", want)
           /\ setCfgKeys => Lays("cfg", want)
           /\ stampVersion => IF themed THEN Lays("stamp", want) ELSE Only({}) /\ step' = After(step)
<1> USE StickInstallerAssumption DEF Parts
<1>1. ASSUME raCheckSpace PROVE Only({"removing"}) /\ stick'.removing = {}
      BY <1>1, PutsOnly DEF raCheckSpace
<1>2. ASSUME installBinary PROVE Only({"binary", "staged"}) /\ stick'.binary = want /\ stick'.staged = None
      BY <1>2 DEF installBinary, Only, Stick
<1>3. ASSUME writeRetroArchCfg
      PROVE  IF themed THEN Lays("cfg", want)
             ELSE Only({"cfg"}) /\ step' = After(step) /\ (stick.cfg # None => stick'.cfg = stick.cfg)
  <2>1. CASE themed
        BY <1>3, <2>1, LaysIt DEF writeRetroArchCfg
  <2>2. CASE ~themed
        BY <1>3, <2>2, PutsOnly DEF writeRetroArchCfg, Advance, Past, GoTo
  <2> QED BY <2>1, <2>2
<1>4. /\ stageBinary => Lays("staged", want)
      /\ unpackCores => Lays("cores", Whole)
      /\ applyThemeTree => Lays("theme", want)
      BY LaysIt DEF stageBinary, Staged, unpackCores, applyThemeTree
<1>5. ASSUME stick' = HalfBundle
      PROVE  /\ Only({"assets", "theme"}) /\ stick'.assets = Half
             /\ stick.theme = None => stick'.theme = None
      BY <1>5 DEF HalfBundle, Only, Stick
<1>6. ASSUME extractBundle
      PROVE  /\ Only({"assets", "theme"})
             /\ stick'.assets # None
             /\ step' = step \/ (step' = After("spoil") /\ stick'.theme = stick.theme)
             /\ stick.theme = None => stick'.theme = None
  <2>1. CASE stick.assets # Half
        BY <1>5, <1>6, <2>1 DEF extractBundle
  <2>2. CASE stick.assets = Half
        BY <1>6, <2>2, PutsOnly DEF extractBundle, Past, GoTo, Only
  <2> QED BY <2>1, <2>2
<1>7. ASSUME extractFails PROVE Only({"assets", "theme"}) /\ (stick' = stick \/ stick'.assets # None)
      BY <1>5, <1>7 DEF extractFails, Only
<1>8. setCfgKeys => Lays("cfg", want)
      BY LaysIt DEF setCfgKeys
<1>9. ASSUME stampVersion
      PROVE  IF themed THEN Lays("stamp", want) ELSE Only({}) /\ step' = After(step)
      BY <1>9, LaysIt DEF stampVersion, Only, Advance, Past, GoTo
<1> QED BY <1>1, <1>2, <1>3, <1>4, <1>6, <1>7, <1>8, <1>9

LEMMA RemovalDoes ==
    ASSUME stick \in Stick
    PROVE  /\ Drop("dropBinary", "binary") => Only({"binary"}) /\ stick'.binary = None
           /\ Drop("dropStaged", "staged") => Only({"staged"}) /\ stick'.staged = None
           /\ Drop("dropStamp", "stamp") => Only({"stamp"}) /\ stick'.stamp = None
           /\ awayCores => Only({"cores", "removing"}) /\ stick'.cores = None
           /\ awayAssets => Only({"assets", "theme", "removing"}) /\ stick'.assets = None /\ stick'.theme = None
           /\ Delete => /\ Only({"removing"}) /\ stick'.removing \subseteq stick.removing
                        /\ step' = step \/ (step' = After(step) /\ stick'.removing = {})
<1>1. /\ Drop("dropBinary", "binary") => Only({"binary"}) /\ stick'.binary = None
      /\ Drop("dropStaged", "staged") => Only({"staged"}) /\ stick'.staged = None
      /\ Drop("dropStamp", "stamp") => Only({"stamp"}) /\ stick'.stamp = None
      BY PutsOnly DEF Drop, Parts
<1>2. ASSUME awayCores PROVE Only({"cores", "removing"}) /\ stick'.cores = None
      BY <1>2 DEF awayCores, Only, Parts, Stick
<1>3. ASSUME awayAssets
      PROVE  Only({"assets", "theme", "removing"}) /\ stick'.assets = None /\ stick'.theme = None
      BY <1>3 DEF awayAssets, Only, Parts, Stick
<1>4. ASSUME Delete
      PROVE  /\ Only({"removing"}) /\ stick'.removing \subseteq stick.removing
             /\ step' = step \/ (step' = After(step) /\ stick'.removing = {})
      BY <1>4, PutsOnly DEF Delete, Parts, Only, Advance, Past, GoTo
<1> QED BY <1>1, <1>2, <1>3, <1>4

LEMMA OthersDo ==
    ASSUME stick \in Stick
    PROVE  /\ (\/ (\E f \in Files : downloadVerified(f)) \/ raDownloadBundles \/ raUnpackBundles
               \/ build \/ assets \/ installZip \/ applyTheme \/ finish
               \/ Publish \/ (\E j \in Jobs : Start(j)) \/ Cut \/ UNCHANGED vars) => Only({})
           /\ GiveUp => /\ Only({"staged"})
                        /\ stick'.staged = stick.staged \/ stick'.staged = None
<1>1. ASSUME \/ (\E f \in Files : downloadVerified(f)) \/ raDownloadBundles \/ raUnpackBundles
             \/ build \/ assets \/ installZip \/ applyTheme \/ finish
             \/ Publish \/ (\E j \in Jobs : Start(j)) \/ Cut \/ UNCHANGED vars
      PROVE  Only({})
      BY <1>1 DEF downloadVerified, raDownloadBundles, raUnpackBundles, build, assets, installZip, applyTheme,
                  finish, Publish, Start, Cut, vars, Only
<1>2. ASSUME GiveUp
      PROVE  Only({"staged"}) /\ (stick'.staged = stick.staged \/ stick'.staged = None)
      BY <1>2, PutsOnly DEF GiveUp, Parts, Only
<1> QED BY <1>1, <1>2

-----------------------------------------------------------------------------
(* The builds, the other values and the bundle.                            *)

(* The build that is stamped is the one that is installed, or was before.  *)
LEMMA StampsItsBuild ==
    ASSUME stick \in Stick, AtStep, [Next]_vars
    PROVE  \/ stick'.stamp \in {stick.stamp, None, Half}
           \/ stick'.stamp = want /\ stampVersion /\ themed
<1> USE DEF Only, Parts
<1>1. CASE prepare \/ unpack \/ restore
      BY <1>1, UpdateDoes
<1>2. CASE raCheckSpace \/ installBinary \/ writeRetroArchCfg \/ extractBundle \/ extractFails \/ setCfgKeys
      BY <1>2, RetroArchDoes DEF Lays
<1>3. CASE stageBinary \/ unpackCores \/ applyThemeTree
      BY <1>3, RetroArchDoes DEF Lays
<1>4. CASE stampVersion
      BY <1>4, RetroArchDoes DEF Lays
<1>5. CASE retroarchRemoval
      BY <1>5, RemovalDoes DEF retroarchRemoval
<1>6. CASE \/ (\E f \in Files : downloadVerified(f)) \/ raDownloadBundles \/ raUnpackBundles
           \/ build \/ assets \/ installZip \/ applyTheme \/ finish
           \/ Publish \/ (\E j \in Jobs : Start(j)) \/ Cut \/ UNCHANGED vars \/ GiveUp
  <2> HIDE DEF Only
  <2>1. Only({}) \/ Only({"staged"})
        BY <1>6, OthersDo
  <2> QED BY <2>1 DEF Only
<1> QED BY <1>1, <1>2, <1>3, <1>4, <1>5, <1>6 DEF Next, Step

LEMMA StampIsListed ==
    ASSUME stick \in Stick, AtStep, Builds, [Next]_vars
    PROVE  site' \in Versions /\ site <= site' /\ (stick'.stamp \in Versions => stick'.stamp <= site')
<1> USE StickInstallerAssumption DEF Versions
<1>1. site' \in Versions /\ site <= site'
  <2>1. CASE Publish
        BY <2>1 DEF Publish, Builds
  <2>2. CASE (\E j \in Jobs : Start(j)) \/ GiveUp \/ Cut \/ UNCHANGED vars
        BY <2>2 DEF Start, GiveUp, Cut, vars, Builds
  <2>3. CASE Step
        BY <2>3 DEF Step, prepare, unpack, restore, raCheckSpace, downloadVerified, raDownloadBundles, build,
                    installZip, stageBinary, installBinary, writeRetroArchCfg, unpackCores, assets, raUnpackBundles,
                    extractBundle, extractFails, applyTheme, applyThemeTree, setCfgKeys, stampVersion,
                    retroarchRemoval, Drop, awayCores, awayAssets, Delete, finish, Builds
  <2> QED BY <2>1, <2>2, <2>3 DEF Next
<1>2. ASSUME stampVersion, themed PROVE want <= site
      BY <1>2, BuildIsKnown DEF stampVersion, At, Builds
<1>3. stick'.stamp \in Versions => stick'.stamp <= site
      BY <1>2, StampsItsBuild DEF Builds
<1>4. site \in Versions
      BY DEF Builds
<1> QED BY <1>1, <1>3, <1>4

LEMMA BuildsStep ==
    ASSUME stick \in Stick, AtStep, Builds, [Next]_vars
    PROVE  Builds'
<1>1. site' \in Versions /\ site <= site' /\ (stick'.stamp \in Versions => stick'.stamp <= site')
      BY StampIsListed
<1> DEFINE Want == /\ want \in Versions \cup {None}
                   /\ want \in Versions => want <= site
           Zip == job = "zip" => want \in Versions /\ (step # "unzip" => themed)
           Install == job = "install" =>
                         /\ step # "space" => want \in Versions
                         /\ step \notin {"space", "zip", "pack", "bundle", "unzip"} => themed
           Full == job = "full" =>
                      /\ themed => want \in Versions
                      /\ step \in {"prepare", "unpack", "restore", "build"} => ~themed
                      /\ step \in {"stage", "binary", "lay", "keys"} => themed
<1>2. Want'
  <2>1. want' \in {want, None, site}
    <3>1. CASE Publish \/ (\E j \in Jobs : Start(j)) \/ GiveUp \/ Cut \/ UNCHANGED vars
          BY <3>1 DEF Publish, Start, GiveUp, Cut, StopHere, vars
    <3>2. CASE Step
          BY <3>2 DEF Step, prepare, unpack, restore, raCheckSpace, downloadVerified, raDownloadBundles, build,
                    installZip, stageBinary, installBinary, writeRetroArchCfg, unpackCores, assets, raUnpackBundles,
                    extractBundle, extractFails, applyTheme, applyThemeTree, setCfgKeys, stampVersion,
                    retroarchRemoval, Drop, awayCores, awayAssets, Delete, finish, StopHere
    <3> QED BY <3>1, <3>2 DEF Next
  <2> QED BY <1>1, <2>1, StickInstallerAssumption DEF Builds, Versions
<1>3. Zip' /\ Install' /\ Full'
  <2> USE NoJob DEF At, Advance, Past, GoTo
  <2>1. ASSUME NEW j \in Jobs, Start(j) PROVE Zip' /\ Install' /\ Full'
        BY <2>1 DEF Start, Builds, Steps, go, raInstall, retroarchZip
  <2>2. CASE Publish \/ UNCHANGED vars
        BY <2>2 DEF Publish, vars, Builds
  <2>3. CASE GiveUp \/ Cut \/ finish
        BY <2>3 DEF GiveUp, Cut, finish, StopHere
  <2>4. CASE prepare \/ unpack \/ restore
        BY <2>4, AutoBleemFollows, FullFollows DEF prepare, unpack, restore, Builds, AtStep
  <2>5. CASE raCheckSpace \/ raDownloadBundles \/ raUnpackBundles
        BY <2>5, InstallFollows DEF raCheckSpace, raDownloadBundles, raUnpackBundles, Builds, AtStep
  <2>6. ASSUME NEW f \in Files, downloadVerified(f) PROVE Zip' /\ Install' /\ Full'
        BY <2>6, InstallFollows DEF downloadVerified, Files, StopHere, Builds, AtStep
  <2>7. CASE build \/ assets
        BY <2>7, FullFollows DEF build, assets, Builds, AtStep
  <2>8. CASE installZip
        BY <2>8, InstallFollows, ZipFollows DEF installZip, Builds, AtStep
  <2>9. CASE stageBinary \/ installBinary \/ writeRetroArchCfg
        BY <2>9, FullFollows, InstallFollows, ZipFollows DEF stageBinary, Lay, installBinary, writeRetroArchCfg, Builds, AtStep
  <2>10. CASE unpackCores \/ extractBundle \/ extractFails
        BY <2>10, FullFollows, InstallFollows DEF unpackCores, Lay, extractBundle, extractFails, Builds, AtStep
  <2>11. CASE applyTheme \/ applyThemeTree \/ setCfgKeys \/ stampVersion
        BY <2>11, FullFollows, InstallFollows, ZipFollows
           DEF applyTheme, applyThemeTree, Lay, setCfgKeys, stampVersion, Builds, AtStep
  <2>12. CASE retroarchRemoval
        BY <2>12 DEF retroarchRemoval, Drop, awayCores, awayAssets, Delete, AtStep
  <2> QED BY <2>1, <2>2, <2>3, <2>4, <2>5, <2>6, <2>7, <2>8, <2>9, <2>10, <2>11, <2>12 DEF Next, Step
<1> QED BY <1>1, <1>2, <1>3 DEF Builds

LEMMA ValuesInit == Init => Values
<1>1. Init => breaks \in 0 .. MaxBreaks
      BY StickInstallerAssumption DEF Init
<1>2. Init => themed \in BOOLEAN /\ ready \in BOOLEAN
      BY DEF Init
<1> QED BY <1>1, <1>2 DEF Init, Values

(* The downloads, and what a run holds in its memory.                      *)
LEMMA ValuesStep ==
    ASSUME stick \in Stick, AtStep, Builds, Values, [Next]_vars
    PROVE  Values'
<1> DEFINE Downloads == /\ kept \in [Files -> {None, Half, Torn, Whole, "broken"}]
                        /\ keptFor \in Versions \cup {None}
           Others == unfinished \in Jobs \cup {None} /\ saved \in {None, "package", "user"}
           Flags == themed \in BOOLEAN /\ ready \in BOOLEAN
           Breaks == breaks \in 0 .. MaxBreaks
<1>1. Downloads'
  <2> USE DEF Values
  <2>1. CASE raCheckSpace
        BY <2>1 DEF raCheckSpace, Builds
  <2>2. ASSUME NEW f \in Files, downloadVerified(f) PROVE Downloads'
        BY <2>2 DEF downloadVerified, wrongPart
  <2>3. CASE raDownloadBundles
        BY <2>3 DEF raDownloadBundles
  <2>4. CASE extractFails
        BY <2>4 DEF extractFails
  <2>5. CASE finish \/ GiveUp
        BY <2>5 DEF finish, GiveUp, NoDownloads
  <2>6. CASE Cut
        BY <2>6 DEF Cut
  <2>7. CASE Publish \/ (\E j \in Jobs : Start(j)) \/ UNCHANGED vars
        BY <2>7 DEF Publish, Start, vars
  <2>8. CASE \/ prepare \/ unpack \/ restore \/ build \/ installZip \/ stageBinary \/ installBinary \/ writeRetroArchCfg
             \/ unpackCores \/ assets \/ raUnpackBundles \/ extractBundle \/ applyTheme \/ applyThemeTree \/ setCfgKeys
             \/ stampVersion \/ retroarchRemoval
        BY <2>8 DEF prepare, unpack, restore, build, installZip, stageBinary, installBinary, writeRetroArchCfg,
                    unpackCores, assets, raUnpackBundles, extractBundle, applyTheme, applyThemeTree, setCfgKeys,
                    stampVersion, retroarchRemoval, Drop, awayCores, awayAssets, Delete
  <2> QED BY <2>1, <2>2, <2>3, <2>4, <2>5, <2>6, <2>7, <2>8 DEF Next, Step
<1>2. Others'
  <2>1. unfinished' \in Jobs \cup {None}
    <3>1. CASE Step
          BY <3>1, WorkStays DEF finish, StopHere, Values
    <3>2. CASE Publish \/ (\E j \in Jobs : Start(j)) \/ GiveUp \/ Cut \/ UNCHANGED vars
          BY <3>2 DEF Publish, Start, GiveUp, Cut, vars, Values
    <3> QED BY <3>1, <3>2 DEF Next
  <2>2. saved' \in {saved, None, stick.config}
    <3>1. CASE Publish \/ (\E j \in Jobs : Start(j)) \/ GiveUp \/ Cut \/ UNCHANGED vars
          BY <3>1 DEF Publish, Start, GiveUp, Cut, StopHere, vars
    <3>2. CASE Step
          BY <3>2 DEF Step, prepare, unpack, restore, raCheckSpace, downloadVerified, raDownloadBundles, build,
                    installZip, stageBinary, installBinary, writeRetroArchCfg, unpackCores, assets, raUnpackBundles,
                    extractBundle, extractFails, applyTheme, applyThemeTree, setCfgKeys, stampVersion,
                    retroarchRemoval, Drop, awayCores, awayAssets, Delete, finish, StopHere
    <3> QED BY <3>1, <3>2 DEF Next
  <2> QED BY <2>1, <2>2 DEF Values, Stick
<1>3. Flags'
  <2>1. /\ themed' = themed \/ themed' = TRUE \/ themed' = FALSE
        /\ ready' \in BOOLEAN
    <3>1. CASE Publish \/ (\E j \in Jobs : Start(j)) \/ GiveUp \/ Cut \/ UNCHANGED vars
          BY <3>1 DEF Publish, Start, GiveUp, Cut, StopHere, vars, Values
    <3>2. CASE Step
          BY <3>2 DEF Step, prepare, unpack, restore, raCheckSpace, downloadVerified, raDownloadBundles, build,
                    installZip, stageBinary, installBinary, writeRetroArchCfg, unpackCores, assets, raUnpackBundles,
                    extractBundle, extractFails, brokenReady, applyTheme, applyThemeTree, setCfgKeys, stampVersion,
                    retroarchRemoval, Drop, awayCores, awayAssets, Delete, finish, StopHere, Values
    <3> QED BY <3>1, <3>2 DEF Next
  <2> QED BY <2>1 DEF Values
<1>4. Breaks'
  <2>1. CASE Publish \/ (\E j \in Jobs : Start(j)) \/ UNCHANGED vars
        BY <2>1 DEF Publish, Start, vars, Values
  <2>2. CASE GiveUp \/ Cut
        BY <2>2, StickInstallerAssumption DEF GiveUp, Cut, Values
  <2>3. CASE Step
        BY <2>3 DEF Step, prepare, unpack, restore, raCheckSpace, downloadVerified, raDownloadBundles, build,
                    installZip, stageBinary, installBinary, writeRetroArchCfg, unpackCores, assets, raUnpackBundles,
                    extractBundle, extractFails, applyTheme, applyThemeTree, setCfgKeys, stampVersion,
                    retroarchRemoval, Drop, awayCores, awayAssets, Delete, finish, Values
  <2> QED BY <2>1, <2>2, <2>3 DEF Next
<1> QED BY <1>1, <1>2, <1>3, <1>4 DEF Values

LEMMA BundleInit == Init => Bundle
BY NoJob DEF Init, Bundle

(* The theme is laid where the run found the assets.                       *)
LEMMA ThemeIsLaidOverAssets ==
    ASSUME stick \in Stick, AtStep, Bundle, [Next]_vars
    PROVE  stick'.theme # None => stick'.assets # None
<1> USE DEF Only, Parts, Bundle
<1>1. CASE prepare \/ unpack \/ restore
      BY <1>1, UpdateDoes
<1>2. CASE raCheckSpace \/ installBinary \/ writeRetroArchCfg \/ extractBundle \/ extractFails \/ setCfgKeys
      BY <1>2, RetroArchDoes DEF Lays
<1>3. CASE stageBinary \/ unpackCores \/ stampVersion
      BY <1>3, RetroArchDoes DEF Lays
<1>4. CASE applyThemeTree
      BY <1>4, RetroArchDoes, NoJob DEF Lays, applyThemeTree, At, AtStep
<1>5. CASE retroarchRemoval
      BY <1>5, RemovalDoes DEF retroarchRemoval
<1>6. CASE \/ (\E f \in Files : downloadVerified(f)) \/ raDownloadBundles \/ raUnpackBundles
           \/ build \/ assets \/ installZip \/ applyTheme \/ finish
           \/ Publish \/ (\E j \in Jobs : Start(j)) \/ Cut \/ UNCHANGED vars \/ GiveUp
  <2> HIDE DEF Only
  <2>1. Only({}) \/ Only({"staged"})
        BY <1>6, OthersDo
  <2> QED BY <2>1 DEF Only
<1> QED BY <1>1, <1>2, <1>3, <1>4, <1>5, <1>6 DEF Next, Step

LEMMA BundleStep ==
    ASSUME stick \in Stick, AtStep, Builds, Values, Bundle, [Next]_vars
    PROVE  Bundle'
<1> DEFINE Zip == job = "zip" /\ ready => stick.assets # None
           Full == job = "full" /\ step \in {"theme", "lay", "keys", "stamp", "clean"} /\ ready => stick.assets # None
           Download == job = "install" /\ step \in {"unzip", "cores", "bundles"} /\ ready =>
                           stick.assets # None \/ kept.bundle \in {Whole, "broken"}
           Install == job = "install" /\ step \in {"cfg", "theme", "lay", "keys"} /\ ready => stick.assets # None
           Theme == step \in {"lay", "keys"} => ready
           Goal == Zip /\ Full /\ Download /\ Install /\ Theme
<1>1. Goal'
  <2> USE NoJob DEF At, Advance, Past, GoTo, Only, Parts
  <2>1. ASSUME NEW j \in Jobs, Start(j) PROVE Goal'
    <3>1. ready' = (j # "zip" \/ stick.assets # None) /\ stick' = stick
          BY <2>1 DEF Start
    <3>2. ready' => j # "zip" \/ stick.assets # None
          BY <3>1, Zenon
    <3>3. job' = j /\ step' \in {"prepare", "space", "unzip", "dropBinary"}
          BY <2>1 DEF Start, Steps, go, raInstall, retroarchZip, retroarchRemove
    <3>4. j = "install" => step' = "space"
          BY <2>1 DEF Start, Steps, raInstall
    <3> QED BY <3>1, <3>2, <3>3, <3>4
  <2>2. CASE Publish \/ UNCHANGED vars
        BY <2>2 DEF Publish, vars, Bundle
  <2>3. CASE GiveUp \/ Cut \/ finish
        BY <2>3 DEF GiveUp, Cut, finish, StopHere
  <2>4. CASE prepare \/ unpack \/ restore
        BY <2>4, AutoBleemFollows, FullFollows, UpdateDoes DEF prepare, unpack, restore, Bundle, AtStep
  <2>5. CASE raCheckSpace \/ raUnpackBundles
        BY <2>5, InstallFollows DEF raCheckSpace, raUnpackBundles, Bundle, AtStep
  <2>6. CASE raDownloadBundles
        BY <2>6, InstallFollows, StickInstallerAssumption DEF raDownloadBundles, bundleThere, Files, Bundle, AtStep, Values
  <2>7. ASSUME NEW f \in Files, downloadVerified(f) PROVE Goal'
        BY <2>7, InstallFollows DEF downloadVerified, Files, StopHere, Bundle, AtStep
  <2>8. CASE build \/ assets
        BY <2>8, FullFollows DEF build, assets, bundleThere, Bundle, AtStep
  <2>9. CASE installZip
        BY <2>9, InstallFollows, ZipFollows DEF installZip, Bundle, AtStep
  <2>10. CASE stageBinary \/ installBinary \/ writeRetroArchCfg
        BY <2>10, FullFollows, InstallFollows, ZipFollows, RetroArchDoes
           DEF Lays, stageBinary, Lay, installBinary, writeRetroArchCfg, Bundle, AtStep
  <2>11. CASE unpackCores
        BY <2>11, FullFollows, InstallFollows, RetroArchDoes DEF Lays, unpackCores, Lay, Bundle, AtStep
  <2>12. CASE extractBundle \/ extractFails
        BY <2>12, FullFollows, InstallFollows, RetroArchDoes DEF extractBundle, extractFails, brokenReady, Bundle, AtStep
  <2>13. CASE applyTheme \/ setCfgKeys
        BY <2>13, FullFollows, InstallFollows, ZipFollows, RetroArchDoes DEF Lays, Lay, applyTheme, setCfgKeys, Bundle, AtStep
  <2>14. CASE applyThemeTree \/ stampVersion
        BY <2>14, FullFollows, InstallFollows, ZipFollows, RetroArchDoes
           DEF Lays, applyThemeTree, Lay, stampVersion, Bundle, AtStep
  <2>15. CASE retroarchRemoval
        BY <2>15, RemoveFollows DEF retroarchRemoval, Drop, awayCores, awayAssets, Delete, AtStep
  <2> QED BY <2>1, <2>2, <2>3, <2>4, <2>5, <2>6, <2>7, <2>8, <2>9, <2>10, <2>11, <2>12, <2>13, <2>14, <2>15
          DEF Next, Step
<1> QED BY <1>1, ThemeIsLaidOverAssets DEF Bundle

-----------------------------------------------------------------------------
(* What a run has done.                                                    *)

(* No RetroArch is of a build the site has just published.                 *)
LEMMA PublishedIsNew ==
    ASSUME stick \in Stick, Builds, Publish
    PROVE  stick' = stick /\ stick.stamp # site' /\ UNCHANGED <<job, step, unfinished, memory>>
<1>1. site \in Versions /\ site' = site + 1 /\ site' \in Versions
      BY StickInstallerAssumption DEF Publish, Builds, Versions
<1>2. stick.stamp \in Versions => stick.stamp <= site
      BY DEF Builds
<1>3. stick.stamp # site'
      BY <1>1, <1>2 DEF Versions
<1> QED BY <1>3 DEF Publish

LEMMA MarksAreNoBuild ==
    /\ None \notin Versions /\ Half \notin Versions /\ None # Half /\ None # Whole /\ Half # Whole
    /\ Builds => site \notin {None, Half}
BY StickInstallerAssumption DEF Builds, Versions

LEMMA LauncherStep ==
    ASSUME stick \in Stick, AtStep, LauncherRun, [Next]_vars
    PROVE  LauncherRun'
<1> USE NoJob DEF LauncherRun, At, Advance, Past, GoTo, Only, Parts
<1>1. ASSUME NEW j \in Jobs, Start(j) PROVE LauncherRun'
      BY <1>1 DEF Start, Steps, go
<1>2. CASE Publish \/ UNCHANGED vars
      BY <1>2 DEF Publish, vars
<1>3. CASE GiveUp \/ Cut \/ finish
      BY <1>3 DEF GiveUp, Cut, finish, StopHere
<1>4. CASE prepare \/ unpack \/ restore
      BY <1>4, AutoBleemFollows, FullFollows, UpdateDoes DEF prepare, unpack, restore, AtStep
<1>5. CASE raCheckSpace \/ raUnpackBundles \/ raDownloadBundles \/ (\E f \in Files : downloadVerified(f))
      BY <1>5 DEF raCheckSpace, raUnpackBundles, raDownloadBundles, downloadVerified, Files, StopHere, AtStep
<1>6. CASE build \/ assets \/ installZip \/ applyTheme
      BY <1>6, FullFollows DEF build, assets, installZip, applyTheme, AtStep
<1>7. CASE stageBinary \/ unpackCores \/ applyThemeTree \/ stampVersion
      BY <1>7, RetroArchDoes DEF Lays, stageBinary, unpackCores, applyThemeTree, stampVersion, Lay, AtStep
<1>8. CASE installBinary \/ writeRetroArchCfg \/ extractBundle \/ extractFails \/ setCfgKeys
      BY <1>8, RetroArchDoes DEF Lays, Lay, installBinary, writeRetroArchCfg, extractBundle, extractFails, setCfgKeys, AtStep
<1>9. CASE retroarchRemoval
      BY <1>9 DEF retroarchRemoval, Drop, awayCores, awayAssets, Delete, AtStep
<1> QED BY <1>1, <1>2, <1>3, <1>4, <1>5, <1>6, <1>7, <1>8, <1>9 DEF Next, Step

LEMMA FullStep ==
    ASSUME stick \in Stick, AtStep, Builds, Left, FullRun, [Next]_vars
    PROVE  FullRun'
<1> USE NoJob, MarksAreNoBuild DEF FullRun, At, Advance, Past, GoTo, Only, Parts
<1>1. ASSUME NEW j \in Jobs, Start(j) PROVE FullRun'
      BY <1>1 DEF Start, Steps, go
<1>2. CASE Publish
      BY <1>2, PublishedIsNew
<1>3. CASE GiveUp \/ Cut \/ finish \/ UNCHANGED vars
      BY <1>3 DEF GiveUp, Cut, finish, StopHere, vars
<1>4. CASE prepare \/ unpack \/ restore
      BY <1>4, AutoBleemFollows, FullFollows, UpdateDoes DEF prepare, unpack, restore, Builds, AtStep
<1>5. CASE raCheckSpace \/ raUnpackBundles \/ raDownloadBundles \/ installZip \/ (\E f \in Files : downloadVerified(f))
      BY <1>5 DEF raCheckSpace, raUnpackBundles, raDownloadBundles, installZip, downloadVerified, Files, StopHere, AtStep
<1>6. CASE build
      BY <1>6, FullFollows DEF build, OnTheStick, Builds, Left, AtStep
<1>7. CASE assets
      BY <1>7, FullFollows DEF assets, AtStep
<1>8. CASE stageBinary \/ unpackCores
      BY <1>8, FullFollows, RetroArchDoes DEF Lays, stageBinary, unpackCores, Lay, Builds, AtStep
<1>9. CASE installBinary \/ writeRetroArchCfg
      BY <1>9, FullFollows, RetroArchDoes DEF Lays, Lay, installBinary, writeRetroArchCfg, Builds, AtStep
<1>10. CASE extractBundle \/ extractFails \/ applyTheme \/ setCfgKeys
      BY <1>10, FullFollows, RetroArchDoes, OthersDo DEF Lays, Lay, Builds, extractBundle, extractFails, applyTheme, setCfgKeys, AtStep
<1>11. CASE applyThemeTree \/ stampVersion
      BY <1>11, FullFollows, RetroArchDoes DEF Lays, applyThemeTree, stampVersion, Lay, AtStep
<1>12. CASE retroarchRemoval
      BY <1>12 DEF retroarchRemoval, Drop, awayCores, awayAssets, Delete, AtStep
<1> QED BY <1>1, <1>2, <1>3, <1>4, <1>5, <1>6, <1>7, <1>8, <1>9, <1>10, <1>11, <1>12 DEF Next, Step

LEMMA InstallStep ==
    ASSUME stick \in Stick, AtStep, Builds, InstallRun, [Next]_vars
    PROVE  InstallRun'
<1> USE NoJob, MarksAreNoBuild DEF InstallRun, At, Advance, Past, GoTo, Only, Parts
<1>1. ASSUME NEW j \in Jobs, Start(j) PROVE InstallRun'
      BY <1>1 DEF Start, MayStart, OnTheStick, Steps, raInstall
<1>2. CASE Publish
      BY <1>2, PublishedIsNew
<1>3. CASE GiveUp \/ Cut \/ finish \/ UNCHANGED vars
      BY <1>3 DEF GiveUp, Cut, finish, StopHere, vars
<1>4. CASE prepare \/ unpack \/ restore \/ build \/ assets
      BY <1>4 DEF prepare, unpack, restore, build, assets, AtStep
<1>5. CASE raCheckSpace
      BY <1>5, InstallFollows, RetroArchDoes DEF raCheckSpace, AtStep
<1>6. CASE raUnpackBundles \/ raDownloadBundles \/ installZip
      BY <1>6, InstallFollows DEF raUnpackBundles, raDownloadBundles, installZip, AtStep
<1>7. ASSUME NEW f \in Files, downloadVerified(f) PROVE InstallRun'
      BY <1>7, InstallFollows DEF downloadVerified, Files, StopHere, AtStep
<1>8. CASE stageBinary \/ unpackCores
      BY <1>8, InstallFollows, RetroArchDoes DEF Lays, stageBinary, unpackCores, Lay, Builds, AtStep
<1>9. CASE installBinary \/ writeRetroArchCfg
      BY <1>9, InstallFollows, RetroArchDoes DEF Lays, Lay, installBinary, writeRetroArchCfg, Builds, AtStep
<1>10. CASE extractBundle \/ extractFails \/ applyTheme \/ setCfgKeys
      BY <1>10, InstallFollows, RetroArchDoes, OthersDo DEF Lays, Lay, Builds, extractBundle, extractFails, applyTheme, setCfgKeys, AtStep
<1>11. CASE applyThemeTree \/ stampVersion
      BY <1>11, InstallFollows, RetroArchDoes DEF Lays, applyThemeTree, stampVersion, Lay, Builds, AtStep
<1>12. CASE retroarchRemoval
      BY <1>12 DEF retroarchRemoval, Drop, awayCores, awayAssets, Delete, AtStep
<1> QED BY <1>1, <1>2, <1>3, <1>4, <1>5, <1>6, <1>7, <1>8, <1>9, <1>10, <1>11, <1>12 DEF Next, Step

LEMMA ZipStep ==
    ASSUME stick \in Stick, AtStep, Builds, ZipRun, [Next]_vars
    PROVE  ZipRun'
<1> USE NoJob, MarksAreNoBuild DEF ZipRun, At, Advance, Past, GoTo, Only, Parts
<1>1. ASSUME NEW j \in Jobs, Start(j) PROVE ZipRun'
      BY <1>1 DEF Start, MayStart, Interrupted, OnTheStick, Steps, retroarchZip
<1>2. CASE Publish
      BY <1>2, PublishedIsNew
<1>3. CASE GiveUp \/ Cut \/ finish \/ UNCHANGED vars
      BY <1>3 DEF GiveUp, Cut, finish, StopHere, vars
<1>4. CASE prepare \/ unpack \/ restore \/ build \/ assets \/ raCheckSpace \/ raUnpackBundles \/ raDownloadBundles
      BY <1>4 DEF prepare, unpack, restore, build, assets, raCheckSpace, raUnpackBundles, raDownloadBundles, AtStep
<1>5. CASE installZip
      BY <1>5, ZipFollows DEF installZip, AtStep
<1>6. ASSUME NEW f \in Files, downloadVerified(f) PROVE ZipRun'
      BY <1>6 DEF downloadVerified, Files, StopHere, AtStep
<1>7. CASE stageBinary \/ applyThemeTree \/ stampVersion
      BY <1>7, ZipFollows, RetroArchDoes DEF Lays, stageBinary, applyThemeTree, stampVersion, Lay, Builds, AtStep
<1>8. CASE installBinary \/ writeRetroArchCfg
  <2>1. CASE installBinary
        BY <2>1, ZipFollows, RetroArchDoes DEF installBinary, Builds, AtStep
  <2>2. CASE writeRetroArchCfg
        BY <2>2, ZipFollows, RetroArchDoes DEF Lays, Lay, writeRetroArchCfg, Builds, AtStep
  <2> QED BY <1>8, <2>1, <2>2
<1>9. CASE unpackCores \/ extractBundle \/ extractFails
      BY <1>9 DEF unpackCores, Lay, extractBundle, extractFails, AtStep
<1>10. CASE applyTheme \/ setCfgKeys
      BY <1>10, ZipFollows, RetroArchDoes, OthersDo DEF Lays, Lay, Builds, applyTheme, setCfgKeys, AtStep
<1>11. CASE retroarchRemoval
      BY <1>11 DEF retroarchRemoval, Drop, awayCores, awayAssets, Delete, AtStep
<1> QED BY <1>1, <1>2, <1>3, <1>4, <1>5, <1>6, <1>7, <1>8, <1>9, <1>10, <1>11 DEF Next, Step

LEMMA RemoveStep ==
    ASSUME stick \in Stick, AtStep, RemoveRun, [Next]_vars
    PROVE  RemoveRun'
<1> USE NoJob DEF RemoveRun, At, Advance, Past, GoTo, Only, Parts
<1>1. ASSUME NEW j \in Jobs, Start(j) PROVE RemoveRun'
      BY <1>1 DEF Start, Steps, retroarchRemove
<1>2. CASE Publish \/ UNCHANGED vars
      BY <1>2 DEF Publish, vars
<1>3. CASE GiveUp \/ Cut \/ finish
      BY <1>3 DEF GiveUp, Cut, finish, StopHere
<1>4. CASE prepare \/ unpack \/ restore \/ raCheckSpace \/ (\E f \in Files : downloadVerified(f))
      BY <1>4 DEF prepare, unpack, restore, raCheckSpace, downloadVerified, Files, StopHere, AtStep
<1>5. CASE raDownloadBundles \/ build \/ installZip \/ stageBinary \/ installBinary \/ writeRetroArchCfg
      BY <1>5 DEF raDownloadBundles, build, installZip, stageBinary, Lay, installBinary, writeRetroArchCfg, AtStep
<1>6. CASE unpackCores \/ assets \/ raUnpackBundles \/ extractBundle \/ extractFails
      BY <1>6 DEF unpackCores, Lay, assets, raUnpackBundles, extractBundle, extractFails, AtStep
<1>7. CASE applyTheme \/ applyThemeTree \/ setCfgKeys \/ stampVersion
      BY <1>7 DEF applyTheme, applyThemeTree, Lay, setCfgKeys, stampVersion, AtStep
<1>8. CASE retroarchRemoval
      BY <1>8, RemoveFollows, RemovalDoes DEF retroarchRemoval, Drop, awayCores, awayAssets, Delete, AtStep
<1> QED BY <1>1, <1>2, <1>3, <1>4, <1>5, <1>6, <1>7, <1>8 DEF Next, Step

Runs == FullRun /\ InstallRun /\ ZipRun /\ RemoveRun /\ LauncherRun

(* The end of a run: what it has done is what it was for.                  *)
LEMMA FinishLeaves ==
    ASSUME stick \in Stick, AtStep, Builds, Runs, Left, finish
    PROVE  Left'
<1> USE NoJob, MarksAreNoBuild DEF Runs, FullRun, InstallRun, ZipRun, RemoveRun, LauncherRun, Left, OnTheStick
<1>1. job # None /\ step = "clean" /\ stick' = stick /\ site' = site /\ unfinished' = None
      BY DEF finish, At
<1>2. CASE job = "full"
      BY <1>1, <1>2 DEF Builds, AtStep
<1>3. CASE job = "install"
      BY <1>1, <1>3 DEF Builds, AtStep
<1>4. CASE job = "zip"
      BY <1>1, <1>4 DEF Builds, AtStep
<1>5. CASE job = "remove"
      BY <1>1, <1>5 DEF AtStep
<1>6. CASE job = "autobleem"
      BY <1>1, <1>6 DEF AtStep
<1> QED BY <1>1, <1>2, <1>3, <1>4, <1>5, <1>6 DEF AtStep

(* Another job goes on with what the one that was interrupted left, or the *)
(* one before did not need it.                                             *)
LEMMA StartLeaves ==
    ASSUME stick \in Stick, AtStep, Builds, Left, ~Mixes, NEW j \in Jobs, Start(j)
    PROVE  Left'
<1> USE NoJob, MarksAreNoBuild DEF Left, OnTheStick
<1>1. stick' = stick /\ site' = site /\ unfinished' = j /\ MayStart(j)
      BY DEF Start
<1>2. CASE OnTheStick
      BY <1>1, <1>2 DEF MayStart, Interrupted
<1>3. CASE ~OnTheStick
      BY <1>1, <1>3 DEF MayStart, Interrupted
<1> QED BY <1>2, <1>3

LEMMA LeftStep ==
    ASSUME stick \in Stick, AtStep, Builds, Values, Runs, Left, ~Mixes, [Next]_vars
    PROVE  Left'
<1> USE NoJob, MarksAreNoBuild DEF Left, OnTheStick, Runs, At, Only, Parts
<1>1. CASE Publish
      BY <1>1, PublishedIsNew
<1>2. CASE Cut \/ UNCHANGED vars
      BY <1>2 DEF Cut, vars
<1>3. CASE GiveUp
      BY <1>3, OthersDo DEF GiveUp
<1>4. CASE prepare \/ unpack \/ restore
  <2>1. unfinished \in {"autobleem", "full"} /\ unfinished' = unfinished /\ site' = site
        BY <1>4 DEF prepare, unpack, restore, AtStep, Advance, Past, GoTo
  <2>2. Only({"launcher", "config"})
        BY <1>4, UpdateDoes
  <2> QED BY <2>1, <2>2
<1>5. CASE raCheckSpace
      BY <1>5, RetroArchDoes DEF raCheckSpace, GoTo, Advance, Past, AtStep
<1>6. CASE \/ (\E f \in Files : downloadVerified(f)) \/ raDownloadBundles \/ raUnpackBundles
           \/ build \/ assets \/ installZip \/ applyTheme
      BY <1>6 DEF downloadVerified, raDownloadBundles, raUnpackBundles, build, assets, installZip, applyTheme,
                  GoTo, Advance, Past, StopHere
<1>7. CASE stageBinary
      BY <1>7, RetroArchDoes DEF Lays, stageBinary, Lay, GoTo, Advance, Past, AtStep, Builds, FullRun, InstallRun, ZipRun
<1>8. CASE installBinary
      BY <1>8, RetroArchDoes DEF installBinary, GoTo, Advance, Past, AtStep, Builds, FullRun, InstallRun, ZipRun
<1>9. CASE writeRetroArchCfg
      BY <1>9, RetroArchDoes DEF Lays, Lay, writeRetroArchCfg, GoTo, Advance, Past, AtStep, Builds, FullRun, InstallRun, ZipRun
<1>10. CASE unpackCores
      BY <1>10, RetroArchDoes DEF Lays, unpackCores, Lay, GoTo, Advance, Past, AtStep, Builds, FullRun, InstallRun
<1>11. CASE extractBundle \/ extractFails \/ setCfgKeys
      BY <1>11, RetroArchDoes DEF Lays, Lay, extractBundle, extractFails, setCfgKeys, GoTo, Advance, Past, AtStep, Builds, FullRun, InstallRun, ZipRun
<1>12. CASE applyThemeTree
      BY <1>12, RetroArchDoes DEF Lays, applyThemeTree, Lay, GoTo, Advance, Past
<1>13. CASE stampVersion
      BY <1>13, RetroArchDoes DEF Lays, stampVersion, Lay, GoTo, Advance, Past, AtStep, Builds, FullRun, InstallRun, ZipRun
<1>14. CASE retroarchRemoval
      BY <1>14, RemovalDoes DEF retroarchRemoval, Drop, awayCores, awayAssets, Delete, GoTo, Advance, Past, AtStep, RemoveRun
<1> QED BY <1>1, <1>2, <1>3, <1>4, <1>5, <1>6, <1>7, <1>8, <1>9, <1>10, <1>11, <1>12, <1>13, <1>14,
           FinishLeaves, StartLeaves DEF Next, Step

-----------------------------------------------------------------------------
(* The invariants.                                                         *)

Inv == AtStep /\ stick \in Stick /\ Builds /\ Values /\ Bundle
RunInv == Runs /\ Left

(* What every behaviour keeps, whatever job follows an interrupted one.    *)
LEMMA InvHolds == Spec => []Inv
<1>1. Init => Inv
      BY AtStepInit, StickInit, BuildsInit, ValuesInit, BundleInit DEF Inv
<1>2. Inv /\ [Next]_vars => Inv'
  <2> SUFFICES ASSUME Inv, [Next]_vars PROVE Inv'
      OBVIOUS
  <2>1. AtStep'
        BY AtStepStep DEF Inv
  <2>2. stick' \in Stick
        BY StickStep DEF Inv, Values
  <2>3. Builds'
        BY BuildsStep DEF Inv
  <2>4. Values'
        BY ValuesStep DEF Inv
  <2>5. Bundle'
        BY BundleStep DEF Inv
  <2> QED BY <2>1, <2>2, <2>3, <2>4, <2>5 DEF Inv
<1> QED BY <1>1, <1>2, PTL DEF Spec

LEMMA RunInvInit == Init => RunInv
<1> SUFFICES ASSUME Init PROVE RunInv
    OBVIOUS
<1>1. Runs
      BY NoJob DEF Init, Runs, FullRun, InstallRun, ZipRun, RemoveRun, LauncherRun
<1>2. site = 1 /\ 1 \in Versions
      BY StickInstallerAssumption DEF Init, Versions
<1>3. Left
      BY <1>2, NoJob, MarksAreNoBuild DEF Init, Left, OnTheStick
<1> QED BY <1>1, <1>3 DEF RunInv

(* What the runs do when an interrupted one is run again first.            *)
LEMMA RunInvHolds == ASSUME ~Mixes PROVE Spec => []RunInv
<1>1. Inv /\ RunInv /\ [Next]_vars => RunInv'
  <2> SUFFICES ASSUME Inv, RunInv, [Next]_vars PROVE RunInv'
      OBVIOUS
  <2>1. Runs'
        BY LauncherStep, FullStep, InstallStep, ZipStep, RemoveStep DEF Inv, RunInv, Runs
  <2>2. Left'
        BY LeftStep DEF Inv, RunInv
  <2> QED BY <2>1, <2>2 DEF RunInv
<1> QED BY RunInvInit, InvHolds, <1>1, PTL DEF Spec

-----------------------------------------------------------------------------
(* The theorems.                                                           *)

(* Every part of the stick, every download and every step is of its type:  *)
(* in particular no run is ever at a step that is not of its list, and     *)
(* nothing is stamped, staged or installed of a build that is not known.   *)
THEOREM TypesAreKept == Spec => []TypeOK
<1>1. Inv => TypeOK
  <2> SUFFICES ASSUME Inv PROVE TypeOK
      OBVIOUS
  <2>1. /\ stick.launcher \in {None, Half, Whole} /\ stick.config \in {None, "package", "user"}
        /\ {stick.binary, stick.staged, stick.stamp, stick.theme} \subseteq Versions \cup {None, Half}
        /\ stick.cfg \in Versions \cup {None, Half, 0}
        /\ {stick.cores, stick.assets} \subseteq {None, Half, Whole}
        /\ stick.removing \subseteq {"cores", "assets"}
        BY DEF Inv, Stick
  <2>2. step \in AllSteps \cup {None}
    <3>1. ASSUME NEW j \in Jobs, step \in {Steps[j][i] : i \in 1..Len(Steps[j])} PROVE step \in AllSteps
          BY <3>1 DEF AllSteps
    <3> QED BY <3>1, NoJob DEF Inv, AtStep, Steps, go, raInstall, retroarchZip, retroarchRemove
  <2> QED BY <2>1, <2>2 DEF Inv, AtStep, Builds, Values, TypeOK
<1> QED BY <1>1, InvHolds, PTL

(* Whatever stops a run, and whatever job comes next, the stick has the    *)
(* old RetroArch or the new one until it is to be removed.                 *)
THEOREM OldRetroArchOrNew == Spec => OldOrNew
<1>1. Inv /\ Inv' /\ [Next]_vars =>
         [stick'.binary # Half /\ (stick.binary # None /\ job # "remove" => stick'.binary # None)]_vars
  <2> SUFFICES ASSUME Inv, Inv', [Next]_vars
               PROVE  stick'.binary # Half /\ (stick.binary # None /\ job # "remove" => stick'.binary # None)
      OBVIOUS
  <2>1. stick'.binary # Half
        BY MarksAreNoBuild DEF Inv, Stick
  <2>2. ASSUME stick.binary # None, job # "remove" PROVE stick'.binary # None
    <3> USE NoJob DEF Only, Parts
    <3>1. CASE prepare \/ unpack \/ restore
          BY <2>2, <3>1, UpdateDoes DEF Inv
    <3>2. CASE installBinary
          BY <3>2, RetroArchDoes, MarksAreNoBuild DEF installBinary, At, Inv, AtStep, Builds
    <3>3. CASE raCheckSpace \/ writeRetroArchCfg \/ extractBundle \/ extractFails \/ setCfgKeys
          BY <2>2, <3>3, RetroArchDoes DEF Lays, Inv
    <3>4. CASE stageBinary \/ unpackCores \/ applyThemeTree \/ stampVersion
          BY <2>2, <3>4, RetroArchDoes DEF Lays, Inv
    <3>5. CASE retroarchRemoval
          BY <2>2, <3>5 DEF retroarchRemoval, Drop, awayCores, awayAssets, Delete, At, Inv, AtStep
    <3>6. CASE \/ (\E f \in Files : downloadVerified(f)) \/ raDownloadBundles \/ raUnpackBundles
               \/ build \/ assets \/ installZip \/ applyTheme \/ finish
               \/ Publish \/ (\E j \in Jobs : Start(j)) \/ Cut \/ UNCHANGED vars \/ GiveUp
      <4> HIDE DEF Only
      <4>1. Only({}) \/ Only({"staged"})
            BY <3>6, OthersDo DEF Inv
      <4> QED BY <2>2, <4>1 DEF Only
    <3> QED BY <3>1, <3>2, <3>3, <3>4, <3>5, <3>6 DEF Next, Step
  <2> QED BY <2>1, <2>2
<1> QED BY <1>1, InvHolds, PTL DEF Spec, OldOrNew

(* AutoBleem's look never keeps libretro's assets from being installed.    *)
THEOREM ThemeIsOverItsBundle == Spec => []ThemeNeverHidesBundle
<1>1. Inv => ThemeNeverHidesBundle
      BY DEF Inv, Bundle, ThemeNeverHidesBundle
<1> QED BY <1>1, InvHolds, PTL

(* Where an interrupted job is run again before one of another kind, what  *)
(* the installer takes for the site's build is all of it.                  *)
THEOREM NothingIsTakenForDone == ASSUME ~Mixes PROVE Spec => []FailedRunIsOffered
<1>1. RunInv => FailedRunIsOffered
      BY DEF RunInv, Left, OnTheStick, FailedRunIsOffered
<1> QED BY <1>1, RunInvHolds, PTL

(* There too, once nothing is left interrupted nothing is left half.       *)
THEOREM NothingIsLeftHalf == ASSUME ~Mixes PROVE Spec => []NothingLeftHalf
<1>1. Inv /\ RunInv => NothingLeftHalf
      BY NoJob, MarksAreNoBuild
         DEF Inv, RunInv, Left, Interrupted, OnTheStick, NothingLeftHalf, AtStep
<1> QED BY <1>1, InvHolds, RunInvHolds, PTL
=============================================================================
