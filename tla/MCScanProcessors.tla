-------------------------- MODULE MCScanProcessors --------------------------
(* An index over the whole tree that only reads, and over each of two      *)
(* games a step that packs and one that unpacks what the other made, and   *)
(* leaves one kind of game as it is.                                       *)
EXTENDS ScanProcessors, TLC
CONSTANTS crash, spyro, index, unzip, pack, zip, iso, bin

TwoGames == <<crash, spyro>>
IndexOnly == <<index>>
PackThenUnzip == <<pack, unzip>>
ArrivesAs == crash :> {iso, bin} @@ spyro :> {bin}
TakesOf == pack :> {iso, bin} @@ unzip :> {zip}
EffectOf == pack :> [c \in {zip, iso, bin} |-> IF c = bin THEN bin ELSE zip]
            @@ unzip :> [c \in {zip, iso, bin} |-> IF c = bin THEN bin ELSE iso]
=============================================================================
