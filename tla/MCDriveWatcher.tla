-------------------------- MODULE MCDriveWatcher --------------------------
(* Two games, a disc that is none and one that cannot be read.             *)
EXTENDS DriveWatcher, TLC
CONSTANTS tekken, ridge, photos, scratched
=============================================================================
