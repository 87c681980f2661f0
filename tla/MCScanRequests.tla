--------------------------- MODULE MCScanRequests ---------------------------
(* The scopes of scan_scope.h: a tree the launcher reloads its lists for,  *)
(* the package index, and the Apps set that has no tree.                   *)
EXTENDS ScanRequests, TLC
CONSTANTS scanApps, scanPs1, scanPackages
=============================================================================
