------------------------------ MODULE MCStorage ------------------------------
\* A volume of three free clusters and a FAT with one entry too many.  Directory
\* clusters have room for two names (one in a subdirectory), so that both kinds
\* of directory grow.
EXTENDS FileHandles

TheNames == {"k", "a", "d"}
TheFold == [n \in TheNames |-> n]
TheShort == [n \in TheNames |-> n]
TheWidth == [n \in TheNames |-> 2]
ThePaths == {<<"a">>, <<"d">>, <<".", "d", "a">>, <<"d", "k">>, <<"proc", "a">>, <<"..", "a">>}
TheContents == {<<1>>, <<2, 1>>}
TheBudgets ==
  {[requests |-> 2, faults |-> 1, crashes |-> 1, opens |-> 0],
   [requests |-> 2, faults |-> 1, crashes |-> 0, opens |-> 1],
   [requests |-> 1, faults |-> 0, crashes |-> 0, opens |-> 2],
   [requests |-> 3, faults |-> 0, crashes |-> 0, opens |-> 0]}
\* Enough to let a directory grow, empty its first cluster and remove it.
RmdirBudgets == {[requests |-> 3, faults |-> 0, crashes |-> 0, opens |-> 0]}
TheOpenPaths == {<<>>, <<"a">>, <<"d", "a">>, <<".">>, <<"proc", "meminfo">>}
TheRights == {{}, FileRW, {"read", "lookup", "enum", "create", "delete"}}
=============================================================================
