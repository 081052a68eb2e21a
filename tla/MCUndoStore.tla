---------------------------- MODULE MCUndoStore ----------------------------
(* Two sessions, two paths and records of two sizes share one dump.  Three *)
(* units of budget for a put and two for a delete hold one large or two    *)
(* small records, so the third line of a behaviour already compacts.       *)
EXTENDS UndoStore, TLC

CONSTANTS s1, s2, p1, p2, p3

MCSessions == {s1, s2}
MCPaths == {p1, p2}
MCSizes == {1, 3}

\* One session is enough for the two statements the code contradicts.
MCOneSession == {s1}
MCThreePaths == {p1, p2, p3}

Symmetric == Permutations(MCSessions) \cup Permutations(MCPaths)
=============================================================================
