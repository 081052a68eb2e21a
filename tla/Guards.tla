------------------------------- MODULE Guards -------------------------------
(***************************************************************************)
(* The tool_call hooks that look at a call's path: preflight               *)
(* (src/src/guards/preflight, src/src/platform/hooks/preflight.ts) and the *)
(* overwrite guard (src/src/guards/overwrite/guard.ts), both switched on.  *)
(* A call's input is an object of Repair.  Each of the hooks and the tools *)
(* takes a spelling of a path for a file in its own way: "~/f" is a file   *)
(* in a directory called "~" to the hooks and one at home to the tools,    *)
(* and "@f" is f only to the tools.                                        *)
(***************************************************************************)
EXTENDS Repair

CONSTANTS
  Paths,       \* spellings of paths a call may give
  PathTools,   \* PATH_TOOLS: the tools whose path is looked at
  Trimmed,     \* normalizePathValue: p without blanks, and one pair of quotes, around it
  HookFile,    \* HookFile[p]: p for preflight, resolve(cwd, p)
  GuardFile,   \* GuardFile[p]: p for the overwrite guard, statSync(p)
  ToolFile,    \* ToolFile[p]: p for the tools, resolveToCwd(p, cwd)
  Outside,     \* files outside the working directory
  NoParent     \* files whose directory cannot be made

ASSUME PathAssumption ==
  /\ Trimmed \in [Paths -> Paths]
  /\ \A f \in {HookFile, GuardFile, ToolFile} : Paths \subseteq DOMAIN f
  /\ "" \in Paths => HookFile[""] \notin Outside  \* it is the working directory
  /\ {"edit", "write"} \subseteq PathTools

VARIABLES
  nudged,  \* OverwriteGuard.nudged: spellings nudged in this session
  disk     \* disk[f]: "none", "empty" or "full"

guardVars == <<nudged, disk>>

Files == UNION {{HookFile[p], GuardFile[p], ToolFile[p]} : p \in Paths}

\* getPathArg: the first of its keys that holds a path; filePath, the third, is
\* treated as file_path is.
PathKeys == {"path", "file_path"}
Names(v, k) == At(v, k).t = "str" /\ At(v, k) # Str("")
PathKey(v) ==
  IF Names(v, "path") THEN "path" ELSE IF Names(v, "file_path") THEN "file_path" ELSE ""

PathArg(v) == v.f[PathKey(v)].s
FileArg(v) == HookFile[Trimmed[PathArg(v)]]

\* The file a tool that executes takes its path for; no path is the working
\* directory.
Target(v) == ToolFile[At(v, "path").s]
IsOutside(v) == Names(v, "path") /\ Target(v) \in Outside

\* preflight: a call without a path passes ...
Looked(tool, v) == tool \in PathTools /\ PathKey(v) # ""

\* ... a write is blocked if its directory cannot be made, which otherwise is
\* made, another call if its file does not exist ...
PreflightBlocks(tool, v) ==
  /\ Looked(tool, v)
  /\ IF tool = "write" THEN FileArg(v) \in NoParent ELSE disk[FileArg(v)] = "none"

\* ... and otherwise the path moves to its field, without blanks and quotes.
Repaired(tool, v) ==
  IF ~Looked(tool, v) THEN v
  ELSE With(Without(v, {PathKey(v)}), "path", Str(Trimmed[PathArg(v)]))

\* A faulty OwnsAdvisory: no tool advises itself.
MutOwnsAdvisory(tool) == FALSE

\* ADVISORY_OWNING_TOOLS: they advise themselves when they execute.
OwnsAdvisory(tool) == tool = "edit"

Advises(tool, v) ==
  Looked(tool, v) /\ FileArg(v) \in Outside /\ ~OwnsAdvisory(tool)

\* Events the preflight hook records.
PreflightEvents(tool, v) ==
  (IF Repaired(tool, v) # v THEN 1 ELSE 0) + (IF Advises(tool, v) THEN 1 ELSE 0)

\* checkWrite: the spelling was not nudged before and, read as it stands, names a
\* file with content.
Nudges(tool, v) ==
  /\ tool = "write" /\ Names(v, "path")
  /\ At(v, "path").s \notin nudged /\ disk[GuardFile[At(v, "path").s]] = "full"

Nudge(v) == nudged' = nudged \cup {At(v, "path").s}

MutResetNudged == nudged' = nudged

\* reset, at the end of the session.
ResetNudged == nudged' = {}
=============================================================================
