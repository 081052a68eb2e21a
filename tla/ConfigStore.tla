----------------------------- MODULE ConfigStore -----------------------------
(***************************************************************************)
(* The configuration in layers: packages/pi-base/src/config.ts (one file   *)
(* for each scope, read through a cache that trusts the time and the size  *)
(* of the file), core/config-env.ts, config-manager.ts (load, save, reset  *)
(* and delete) and the validator of src/src/config/settings.ts.  A file    *)
(* holds a function of keys, known or foreign; values are classes of the   *)
(* values a key may hold.  Warnings, the LRU limit of the cache and the    *)
(* gate for test runs are left out.                                        *)
(***************************************************************************)
EXTENDS Naturals, FiniteSetsExt, Functions

CONSTANTS
  Keys,      \* keys of DEFAULTS
  Values,    \* classes of values
  Typed,     \* Typed[k]: values of k's JSON type
  Fits,      \* Fits[k]: values validateFieldValue has no warning about
  Bound,     \* Bound[v]: v brought into its range
  Default,   \* Default[k]: the built-in default of k
  Width,     \* Width[v]: bytes v takes in a file
  Unset,     \* an environment variable that is not set
  NoCache    \* no cache entry

ASSUME ConfigAssumption ==
  /\ Typed \in [Keys -> SUBSET Values] /\ Fits \in [Keys -> SUBSET Values]
  /\ Bound \in [Values -> Values] /\ Default \in [Keys -> Values]
  /\ \A k \in Keys : Default[k] \in Typed[k] /\ Bound[Default[k]] = Default[k]
  /\ \A k \in Keys : \A v \in Fits[k] : v \in Typed[k] /\ Bound[v] = v
  /\ \A k \in Keys : \A v \in Typed[k] : Bound[v] \in Typed[k] /\ Bound[Bound[v]] = Bound[v]

Scopes == {"global", "project"}

VARIABLES
  files,   \* files[s]: the file's state, its data and its time
  frozen,  \* scopes whose file cannot be written or deleted
  env,     \* env[k]: the environment's value for k, or Unset
  cache,   \* _configCache of this process
  clock    \* the time files are stamped with, no finer than a tick

storeVars == <<files, frozen, env, cache, clock>>

NoData == [k \in {} |-> Unset]
NoFile == [state |-> "none", data |-> NoData, mtime |-> 0]
FileOfData(data) == [state |-> "object", data |-> data, mtime |-> clock]

Size(data) == MapThenSumSet(LAMBDA k : Width[data[k]], DOMAIN data)

-----------------------------------------------------------------------------
(* Reading: a hit needs the same time and the same size; a file that does    *)
(* not parse reads as none and leaves no entry.                              *)

IsHit(file, entry) ==
  /\ file.state # "none" /\ entry # NoCache
  /\ entry.mtime = file.mtime /\ entry.size = Size(file.data)

DataRead(file, entry) == IF IsHit(file, entry) THEN entry.data ELSE file.data

CacheAfterRead(file, entry) ==
  IF IsHit(file, entry) THEN entry
  ELSE IF file.state = "object"
  THEN [data |-> file.data, mtime |-> file.mtime, size |-> Size(file.data)]
  ELSE NoCache

ReadConfig(s) == DataRead(files[s], cache[s])

\* DEFAULTS take the environment in, too.  The code reads a variable for them with
\* readEnv, which brings two of the numbers into range, and for the layer over the
\* files with other parsers, which do not; here a variable has one value for both.
Defaults == [k \in Keys |-> IF env[k] = Unset THEN Default[k] ELSE env[k]]

\* Layers for the rows of a scope: the project's file over the global one.
Layers(s) ==
  [k \in Keys |->
     IF s = "project" /\ k \in DOMAIN ReadConfig("project") THEN ReadConfig("project")[k]
     ELSE IF k \in DOMAIN ReadConfig("global") THEN ReadConfig("global")[k]
     ELSE Defaults[k]]

\* A faulty Validate: the range is not applied.
MutValidate(raw) == [k \in Keys |-> IF raw[k] \in Typed[k] THEN raw[k] ELSE Defaults[k]]

\* The validator: the default for a value of another type, its range for others.
Validate(raw) == [k \in Keys |-> IF raw[k] \in Typed[k] THEN Bound[raw[k]] ELSE Defaults[k]]

\* load, with the project's layer or without: the environment comes last and is
\* not validated.
Load(s) == [k \in Keys |-> IF env[k] = Unset THEN Validate(Layers(s))[k] ELSE env[k]]

-----------------------------------------------------------------------------
(* Writing.                                                                  *)

\* A faulty CacheAfterWrite: the entry stays.
MutCacheAfterWrite(s) == cache

\* The entry goes before the write, whatever becomes of it.
CacheAfterWrite(s) == [cache EXCEPT ![s] = NoCache]

WriteConfig(s, data) ==
  files' = IF s \in frozen THEN files ELSE [files EXCEPT ![s] = FileOfData(data)]

DeleteConfig(s) == files' = IF s \in frozen THEN files ELSE [files EXCEPT ![s] = NoFile]

\* A faulty Differs: keys the file lacks are taken for equal.
MutDiffers(existing, k, v) == k \in DOMAIN existing /\ existing[k] # v

\* A known key is written if its value is not the one the file read ...
Differs(existing, k, v) == k \notin DOMAIN existing \/ existing[k] # v

\* ... and has no warning.
Diff(config, existing) == {k \in Keys : Differs(existing, k, config[k]) /\ config[k] \in Fits[k]}

Foreign(data) == Restrict(data, DOMAIN data \ Keys)

\* save: what it writes, over what it read.
Merged(config, existing) ==
  [k \in DOMAIN existing \cup Diff(config, existing) |->
     IF k \in Diff(config, existing) THEN config[k] ELSE existing[k]]

NothingToSave(config, existing) ==
  Diff(config, existing) = {} /\ DOMAIN existing \subseteq Keys

\* save throws if the write fails; the file is read before.
SaveFails(s, config) == ~NothingToSave(config, ReadConfig(s)) /\ s \in frozen

Save(s, config) ==
  IF NothingToSave(config, ReadConfig(s))
  THEN UNCHANGED files
  ELSE WriteConfig(s, Merged(config, ReadConfig(s)))

\* resetScope keeps foreign keys, and no file without any.
ResetScope(s) ==
  IF DOMAIN Foreign(ReadConfig(s)) # {}
  THEN WriteConfig(s, Foreign(ReadConfig(s)))
  ELSE DeleteConfig(s)

=============================================================================
