----------------------------- MODULE SentArguments -----------------------------
(***************************************************************************)
(* What repair (src/src/repair) may make of the arguments a call was sent  *)
(* with: properties of EditCalls about the call just prepared.             *)
(***************************************************************************)
EXTENDS EditCalls

(* What an edit call meant, read off the arguments it sent without repairing  *)
(* them: encodings opened, the edits and the texts at the top level.          *)

Opened(v) == IF v.t = "enc" THEN v.v ELSE v

Core(v) ==
  LET layer[n \in 0 .. MaxDecodes] == IF n = 0 THEN v ELSE Opened(layer[n - 1])
      inner == layer[MaxDecodes]
  IN  IF IsArr(inner) /\ Len(inner.e) = 1 /\ IsObj(inner.e[1]) THEN inner.e[1] ELSE inner

\* The edits as an array, though they may be sent as something else.
SentAlone(v) == ~IsArr(Opened(At(v, "edits")))

Nested(v) ==
  LET edits == Opened(At(v, "edits"))
      s == CASE IsArr(edits) -> edits.e
             [] edits \in {Absent, Str("")} -> <<>>
             [] OTHER -> <<edits>>
      opened == [i \in DOMAIN s |-> Opened(s[i])]
  IN  AtPlaces(opened, {i \in DOMAIN s : opened[i] # Str("")})

EntriesOf(v) == Append(Nested(v), v)

NamesOf(k) == {k} \cup Range(AliasesOf(k))

\* The texts x gives under names: numbers are written out, null is so only in an
\* edit that was sent without an array around it.
TextsOf(x, names, alone) ==
  {AsText(At(x, n)) : n \in {m \in names : At(x, m) # Absent /\ (At(x, m) = Null => alone)}}

\* The edit e has the texts of the entry x, and all of them if that was an edit.
MadeOf(e, x, alone) ==
  /\ At(e, "oldText") \in TextsOf(x, NamesOf("oldText") \cup {"anchor"}, alone)
  /\ At(e, "newText") \in TextsOf(x, NamesOf("newText"), alone) \cup {Str("")}
  /\ At(e, "anchor") \in TextsOf(x, {"anchor"}, alone) \cup {Absent}
  /\ IsEdit(x) => \A k \in Required : At(e, k) = At(x, k)

\* The paths at the top level, under any name.
PathsGiven(v) == TextsOf(v, NamesOf("path"), FALSE)

\* The path an edit is for: under its own name or, where that is missing, under
\* the first alias that gives one.
PathFor(x) ==
  LET names == IF At(x, "path") \in {Absent, Null} THEN AliasesOf("path") ELSE <<"path">>
      given == {i \in DOMAIN names : IsString(At(x, names[i])) /\ At(x, names[i]) # Str("")}
  IN  IF given = {} THEN {} ELSE {At(x, names[Min(given)])}

\* x, or the top level where texts are folded from, means to delete.
SaysDelete(x, e) ==
  /\ At(e, "oldText") \in {AsText(At(x, n)) : n \in NamesOf("oldText")}
  /\ \/ At(x, "newText") = Str("")
     \/ \A n \in NamesOf("newText") : ~IsString(At(x, n)) \/ At(x, n) = Str("")

FoldsDelete(v, e) ==
  /\ At(e, "oldText") \in {At(v, "oldText"), At(v, "old_str")}
  /\ FirstString(v, "newText", "new_str") = Str("")

\* What arguments tell the tool to do.
Meaning(a) ==
  [i \in DOMAIN a.f.edits.e |-> [k \in Range(TextFields) |-> At(a.f.edits.e[i], k)]]

-----------------------------------------------------------------------------

\* An edit call just prepared, before time passes or the session ends.
Fresh(c) ==
  pc[c] = "prepared" /\ Tool(c) = "edit" /\ now = 0 /\ shutdowns = 0 /\ batch.repair

\* However the arguments were repaired, each edit is made of the texts of one
\* entry that was sent, in their order, and none of the edits that came complete
\* is missing (repair/entry.ts 654-685, repair-engine.ts 486-499).
KeepsWhatWasSent ==
  \A c \in Ids : Fresh(c) =>
    LET v == Core(Raw(c))
        sent == EntriesOf(v)
        kept == args[c].f.edits.e
    IN \E at \in [DOMAIN kept -> DOMAIN sent] :
         /\ \A i, j \in DOMAIN kept : i < j => at[i] < at[j]
         /\ \A i \in DOMAIN kept : MadeOf(kept[i], sent[at[i]], SentAlone(v))
         /\ \A j \in DOMAIN sent : IsEdit(sent[j]) => \E i \in DOMAIN kept : at[i] = j

\* An edit that deletes was sent as a deletion, or with its text under no name a
\* repair knows (repair/entry.ts 599-613).
DeletionsMeant ==
  \A c \in Ids : Fresh(c) =>
    LET v == Core(Raw(c)) IN
    \A i \in DOMAIN args[c].f.edits.e :
      LET e == args[c].f.edits.e[i] IN
      At(e, "newText") = Str("") =>
        (\E x \in Range(EntriesOf(v)) : SaysDelete(x, e)) \/ FoldsDelete(v, e)

\* The file is one the call named at the top level, or, where it named none, the
\* only one its edits name: edits for two files are never sent to one of them
\* (repair/entry.ts 450-495).
PathNamed ==
  \A c \in Ids : Fresh(c) =>
    LET v == Core(Raw(c))
        path == At(args[c], "path")
    IN path # Str("") =>
         path \in PathsGiven(v) \/ UNION {PathFor(x) : x \in Range(Nested(v))} = {path}

\* Repaired arguments need no more repair: no rule undoes another's work, and a
\* second repair changes no text and no path there is (repair/pipeline.ts 65-174).
RepairSettles ==
  \A c \in Ids : Fresh(c) /\ Prepared(c).outcome = "repaired" =>
    LET Same(final) ==
          /\ Meaning(final) = Meaning(args[c])
          /\ At(args[c], "path") # Str("") => At(final, "path") = At(args[c], "path")
        Settled(again) == Accepted(again) /\ Same(Convert(again.args))
    IN  Settled(PrepareEditArguments(args[c], TRUE, batch.conservative))

\* The passes of schema repair come to their end by themselves: MAX_ISSUE_PASSES
\* is never what stops them (repair/repair-engine.ts 309-315).
PassesSuffice ==
  \A c \in Ids : pc[c] = "sent" /\ now = 0 /\ shutdowns = 0 /\ IsObj(Raw(c)) =>
    LET Ended(v) == Valid(v) \/ Pass(v).n = 0 IN Ended(Passes(Raw(c), 0).v)

\* Edits that native compatibility gives up for the texts at the top level, or
\* that no edit can be made of.
GivenUp(edits) ==
  \/ IsString(edits) /\ edits # Str("") /\ ~EncodesEdit(edits)
  \/ LET edit == Opened(edits) IN
       IsEdit(edit) /\ At(edit, "anchor") # Absent /\ ~IsString(At(edit, "anchor"))

\* Arguments native compatibility makes valid are not refused with repair on,
\* unless it drops edits to do so (repair/entry.ts 691-718).
NeverStricter ==
  \A c \in Ids :
    /\ result[c] = "refused" /\ Tool(c) = "edit" /\ now = 0 /\ shutdowns = 0 /\ batch.repair
    /\ Valid(NativeCompatibility(Raw(c)))
    => GivenUp(At(Raw(c), "edits"))
=============================================================================
