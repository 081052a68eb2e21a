------------------------------- MODULE Repair -------------------------------
(***************************************************************************)
(* The repair of an edit call's arguments before validation:               *)
(* src/src/repair/entry.ts and the pipeline behind it (envelope.ts,        *)
(* preprocess.ts, repair-engine.ts, pipeline.ts).  JSON values are tagged  *)
(* records.  A string is a text, or encodes a JSON value at the level that *)
(* says which attempt at parsing it succeeds first; a text takes no part   *)
(* in parsing.  Of each field's aliases two are kept, the one flat-fold    *)
(* knows and one it does not.  replaceAll, limits of size, depth and time, *)
(* and the wording of notes are left out.                                  *)
(***************************************************************************)
EXTENDS Naturals, Sequences, SequencesExt, FiniteSets, TLC

CONSTANTS
  Within,     \* the pairs of texts <<x, y>> of which y contains x, x # ""
  Values,     \* the JSON values that arguments are, and are made of
  MaxPasses,  \* MAX_ISSUE_PASSES of repair-engine.ts (3 in the code)
  MaxDecodes  \* maxDecodeAttempts of envelope.ts (3 in the code)

Absent == [t |-> "absent"]
Null == [t |-> "null"]
Num == [t |-> "num"]
Str(s) == [t |-> "str", s |-> s]
Enc(level, v) == [t |-> "enc", level |-> level, v |-> v]
Arr(e) == [t |-> "arr", e |-> e]
Obj(f) == [t |-> "obj", f |-> f]

IsString(v) == v.t \in {"str", "enc"}
IsArr(v) == v.t = "arr"
IsObj(v) == v.t = "obj"

\* A set of values with all that they hold.
AreJson(values) ==
  \A v \in values :
    CASE v.t = "str" -> v = Str(v.s)
      [] v.t = "enc" -> v = Enc(v.level, v.v) /\ v.v \in values
      [] v.t = "arr" -> v = Arr(v.e) /\ v.e \in Seq(values)
      [] v.t = "obj" -> v = Obj(v.f) /\ v.f \in [DOMAIN v.f -> values]
      [] OTHER -> v \in {Null, Num}

\* What contains a text that is not empty is not empty.
ASSUME RepairAssumption ==
  /\ AreJson(Values)
  /\ \A p \in Within : p[2] # ""
  /\ MaxPasses \in Nat /\ MaxPasses >= 3
  /\ MaxDecodes \in Nat /\ MaxDecodes >= 1

\* A value with the field k, one without the fields ks, and a field's value.
With(v, k, x) == Obj([j \in DOMAIN v.f \cup {k} |-> IF j = k THEN x ELSE v.f[j]])
Without(v, ks) == Obj([k \in DOMAIN v.f \ ks |-> v.f[k]])
At(v, k) == IF IsObj(v) /\ k \in DOMAIN v.f THEN v.f[k] ELSE Absent

\* JSON.parse; the same once control characters in strings are escaped; and any
\* of lenientParseAttempts.
Strict(v) == v.t = "enc" /\ v.level = "strict"
Escaped(v) == v.t = "enc" /\ v.level \in {"strict", "newline"}
Lenient(v) ==
  v.t = "enc" /\ v.level \in {"strict", "newline", "quotes", "comma", "both"}

Times(n, rule) == [i \in 1 .. n |-> rule]

\* The elements of q at the places s, in their order.
AtPlaces(q, s) ==
  [k \in 1 .. Cardinality(s) |-> q[CHOOSE i \in s : Cardinality({j \in s : j <= i}) = k]]

-----------------------------------------------------------------------------
(* The schema, checked without and with TypeBox's Convert, which writes null *)
(* and numbers as text and makes an array of what is none.                   *)

TextFields == <<"oldText", "newText", "anchor">>
Required == {"oldText", "newText"}

IsEdit(v) == \A k \in Required : IsString(At(v, k))

Valid(v) ==
  /\ IsString(At(v, "path")) /\ IsArr(At(v, "edits"))
  /\ \A i \in DOMAIN v.f.edits.e :
       /\ IsEdit(v.f.edits.e[i])
       /\ At(v.f.edits.e[i], "anchor") = Absent \/ IsString(At(v.f.edits.e[i], "anchor"))

AsText(v) == CASE v = Null -> Str("null") [] v = Num -> Str("5") [] OTHER -> v

ConvertEdit(v) ==
  IF ~IsObj(v) THEN v
  ELSE Obj([k \in DOMAIN v.f |-> IF k \in Range(TextFields) THEN AsText(v.f[k]) ELSE v.f[k]])

ConvertEdits(v) == LET s == IF IsArr(v) THEN v.e ELSE <<v>> IN
  Arr([i \in DOMAIN s |-> ConvertEdit(s[i])])

Convert(v) ==
  IF ~IsObj(v) THEN v
  ELSE Obj([k \in DOMAIN v.f |->
              CASE k = "path" -> AsText(v.f[k])
                [] k = "edits" -> ConvertEdits(v.f[k])
                [] OTHER -> v.f[k]])

-----------------------------------------------------------------------------
(* Preprocessors: each looks at the places it selects and replaces what it   *)
(* hits there, or misses.                                                    *)

Miss == [hit |-> FALSE, v |-> Absent]
Hit(v) == [hit |-> TRUE, v |-> v]

AliasesOf(k) ==
  CASE k = "path" -> <<"file_path", "file">>
    [] k = "oldText" -> <<"old_str", "old_text">>
    [] k = "newText" -> <<"new_str", "new_text">>
    [] OTHER -> <<>>

ParseStringified(v) == IF Lenient(v) /\ IsArr(v.v) THEN Hit(v.v) ELSE Miss

Filter(v, Drop(_)) ==
  IF IsArr(v) /\ \E i \in DOMAIN v.e : Drop(v.e[i])
  THEN Hit(Arr(AtPlaces(v.e, {i \in DOMAIN v.e : ~Drop(v.e[i])})))
  ELSE Miss

FilterEmpty(v) == Filter(v, LAMBDA x : x = Str(""))
DropEmptyObjects(v) == Filter(v, LAMBDA x : IsObj(x) /\ DOMAIN x.f = {})

EncodesEdit(v) == Lenient(v) /\ IsEdit(v.v)

\* A faulty Unparsable: an empty string is refused too.
MutUnparsable(v) ==
  \/ IsString(v) /\ ~EncodesEdit(v)
  \/ IsArr(v) /\ \E i \in DOMAIN v.e : IsString(v.e[i]) /\ ~EncodesEdit(v.e[i])

\* normalizeEdits throws on a string that is no edit object ...
Unparsable(v) ==
  \/ IsString(v) /\ v # Str("") /\ ~EncodesEdit(v)
  \/ IsArr(v) /\ \E i \in DOMAIN v.e : IsString(v.e[i]) /\ ~EncodesEdit(v.e[i])

\* ... and its preprocessor takes a hit even where nothing changes.
NormalizeEdits(v) ==
  IF v \in {Absent, Null} \/ (IsArr(v) /\ \A i \in DOMAIN v.e : ~IsString(v.e[i])) THEN Miss
  ELSE Hit(CASE EncodesEdit(v) -> Arr(<<v.v>>)
             [] IsEdit(v) -> Arr(<<v>>)
             [] IsArr(v) -> Arr([i \in DOMAIN v.e |->
                                   IF IsString(v.e[i]) THEN v.e[i].v ELSE v.e[i]])
             [] OTHER -> v)

\* The first alias of the canonical field that holds a text replaces it when it
\* is missing.
Rename(v, k, Usable(_)) ==
  LET found == {i \in DOMAIN AliasesOf(k) : Usable(At(v, AliasesOf(k)[i]))}
      alias == AliasesOf(k)[Min(found)]
  IN IF At(v, k) \in {Absent, Null} /\ found # {}
     THEN Hit(Without(With(v, k, v.f[alias]), {alias}))
     ELSE Miss

ExactAlias(v, k) == Rename(v, k, LAMBDA x : IsString(x) /\ x # Str(""))

\* oldText alone is a deletion ...
InferDeletion(v) ==
  IF /\ {At(v, "newText"), At(v, "new_str")} = {Absent}
     /\ IsString(At(v, "oldText")) /\ v.f.oldText # Str("")
  THEN Hit(With(v, "newText", Str("")))
  ELSE Miss

\* ... and an anchor the new text contains stands for a missing oldText.
InferInsertion(v) ==
  IF /\ {At(v, "oldText"), At(v, "old_str")} = {Absent}
     /\ At(v, "newText").t = "str" /\ At(v, "anchor").t = "str"
     /\ <<v.f.anchor.s, v.f.newText.s>> \in Within
  THEN Hit(With(v, "oldText", v.f.anchor))
  ELSE Miss

\* A faulty Agreed: any of the paths is taken.
MutAgreed(named) == named # {}

\* Paths that disagree are left for validation to refuse.
Agreed(named) == Cardinality(named) = 1

\* The one path the edits name becomes the call's, which names none.
HoistNestedPath(v) ==
  LET edits == At(v, "edits")
      named == {p \in {At(edits.e[i], "path") : i \in DOMAIN edits.e} :
                  IsString(p) /\ p # Str("")}
      Cleaned(x) == IF IsObj(x) THEN Without(x, {"path"}) ELSE x
  IN
  IF /\ ~IsString(At(v, "path")) \/ v.f.path = Str("")
     /\ IsArr(edits) /\ Agreed(named)
  THEN Hit(With(With(v, "path", CHOOSE p \in named : TRUE), "edits",
                Arr([i \in DOMAIN edits.e |-> Cleaned(edits.e[i])])))
  ELSE Miss

FirstString(v, k, alias) ==
  CASE IsString(At(v, k)) -> At(v, k)
    [] ~IsString(At(v, k)) /\ IsString(At(v, alias)) -> At(v, alias)
    [] OTHER -> Absent

\* A faulty FoldedEdits: the edits there are get lost.
MutFoldedEdits(v, edit) == <<edit>>

\* The edits there are, if an array, with one more.
FoldedEdits(v, edit) ==
  IF IsArr(At(v, "edits")) THEN Append(v.f.edits.e, edit) ELSE <<edit>>

\* A faulty FoldedFields: two of the folded fields stay.
MutFoldedFields == {"old_str", "new_str", "anchor"}

\* The fields a fold takes from the top level.
FoldedFields == {"oldText", "newText", "old_str", "new_str", "anchor"}

\* Texts at the top level become the last edit.
FlatFold(v) ==
  LET old == FirstString(v, "oldText", "old_str")
      new == FirstString(v, "newText", "new_str")
      anchor == At(v, "anchor")
      pair == Obj([oldText |-> old, newText |-> new])
      edit == IF IsString(anchor) THEN With(pair, "anchor", anchor) ELSE pair
      rest == Without(v, FoldedFields)
  IN
  IF Absent \in {old, new} THEN Miss ELSE Hit(With(rest, "edits", Arr(FoldedEdits(v, edit))))

\* A run of the preprocessors: the value, the rules that hit, and whether one threw.
AtRoot(s, rule, hit) ==
  IF ~hit.hit THEN s ELSE [s EXCEPT !.v = hit.v, !.changes = Append(@, rule)]

AtEdits(s, rule, hit) ==
  IF ~hit.hit THEN s
  ELSE [s EXCEPT !.v = With(s.v, "edits", hit.v), !.changes = Append(@, rule)]

AtEachEdit(s, rule, F(_)) ==
  IF ~IsArr(At(s.v, "edits")) THEN s
  ELSE LET e == s.v.f.edits.e
           r == [i \in DOMAIN e |-> IF IsObj(e[i]) THEN F(e[i]) ELSE Miss]
           n == Cardinality({i \in DOMAIN e : r[i].hit})
       IN IF n = 0 THEN s
          ELSE [s EXCEPT !.v = With(s.v, "edits",
                                 Arr([i \in DOMAIN e |-> IF r[i].hit THEN r[i].v ELSE e[i]])),
                         !.changes = @ \o Times(n, rule)]

NormalizeRules == <<"parse-stringified-edits", "filter-empty-edits", "normalize-edits",
  "filter-empty-edits", "drop-empty-edit-objects">>
AliasRules == <<"alias-path", "alias-oldText", "alias-newText", "alias-nested-path">>
InferRules == <<"infer-deletion-missing-newtext", "infer-insertion-missing-oldtext">>

\* A faulty Preprocessors: what is missing is inferred before aliases are renamed.
MutPreprocessors ==
  NormalizeRules \o InferRules \o AliasRules \o <<"hoist-nested-path", "flat-fold">>

\* In their order: what is inferred is inferred from the canonical names.
Preprocessors ==
  NormalizeRules \o AliasRules \o InferRules \o <<"hoist-nested-path", "flat-fold">>

Preprocess1(s, rule) ==
  LET edits == At(s.v, "edits") IN
  IF s.threw \/ ~IsObj(s.v) THEN s
  ELSE CASE rule = "parse-stringified-edits" -> AtEdits(s, rule, ParseStringified(edits))
    [] rule = "filter-empty-edits" -> AtEdits(s, rule, FilterEmpty(edits))
    [] rule = "normalize-edits" ->
         IF Unparsable(edits) THEN [s EXCEPT !.threw = TRUE]
         ELSE AtEdits(s, rule, NormalizeEdits(edits))
    [] rule = "drop-empty-edit-objects" -> AtEdits(s, rule, DropEmptyObjects(edits))
    [] rule = "alias-path" -> AtRoot(s, rule, ExactAlias(s.v, "path"))
    [] rule = "alias-oldText" -> AtEachEdit(s, rule, LAMBDA x : ExactAlias(x, "oldText"))
    [] rule = "alias-newText" -> AtEachEdit(s, rule, LAMBDA x : ExactAlias(x, "newText"))
    [] rule = "alias-nested-path" -> AtEachEdit(s, rule, LAMBDA x : ExactAlias(x, "path"))
    [] rule = "infer-deletion-missing-newtext" -> AtEachEdit(s, rule, InferDeletion)
    [] rule = "infer-insertion-missing-oldtext" -> AtEachEdit(s, rule, InferInsertion)
    [] rule = "hoist-nested-path" -> AtRoot(s, rule, HoistNestedPath(s.v))
    [] rule = "flat-fold" -> AtRoot(s, rule, FlatFold(s.v))

Run(rules, v, changes) ==
  LET after[k \in 0 .. Len(rules)] ==
        IF k = 0 THEN [v |-> v, changes |-> changes, threw |-> FALSE]
        ELSE Preprocess1(after[k - 1], rules[k])
  IN  after[Len(rules)]

Preprocess(v, changes) == Run(Preprocessors, v, changes)

-----------------------------------------------------------------------------
(* Schema repair: pass after pass, the first rule that helps at each site    *)
(* the strict check complains of.  Sites do not touch each other's fields,   *)
(* so the order within a pass does not matter.                               *)

\* A faulty Dropped: the field stays, without a value.
MutDropped(v, k) == With(v, k, Null)

Dropped(v, k) == Without(v, {k})

\* The field k of the object v, of the given JSON type, is such a site.
RepairField(v, k, expected) ==
  LET Otherwise(x) ==
        CASE x = Null \/ (expected = "array" /\ IsObj(x) /\ DOMAIN x.f = {}) -> Hit(Dropped(v, k))
          [] expected = "array" /\ IsString(x) ->
               Hit(With(v, k, IF Strict(x) /\ IsArr(x.v) THEN x.v ELSE Arr(<<x>>)))
          [] OTHER -> Miss
      First(renamed) == IF renamed.hit THEN renamed ELSE Otherwise(At(v, k))
  IN  First(Rename(v, k, LAMBDA y : y \notin {Absent, Null, Str("")}))

\* The repair of a field the check complains of, counted.
Repaired1(s, k, expected, complains) ==
  LET After(r) == IF complains /\ r.hit THEN [v |-> r.v, n |-> s.n + 1] ELSE s
  IN  After(RepairField(s.v, k, expected))

RepairText(s, k) ==
  Repaired1(s, k, "string", ~IsString(At(s.v, k)) /\ (k \in Required \/ At(s.v, k) # Absent))

RepairEdit(v) ==
  IF IsObj(v) THEN RepairText(RepairText(RepairText([v |-> v, n |-> 0], "oldText"), "newText"), "anchor")
  ELSE IF Strict(v) /\ IsObj(v.v) THEN [v |-> v.v, n |-> 1] ELSE [v |-> v, n |-> 0]

RepairRoot(v) ==
  LET Edits(p) == Repaired1(p, "edits", "array", ~IsArr(At(p.v, "edits")))
  IN  Edits(Repaired1([v |-> v, n |-> 0], "path", "string", ~IsString(At(v, "path"))))

\* The repairs counted in all of r.
Total(r) ==
  LET upTo[i \in 0 .. Len(r)] == IF i = 0 THEN 0 ELSE upTo[i - 1] + r[i].n
  IN  upTo[Len(r)]

\* One pass: element sites are those of the array the pass started from.
Pass(v) ==
  LET WithEdits(root, edits) ==
        [v |-> With(root.v, "edits", Arr([i \in DOMAIN edits |-> edits[i].v])),
         n |-> root.n + Total(edits)]
      From(root) ==
        IF ~IsArr(At(v, "edits")) THEN root
        ELSE WithEdits(root, [i \in DOMAIN v.f.edits.e |-> RepairEdit(v.f.edits.e[i])])
  IN  From(RepairRoot(v))

\* All passes; a pass without a repair ends them.
OnePass(s) ==
  LET After(p) == [v |-> p.v, n |-> s.n + p.n, done |-> p.n = 0]
  IN  IF s.done \/ Valid(s.v) THEN [s EXCEPT !.done = TRUE] ELSE After(Pass(s.v))

Passes(v, n) ==
  LET after[k \in 0 .. MaxPasses] ==
        IF k = 0 THEN [v |-> v, n |-> n, done |-> FALSE] ELSE OnePass(after[k - 1])
  IN  after[MaxPasses]

Unrepairable == [outcome |-> "unrepairable", v |-> Absent, n |-> 0]

\* The last verdict is on the converted value; a repair that fired nothing hands
\* the input back.
RepairSchema(v) ==
  LET AsItWas == [outcome |-> "valid", v |-> v, n |-> 0]
      Judged(s, final) ==
        IF ~Valid(final) THEN Unrepairable
        ELSE IF s.n = 0 THEN AsItWas ELSE [outcome |-> "repaired", v |-> final, n |-> s.n]
      Converted(s) == Judged(s, Convert(s.v))
  IN  IF Valid(v) THEN AsItWas
      ELSE IF IsObj(v) THEN Converted(Passes(v, 0))
      ELSE IF Strict(v) /\ IsObj(v.v) THEN Converted(Passes(v.v, 1))
      ELSE Unrepairable

-----------------------------------------------------------------------------
(* The pipeline.                                                             *)

\* Layers of encoding are decoded while they parse, an array of one object is
\* unwrapped; if no object comes of it the input stays, with the object it may
\* have been cut from as a candidate.
RecoverEnvelope(raw) ==
  LET layer[n \in 0 .. MaxDecodes] ==
        IF n = 0 THEN raw ELSE IF Escaped(layer[n - 1]) THEN layer[n - 1].v ELSE layer[n - 1]
      decoded == layer[MaxDecodes]
      single == IsArr(decoded) /\ Len(decoded.e) = 1 /\ IsObj(decoded.e[1])
      v == IF single THEN decoded.e[1] ELSE decoded
      n == Cardinality({i \in 1 .. MaxDecodes : Escaped(layer[i - 1])})
  IN IF IsObj(v)
     THEN [v |-> v, cut |-> Absent,
           changes |-> Times(n, "envelope.decode-json")
             \o Times(IF raw.t = "enc" /\ raw.level = "newline" THEN 1 ELSE 0,
                      "envelope.escape-control-character")
             \o Times(IF single THEN 1 ELSE 0, "envelope.unwrap-singleton-object-array")]
     ELSE [v |-> raw, changes |-> <<>>,
           cut |-> IF raw.t = "enc" /\ raw.level = "cut" /\ IsObj(raw.v) THEN raw.v ELSE Absent]

Refused(outcome, raw) == [outcome |-> outcome, args |-> raw, changes |-> <<>>]

\* Preprocess, repair, convert and check once more; without a change the input
\* stays as it is.
ApplyDownstream(v, initial) ==
  LET Judged(r, final, changes) ==
        IF r.outcome = "unrepairable" \/ ~Valid(final) THEN Refused("unrepairable", v)
        ELSE IF changes = <<>> THEN [outcome |-> "valid", args |-> v, changes |-> <<>>]
        ELSE [outcome |-> "repaired", args |-> final, changes |-> changes]
      Repaired(p, r) == Judged(r, Convert(r.v), p.changes \o Times(r.n, "schema-repair"))
      From(p) == IF p.threw THEN Refused("threw", v) ELSE Repaired(p, RepairSchema(p.v))
  IN  From(Preprocess(v, initial))

\* A candidate that passes wins, unless the policy is conservative.
RunRepairPipeline(raw, conservative) ==
  LET Primary(r) == IF r.outcome = "unrepairable" THEN Refused("unrepairable", raw) ELSE r
      Choose(env, completed) ==
        IF ~conservative /\ env.cut # Absent /\ completed.outcome # "unrepairable" THEN completed
        ELSE Primary(ApplyDownstream(env.v, env.changes))
      From(env) ==
        Choose(env, ApplyDownstream(env.cut, <<"envelope.complete-truncated-object">>))
  IN  From(RecoverEnvelope(raw))

\* What prepareEditArguments does with repair disabled.
NativeCompatibility(raw) ==
  Run(<<"parse-stringified-edits", "filter-empty-edits", "flat-fold">>, raw, <<>>).v

PrepareEditArguments(raw, repairEnabled, conservative) ==
  IF repairEnabled THEN RunRepairPipeline(raw, conservative)
  ELSE [outcome |-> "valid", args |-> NativeCompatibility(raw), changes |-> <<>>]
=============================================================================
