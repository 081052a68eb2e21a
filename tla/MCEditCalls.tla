----------------------------- MODULE MCEditCalls -----------------------------
(* Messages of one call with every argument of a small universe, of two      *)
(* edits that may be alike, and of several calls of bash and write.          *)
EXTENDS SentArguments

CONSTANT none

\* Texts a, b, and ab, which contains both; paths p and 'p', which is p in quotes, q,
\* o outside the working directory, and f, 'f' and x for writes.  ~/d is o to the
\* tools and a file d of the working directory to the hooks, @f is f to the tools
\* and no file to the hooks.
MCWithin == {<<"a", "a">>, <<"b", "b">>, <<"a", "ab">>, <<"b", "ab">>, <<"ab", "ab">>}
MCPaths == {"p", "'p'", "q", "5", "o", "f", "'f'", "./f", "x", "~/d", "@f", "a", "b", "ab",
            "null"}
MCTrimmed == [p \in MCPaths |-> CASE p = "'p'" -> "p" [] p = "'f'" -> "f" [] OTHER -> p]
MCHookFile == [p \in MCPaths |-> CASE p = "./f" -> "f" [] p = "~/d" -> "d" [] OTHER -> p]
MCToolFile ==
  [p \in MCPaths |-> CASE p \in {"./f", "@f"} -> "f" [] p = "~/d" -> "o" [] OTHER -> p]
MCDisk ==
  [f \in Range(MCHookFile) \cup Range(MCToolFile) |->
     IF f \in {"p", "o", "f", "d"} THEN "full" ELSE "none"]

Message(calls, parallel) ==
  [calls |-> calls, parallel |-> parallel, disk |-> MCDisk,
   repair |-> TRUE, conservative |-> FALSE, telemetry |-> TRUE, amid |-> {}]
EditOf(input) == [tool |-> "edit", input |-> input]

a == Str("a")
b == Str("b")
F(k, v) == k :> v
Nothing == [k \in {} |-> Null]

Olds == {Nothing, F("oldText", a), F("oldText", Str("")), F("oldText", Null), F("oldText", Num),
         F("old_str", a), F("old_text", a), F("oldText", Null) @@ F("old_text", a)}
News == {Nothing, F("newText", b), F("newText", Str("")), F("newText", Null), F("newText", Num),
         F("newText", Str("ab")), F("new_str", b), F("new_text", Str("ab")), F("new_text", Num),
         F("newText", Str("")) @@ F("new_text", b)}
Anchors == {Nothing, F("anchor", a), F("anchor", Null)}
NestedPaths == {Nothing, F("path", Str("q")), F("file", Str("q"))}
RootPaths == {F("path", Str("p")), Nothing, F("path", Str("")), F("path", Null),
              F("path", Num), F("file", Str("p"))}

SingleEdits == {Obj(o @@ n @@ c @@ p) : o \in Olds, n \in News, c \in Anchors, p \in NestedPaths}

Plain == Obj(F("oldText", a) @@ F("newText", b))
Aliased == Obj(F("old_text", b) @@ F("new_text", a))
FewEdits == {Plain, Aliased, Obj(F("oldText", b)), Obj(Nothing), Str(""), a, Null,
             Obj(Plain.f @@ F("path", Str("q"))), Obj(Aliased.f @@ F("file", Str("p"))),
             Enc("quotes", Plain), Enc("both", Aliased), Obj(Plain.f @@ F("anchor", Null)),
             Obj(Plain.f @@ F("path", Str("q")) @@ F("file", Str("q"))),
             Obj(Plain.f @@ F("path", Num) @@ F("file", Str("p")))}

EditsForms == {Nothing} \cup {F("edits", e) : e \in
  {Null, Num, Str(""), a, Plain, Aliased, Obj(Nothing), Enc("strict", Plain),
   Enc("comma", Plain), Enc("strict", Arr(<<Enc("strict", Aliased)>>)),
   Enc("strict", Arr(<<Enc("strict", Plain), Plain>>)), Arr(<<Aliased>>),
   Obj(F("oldText", a) @@ F("newText", Null)), Obj(Plain.f @@ F("anchor", Arr(<<>>))),
   Obj(F("oldText", Num) @@ F("newText", b) @@ F("file", Str("q")))}
  \cup {Enc(l, Arr(<<Plain, Str(""), Aliased>>)) : l \in
          {"strict", "newline", "quotes", "comma", "both", "cut"}}}
FlatForms == {Nothing, F("oldText", b) @@ F("newText", a), F("old_str", b) @@ F("newText", a),
              F("oldText", b), F("oldText", b) @@ F("new_str", Str("")) @@ F("new_text", a),
              F("oldText", b) @@ F("newText", Str("ab")) @@ F("anchor", a)}

Objects ==
  {Obj(p @@ F("edits", Arr(<<e>>))) : p \in {Nothing, F("path", Str("p"))}, e \in SingleEdits}
  \cup {Obj(p @@ F("edits", Arr(<<d, e>>))) : p \in RootPaths, d, e \in FewEdits}
  \cup {Obj(p @@ e @@ f) : p \in RootPaths, e \in EditsForms, f \in FlatForms}

Bases == {Obj(F("path", Str("p")) @@ e @@ f) : e \in EditsForms, f \in FlatForms}
Envelopes1 ==
  UNION {{Enc("strict", v), Enc("newline", v), Enc("quotes", v), Enc("cut", v), Arr(<<v>>),
          Enc("strict", Enc("newline", v)), Enc("strict", Arr(<<v>>)), Arr(<<v, v>>)} :
         v \in Bases}

SingleCalls == {Message(<<EditOf(v)>>, FALSE) : v \in Objects \cup Envelopes1}

\* Calls to be repaired to the same arguments in two ways, one that needs no
\* repair, and others: of another text, unrepairable, with a path in quotes, outside.
Call(p, k, v) == Obj(F("path", Str(p)) @@ F("edits", Arr(<<Obj(F(k, v) @@ F("newText", b))>>)))
FewCalls == {Call("p", "oldText", a), Call("p", "old_str", a), Call("p", "old_text", a),
             Call("p", "old_text", b), Obj(F("path", Str("p"))), Call("'p'", "old_str", a),
             Call("o", "old_str", a), Call("~/d", "oldText", a)}
PairsOfCalls ==
  {[Message(<<EditOf(v), EditOf(w)>>, par) EXCEPT !.amid = {"time"}, !.telemetry = FALSE] :
     v, w \in FewCalls, par \in BOOLEAN}
  \cup {[Message(<<EditOf(v), EditOf(w)>>, TRUE) EXCEPT !.amid = {"shutdowns"},
                                                       !.telemetry = FALSE] :
     v, w \in {Call("p", "oldText", a), Call("p", "old_str", a), Call("p", "old_text", a)}}
Triple ==
  [Message(<<EditOf(Call("p", "old_str", a)), EditOf(Call("p", "old_text", a)),
             EditOf(Call("p", "old_text", b))>>, TRUE) EXCEPT !.telemetry = FALSE]
Unusual ==
  {[Message(<<EditOf(v)>>, FALSE) EXCEPT !.amid = {"checkpoints", "shutdowns"},
                                         !.telemetry = t, !.repair = r, !.conservative = c] :
     v \in FewCalls \cup {Enc("cut", Call("p", "oldText", a)), Obj(F("path", Str("p")) @@ F("edits", Arr(<<>>)))},
     t, r, c \in BOOLEAN}

Bash == [tool |-> "bash", input |-> Obj(Nothing)]
WriteOf(k, p) == [tool |-> "write", input |-> Obj(F(k, Str(p)))]
Streaks == {Message([i \in 1 .. 5 |-> IF i \in w THEN WriteOf("path", "q") ELSE Bash], FALSE) :
              w \in {{}, {2}, {4}}}
Writes ==
  {Message(<<WriteOf(k, p), WriteOf("path", q), WriteOf("path", "f")>>, par) :
     k \in {"path", "file_path"}, p, q \in {"f", "'f'", "./f", "o", "x", "q"}, par \in BOOLEAN}
  \cup {Message(<<WriteOf("path", p), WriteOf("path", q)>>, par) :
          p, q \in {"~/d", "@f", "f", "o"}, par \in BOOLEAN}
  \cup {[Message(<<WriteOf("path", "f"), WriteOf("path", p)>>, par) EXCEPT
            !.amid = {"shutdowns"}, !.telemetry = FALSE] : p \in {"f", "o"}, par \in BOOLEAN}

MCBatches == SingleCalls \cup PairsOfCalls \cup {Triple} \cup Unusual \cup Streaks \cup Writes

\* All values that are in the arguments.
Parts(v) ==
  CASE v.t = "enc" -> {v.v}
    [] v.t = "arr" -> Range(v.e)
    [] v.t = "obj" -> Range(v.f)
    [] OTHER -> {}
AndParts(values) == values \cup UNION {Parts(v) : v \in values}
AndTheirs(values) == AndParts(AndParts(AndParts(AndParts(values))))
MCValues ==
  AndTheirs(AndTheirs(UNION {{m.calls[c].input : c \in DOMAIN m.calls} : m \in MCBatches}))
=============================================================================
