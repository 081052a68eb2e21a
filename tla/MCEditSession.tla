--------------------------- MODULE MCEditSession ---------------------------
(* Two calls of one session and one of another, two texts, one change by    *)
(* another program and two attempts at a rename.                            *)
EXTENDS EditSession

CONSTANTS s1, s2, c1, c2, c3, a, b, d

MCSessions == {s1, s2}
MCCalls == {c1, c2, c3}
MCHome == [c \in MCCalls |-> IF c = c3 THEN s2 ELSE s1]
MCTexts == {a, b}

\* One session suffices for the statement the code contradicts.
MCOneSession == {s1}
MCOneHome == [c \in MCCalls |-> s1]
MCThreeTexts == {a, b, d}

=============================================================================
