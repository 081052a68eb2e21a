---------------------------- MODULE MCApplyEdits ----------------------------
EXTENDS ApplyEdits

CONSTANTS x, y

Ask(old, new, anchor, all) == [old |-> old, new |-> new, anchor |-> anchor, all |-> all]

\* Every text of at most three characters, and some whose lines are followed
\* by others, hold a run of equal lines, or mix their breaks.
MixedFiles == BoundedSeq({x, LF, CR}, 3)
              \cup {<<x, LF, y>>, <<x, CR, LF, y>>, <<x, y, CR, LF>>, <<x, y, y, y>>,
                    <<x, LF, CR, LF>>}

MixedNewTexts == {<<>>, <<y>>, <<y, LF>>, <<LF, x>>, <<x, CR>>}

PartsOf(text) ==
  {Slice(text, a, b) : <<a, b>> \in {w \in (0 .. Len(text)) \X (0 .. Len(text)) : w[1] < w[2]}}

\* Two blocks that search for parts of the file, or for what the other one
\* brings, alone or, where there are more, everywhere.
MixedAsks(file, brought, newTexts) ==
  LET text == Normalize(file) IN
  [Block -> {Ask(old, new, <<>>, FALSE) :
              old \in PartsOf(text) \cup brought \cup {<<>>},
              new \in newTexts}
            \cup {Ask(old, <<y>>, <<>>, TRUE) : old \in {p \in PartsOf(text) : Count(text, p) > 1}}]

\* Files of whole lines: four that differ in their indents, and lines with
\* blanks at their end, quotes, escapes, or in threes.
RECURSIVE Page(_)
Page(lines) == IF Len(lines) = 1 THEN lines[1] ELSE lines[1] \o <<LF>> \o Page(Tail(lines))

Pages == {Page(l) : l \in [1 .. 4 -> {<<x>>, <<SP, x>>, <<y>>}]}
OddPages ==
  {Page(l) : l \in {<< <<x, SP>>, <<y>>, <<x>>, <<y>> >>,
                    << <<Quote, x>>, <<CurlyQuote, x>>, <<y>>, <<EscapedQuote, x>> >>,
                    << <<CurlyQuote, x>>, <<y>>, <<y>>, <<Quote, y>> >>,
                    << <<x, EscapedLF, y>>, <<y>>, <<y>>, <<x>> >>,
                    << <<x>>, <<y>>, <<x>>, <<x>>, <<y>>, <<x>> >>,
                    << <<x>>, <<y, y>>, <<SP, x>>, <<>>, <<y>>, <<x>> >>,
                    << <<y, x, SP>>, <<y, x>>, <<EscapedQuote, x>>, <<SP, y>>, <<x>>, <<>> >>,
                    << <<x, SP, SP, y>>, <<y, x, y>>, <<x, SP>>, <<y>> >>}}

PageOlds == {<<x>>, <<SP, x>>, <<x, SP>>, <<y, LF, x>>, <<SP, y, LF, SP, x>>, <<x, LF, LF, y>>,
             <<x, LF, x, LF, x>>}
OddOlds == {<<x, SP, LF, y, LF>>, <<x>>, <<x, SP, y>>, <<SP, x, y>>, <<y, SP, SP>>,
            <<Quote, x>>, <<EscapedQuote, x, LF, y>>, <<CurlyQuote, y>>,
            <<x, LF, y>>, <<x, EscapedLF, y>>, <<x, LF, y, LF, x>>, <<x, LF, SP, y, LF, x, SP>>,
            <<LF, x, LF, x, LF, y>>}

\* One block that searches, near an anchor or not, beside one that changes
\* nothing.
Searches(olds, anchors) ==
  {[b \in Block |-> IF b = idle THEN Ask(<<x>>, <<x>>, <<>>, FALSE) ELSE Ask(o, n, a, all)] :
     idle \in Block, o \in olds, n \in {<<y>>, <<SP, y, LF, x, LF>>}, a \in anchors,
     all \in BOOLEAN}

MCFiles == MixedFiles \cup Pages \cup OddPages

MCAsks(file) ==
  IF file \in Pages THEN Searches(PageOlds, {<<>>, <<y>>, <<SP, x>>})
  ELSE IF file \in OddPages THEN Searches(OddOlds, {<<>>, <<SP, y, SP>>})
  ELSE MixedAsks(file, {<<y>>}, MixedNewTexts)

Symmetric == Permutations(Block)

\* For the runs of one file each.
TwoLines == {<<x, LF, y>>}
CRLFFile == {<<x, y, CR, LF>>}
PlainAsks(file) == MixedAsks(file, {<<y, LF, LF, y>>}, {<<>>, <<y, LF>>, <<LF, x>>})
=============================================================================
