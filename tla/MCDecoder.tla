----------------------------- MODULE MCDecoder ------------------------------
(***************************************************************************)
(* A dictionary in the letters a h n s v, with words of one to four        *)
(* characters, lines the builder drops, a word with two spellings,         *)
(* characters with two, and a spelling (hva, as fiao) with a beginning,    *)
(* hv, that no id stands for.                                              *)
(***************************************************************************)
EXTENDS MatrixSearch, DictBuilder

MCPsb(freq) == 2000 - freq

A == <<97>>             AN == <<97, 110>>
HA == <<104, 97>>       HAN == <<104, 97, 110>>
NA == <<110, 97>>       NAN == <<110, 97, 110>>      NV == <<110, 118>>
SA == <<115, 97>>       SAN == <<115, 97, 110>>
SHA == <<115, 104, 97>> SHAN == <<115, 104, 97, 110>>
NG == <<110, 103>>             HVA == <<104, 118, 97>>

Line(word, freq, py) == [word |-> word, freq |-> freq, gbk |-> 0, py |-> py]

MCRawLines == <<
  Line(<<1>>, 500, <<A>>), Line(<<2>>, 300, <<A>>), Line(<<3>>, 410, <<AN>>),
  Line(<<4>>, 420, <<HA>>), Line(<<5>>, 310, <<HAN>>), Line(<<6>>, 600, <<NA>>),
  Line(<<7>>, 330, <<NAN>>), Line(<<8>>, 340, <<NV>>), Line(<<9>>, 350, <<SA>>),
  Line(<<10>>, 610, <<SAN>>), Line(<<11>>, 450, <<SHA>>), Line(<<12>>, 620, <<SHAN>>),
  Line(<<11>>, 320, <<SA>>), Line(<<13>>, 200, <<NAN>>), Line(<<15>>, 300, <<HVA>>),
  Line(<<10, 3>>, 640, <<SAN, AN>>), Line(<<9, 6>>, 260, <<SA, NA>>),
  Line(<<9, 7>>, 270, <<SA, NAN>>), Line(<<6, 10>>, 280, <<NA, SAN>>),
  Line(<<6, 9>>, 290, <<NA, SA>>), Line(<<6, 9>>, 180, <<NAN, SA>>),
  Line(<<12, 7>>, 650, <<SHAN, NAN>>), Line(<<8, 12>>, 240, <<NV, SHAN>>),
  Line(<<11, 4>>, 250, <<SHA, HA>>),
  Line(<<10, 7, 3>>, 230, <<SAN, NAN, AN>>), Line(<<9, 6, 10>>, 220, <<SA, NA, SAN>>),
  Line(<<12, 12, 10, 9>>, 210, <<SHAN, SHAN, SAN, SA>>),
  Line(<<13, 12, 10, 9>>, 190, <<NAN, SHAN, SAN, SA>>),
  Line(<<6, 12, 10, 9>>, 200, <<NA, SHAN, SAN, SA>>),
  Line(<<4, 4>>, 50, <<HA, HA>>), Line(<<4, 1>>, 90, <<HA, NG>>),
  [word |-> <<14>>, freq |-> 900, gbk |-> 1, py |-> <<HA>>],
  Line(<<5, 5, 5, 5, 5>>, 900, <<HAN, HAN, HAN, HAN, HAN>>) >>

(* What the builder makes of them: the spellings, and the lemmas by id.    *)
MCSpellings == {A, AN, HA, HAN, HVA, NA, NAN, NV, SA, SAN, SHA, SHAN}
MCLemmas == <<
  [word |-> <<1>>, freq |-> 500, spl |-> <<30>>], [word |-> <<2>>, freq |-> 300, spl |-> <<30>>],
  [word |-> <<3>>, freq |-> 410, spl |-> <<31>>], [word |-> <<4>>, freq |-> 420, spl |-> <<32>>],
  [word |-> <<5>>, freq |-> 310, spl |-> <<33>>], [word |-> <<6>>, freq |-> 600, spl |-> <<35>>],
  [word |-> <<7>>, freq |-> 330, spl |-> <<36>>], [word |-> <<8>>, freq |-> 340, spl |-> <<37>>],
  [word |-> <<9>>, freq |-> 350, spl |-> <<38>>], [word |-> <<10>>, freq |-> 610, spl |-> <<39>>],
  [word |-> <<11>>, freq |-> 450, spl |-> <<40>>],
  [word |-> <<11>>, freq |-> 320, spl |-> <<38>>],
  [word |-> <<12>>, freq |-> 620, spl |-> <<41>>],
  [word |-> <<13>>, freq |-> 200, spl |-> <<36>>],
  [word |-> <<15>>, freq |-> 300, spl |-> <<34>>],
  [word |-> <<6, 9>>, freq |-> 290, spl |-> <<35, 38>>],
  [word |-> <<6, 9>>, freq |-> 180, spl |-> <<36, 38>>],
  [word |-> <<6, 10>>, freq |-> 280, spl |-> <<35, 39>>],
  [word |-> <<8, 12>>, freq |-> 240, spl |-> <<37, 41>>],
  [word |-> <<9, 6>>, freq |-> 260, spl |-> <<38, 35>>],
  [word |-> <<9, 7>>, freq |-> 270, spl |-> <<38, 36>>],
  [word |-> <<10, 3>>, freq |-> 640, spl |-> <<39, 31>>],
  [word |-> <<11, 4>>, freq |-> 250, spl |-> <<40, 32>>],
  [word |-> <<12, 7>>, freq |-> 650, spl |-> <<41, 36>>],
  [word |-> <<9, 6, 10>>, freq |-> 220, spl |-> <<38, 35, 39>>],
  [word |-> <<10, 7, 3>>, freq |-> 230, spl |-> <<39, 36, 31>>],
  [word |-> <<6, 12, 10, 9>>, freq |-> 200, spl |-> <<35, 41, 39, 38>>],
  [word |-> <<12, 12, 10, 9>>, freq |-> 210, spl |-> <<41, 41, 39, 38>>],
  [word |-> <<13, 12, 10, 9>>, freq |-> 190, spl |-> <<36, 41, 39, 38>>] >>
ASSUME BuiltAssumption == MCSpellings = SpellingTable /\ MCLemmas = ByHanzi

h == 104  n == 110  s == 115  v == 118  a == 97
Typed == {<<s, a, n, a, n>>, <<s, h, a, n, n>>, <<n, a, s, a>>, <<n, a, n, s>>, <<s, s, s, s, s, s>>,
          <<n, v, s, h>>, <<a, n, a>>, <<s, a, v>>, <<h, v, a, n>>, <<h, a, a>>, <<n, s, s, s>>, <<s, n, a, n>>}

(* Bound: the mile stones that searches leave behind.                      *)
FewLeft == Len(m.dict.stones) <= Len(m.dmis) + 1

MCQueries == UNION {{SubSeq(t, 1, k) : k \in 1..Len(t)} : t \in Typed}
=============================================================================
