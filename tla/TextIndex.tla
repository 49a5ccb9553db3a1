----------------------------- MODULE TextIndex ------------------------------
(***************************************************************************)
(* Rune and UTF-16 index conversion of internal/text/indexing.go.          *)
(*                                                                         *)
(* A string is a sequence of runes.  The only property of a rune these     *)
(* functions look at is how many UTF-16 code units it takes: two for a     *)
(* rune above U+FFFF (a surrogate pair), one for any other.  Astral is     *)
(* the set of runes above U+FFFF.                                          *)
(***************************************************************************)
EXTENDS Integers, Sequences, SequencesExt

CONSTANTS Rune, Astral

\* the number of UTF-16 code units utf16.Encode makes of one rune
Units(r) == IF r \in Astral THEN 2 ELSE 1

\* RuneCount
RuneCount(s) == Len(s)

\* UTF16CodeUnitCount: len(utf16.Encode([]rune(s)))
UTF16CodeUnitCount(s) == FoldLeft(LAMBDA n, r : n + Units(r), 0, s)

\* RuneIndexToUTF16: the code units of the first runeIndex runes (clamped)
RuneIndexToUTF16(s, runeIndex) ==
  IF runeIndex <= 0 THEN 0
  ELSE UTF16CodeUnitCount(SubSeq(s, 1, IF runeIndex > Len(s) THEN Len(s) ELSE runeIndex))

(***************************************************************************)
(* Mutant: the loop of UTF16IndexToRune stops only once the units counted *)
(* pass the index (> instead of >=).                                       *)
(***************************************************************************)
RECURSIVE UTF16IndexToRunePast(_, _, _, _)
UTF16IndexToRunePast(s, utf16Index, i, units) ==
  IF i > Len(s) THEN Len(s)
  ELSE IF units + Units(s[i]) > utf16Index THEN i
  ELSE UTF16IndexToRunePast(s, utf16Index, i + 1, units + Units(s[i]))

(***************************************************************************)
(* UTF16IndexToRune's loop over the runes: add each rune's code units and  *)
(* return i + 1 (1-based: i) as soon as they reach the index, so an index  *)
(* inside a surrogate pair rounds up to the rune after the pair; past the  *)
(* end it returns the rune count.                                          *)
(***************************************************************************)
RECURSIVE UTF16IndexToRuneLoop(_, _, _, _)
UTF16IndexToRuneLoop(s, utf16Index, i, units) ==
  IF i > Len(s) THEN Len(s)
  ELSE IF units + Units(s[i]) >= utf16Index THEN i
  ELSE UTF16IndexToRuneLoop(s, utf16Index, i + 1, units + Units(s[i]))

UTF16IndexToRune(s, utf16Index) ==
  IF utf16Index <= 0 THEN 0 ELSE UTF16IndexToRuneLoop(s, utf16Index, 1, 0)

\* NormalizeIndexForEncoding: clamp into 0 .. the length in that encoding
NormalizeIndexForEncoding(s, index, enc) ==
  LET max == IF enc = "utf16" THEN UTF16CodeUnitCount(s) ELSE RuneCount(s)
  IN  IF index < 0 THEN 0 ELSE IF index > max THEN max ELSE index

\* ConvertIndex: normalise in the source encoding, then convert
ConvertIndex(s, index, from, to) ==
  LET norm == NormalizeIndexForEncoding(s, index, from)
  IN  CASE from = to                         -> norm
        [] from = "utf16" /\ to = "utf8"     -> UTF16IndexToRune(s, norm)
        [] OTHER                             -> RuneIndexToUTF16(s, norm)

-----------------------------------------------------------------------------
(***************************************************************************)
(* Reference definition: a UTF-16 index names the first rune boundary at  *)
(* or after it, the rune count when there is none.                         *)
(***************************************************************************)
RuneAtOrAfterUnit(s, u) ==
  IF u <= 0 THEN 0
  ELSE LET ks == {k \in 1..Len(s) : RuneIndexToUTF16(s, k) >= u}
       IN  IF ks = {} THEN Len(s) ELSE Min(ks)
=============================================================================
