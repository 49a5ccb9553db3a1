------------------------------- MODULE Cursor -------------------------------
(***************************************************************************)
(* Text cursors (automerge/cursor.go) over one text object of a document  *)
(* that is edited with AutoCommit.SpliceText.                              *)
(*                                                                         *)
(* The document starts right after PutObject(root, "k", Text) committed:   *)
(* the op log holds that put, with OpID <<1, 1>>, which is the text's     *)
(* ObjID.  Each splice is one committed change of the one actor: its ops   *)
(* take the counters after the last one (Transaction.Commit: startOp =    *)
(* maxOp + 1, SpliceText from startOp - 1).  A remote change merged into   *)
(* the document replays the same OpSet calls, so for the cursor a merge   *)
(* is another splice.                                                      *)
(*                                                                         *)
(* `cur[c]` is a Cursor a client holds in slot c.  `anchor` is not         *)
(* program state: for each cursor it records where the spec (section 4.8   *)
(* and property 9) says the cursor is, following every splice by index    *)
(* arithmetic: the position of the anchored element, or, once that        *)
(* element is gone, the fallback index.                                    *)
(***************************************************************************)
EXTENDS OpSet, TextIndex, FiniteSets

CONSTANTS
  Slot,       \* cursor slots of the client
  MaxOp,      \* bound on the op counter
  MaxLen,     \* bound on the length of the text
  MaxIndex    \* the indexes tried range over -1 .. MaxIndex

TextObj == <<1, 1>>
NoOpID == <<0, 0>>          \* model.OpID{}: the zero Anchor of a cursor on empty text
NoCursor == [side |-> "none"]

VARIABLES
  log,        \* the document's op set (d.ops.ops)
  maxOp,      \* the document's largest op counter
  cur,        \* cur[c]: a Cursor, or NoCursor
  anchor      \* anchor[c]: [live, pos, side, fallback], the spec's cursor

cvars == <<log, maxOp, cur, anchor>>

\* the text's entries at the current heads
Entries == Materialize(log, NoClock).seqs[TextObj]

\* SequenceElementIDs: the OpID of each entry's winning version
SequenceElementIDs(es) == [i \in DOMAIN es |-> Winner(es[i]).id]

\* Text: the string values among the entries, concatenated (a value from
\* SpliceText is one rune)
Text(es) ==
  LET strs == SelectSeq([i \in DOMAIN es |-> Winner(es[i]).value], LAMBDA v : v.t = "str")
  IN  [i \in DOMAIN strs |-> strs[i].v]

(***************************************************************************)
(* Mutant: the cursor after rune runeIndex anchors the element at that   *)
(* index instead of the one before it.                                     *)
(***************************************************************************)
CursorForTextAtIndex(es, index, enc) ==
  LET txt == Text(es)
      ids == SequenceElementIDs(es)
      norm == NormalizeIndexForEncoding(txt, index, enc)
      runeIndex == IF enc = "utf16" THEN UTF16IndexToRune(txt, norm) ELSE norm
  IN  CASE Len(ids) = 0          -> [anchor |-> NoOpID, side |-> "after", fallback |-> 0]
        [] runeIndex <= 0        -> [anchor |-> ids[1], side |-> "before", fallback |-> 0]
        [] runeIndex >= Len(ids) -> [anchor |-> ids[Len(ids)], side |-> "after", fallback |-> Len(ids)]
        [] OTHER                 -> [anchor |-> ids[runeIndex + 1], side |-> "after", fallback |-> runeIndex]

(***************************************************************************)
(* cursorForText: normalise the index in its encoding, take it to a rune  *)
(* index, and anchor before the first element, after the last, or after  *)
(* the element before the rune index.  (The unknown-object and wrong-type *)
(* errors cannot happen: the object is always the text.)                  *)
(***************************************************************************)
CursorForText(es, index, enc) ==
  LET txt == Text(es)
      ids == SequenceElementIDs(es)
      norm == NormalizeIndexForEncoding(txt, index, enc)
      runeIndex == IF enc = "utf16" THEN UTF16IndexToRune(txt, norm) ELSE norm
  IN  CASE Len(ids) = 0          -> [anchor |-> NoOpID, side |-> "after", fallback |-> 0]
        [] runeIndex <= 0        -> [anchor |-> ids[1], side |-> "before", fallback |-> 0]
        [] runeIndex >= Len(ids) -> [anchor |-> ids[Len(ids)], side |-> "after", fallback |-> Len(ids)]
        [] OTHER                 -> [anchor |-> ids[runeIndex], side |-> "after", fallback |-> runeIndex]

(***************************************************************************)
(* resolveTextCursor: the first position of the anchor among the element  *)
(* IDs, plus one after it; the fallback when it is not there; clamped to  *)
(* 0 .. len(ids); then converted to UTF-16 if asked.                       *)
(***************************************************************************)
ResolveTextCursor(es, c, enc) ==
  LET ids == SequenceElementIDs(es)
      at == {i \in DOMAIN ids : ids[i] = c.anchor}
      found == IF at = {} THEN c.fallback
               ELSE IF c.side = "before" THEN Min(at) - 1 ELSE Min(at)
      runeIndex == IF found < 0 THEN 0 ELSE IF found > Len(ids) THEN Len(ids) ELSE found
  IN  IF enc = "utf16" THEN RuneIndexToUTF16(Text(es), runeIndex) ELSE runeIndex

-----------------------------------------------------------------------------
(***************************************************************************)
(* The spec's cursor for a new cursor: the index taken to a rune index by *)
(* the reference conversion, then the element it anchors to (0-based     *)
(* position) and the fallback rune index it records.                       *)
(***************************************************************************)
SpecCursor(txt, index, enc) ==
  LET r == IF enc = "utf16"
           THEN RuneAtOrAfterUnit(txt, NormalizeIndexForEncoding(txt, index, enc))
           ELSE NormalizeIndexForEncoding(txt, index, enc)
  IN  CASE Len(txt) = 0    -> [live |-> FALSE, pos |-> 0, side |-> "after", fallback |-> 0]
        [] r <= 0          -> [live |-> TRUE, pos |-> 0, side |-> "before", fallback |-> 0]
        [] r >= Len(txt)   -> [live |-> TRUE, pos |-> Len(txt) - 1, side |-> "after", fallback |-> Len(txt)]
        [] OTHER           -> [live |-> TRUE, pos |-> r - 1, side |-> "after", fallback |-> r]

(***************************************************************************)
(* A splice at index p of a text of n elements deletes the elements       *)
(* p .. p + deleteCount - 1 that exist, then inserts k runes at p if p is *)
(* still within the text (applyRecord drops an insert past the end).  The *)
(* anchored element dies if deleted; otherwise it moves left by the       *)
(* deletions before it and right by the insertions at or before it.       *)
(***************************************************************************)
AfterSplice(a, n, p, d, k) ==
  LET gone == {x \in p .. p + d - 1 : x < n}
      pos1 == a.pos - Cardinality({x \in gone : x < a.pos})
  IN  IF ~a.live \/ a.pos \in gone THEN [a EXCEPT !.live = FALSE]
      ELSE [a EXCEPT !.pos = IF p <= n - Cardinality(gone) /\ p <= pos1 THEN pos1 + k ELSE pos1]

\* where the spec says the cursor resolves in a text of n runes
SpecIndex(a, n) ==
  IF ~a.live THEN (IF a.fallback > n THEN n ELSE a.fallback)
  ELSE IF a.side = "before" THEN a.pos ELSE a.pos + 1

-----------------------------------------------------------------------------
Init ==
  /\ log = <<Rec("put", RootObj, "k", 0, [t |-> "text", v |-> TextObj], <<1, 1>>, {})>>
  /\ maxOp = 1
  /\ cur = [c \in Slot |-> NoCursor]
  /\ anchor = [c \in Slot |-> NoCursor]

(***************************************************************************)
(* Mutant: the change's op count leaves out the deletions                 *)
(* (spliceTextMutation.opCount without deleteCount).                      *)
(***************************************************************************)
SpliceTextCommitInsertsOnly(index, deleteCount, insert) ==
  /\ deleteCount + Len(insert) > 0
  /\ maxOp + deleteCount + Len(insert) <= MaxOp
  /\ Len(Entries) + Len(insert) <= MaxLen
  /\ \E res \in {SpliceText(log, TextObj, index, deleteCount, insert, 1, maxOp)} :
       /\ res.err = "ok"
       /\ log' = res.log
  /\ maxOp' = maxOp + Len(insert)
  /\ anchor' = [c \in Slot |->
                  IF cur[c] = NoCursor THEN NoCursor
                  ELSE AfterSplice(anchor[c], Len(Entries), index, deleteCount, Len(insert))]
  /\ UNCHANGED cur

(***************************************************************************)
(* AutoCommit.SpliceText(text, index, deleteCount, insert), committed as  *)
(* one change (an empty splice stages nothing and is not tried).          *)
(***************************************************************************)
SpliceTextCommit(index, deleteCount, insert) ==
  /\ deleteCount + Len(insert) > 0
  /\ maxOp + deleteCount + Len(insert) <= MaxOp
  /\ Len(Entries) + Len(insert) <= MaxLen
  /\ \E res \in {SpliceText(log, TextObj, index, deleteCount, insert, 1, maxOp)} :
       /\ res.err = "ok"
       /\ log' = res.log
  /\ maxOp' = maxOp + deleteCount + Len(insert)
  /\ anchor' = [c \in Slot |->
                  IF cur[c] = NoCursor THEN NoCursor
                  ELSE AfterSplice(anchor[c], Len(Entries), index, deleteCount, Len(insert))]
  /\ UNCHANGED cur

\* CursorForText(text, index, enc), kept by the client in slot c
MakeCursor(c, index, enc) ==
  /\ cur' = [cur EXCEPT ![c] = CursorForText(Entries, index, enc)]
  /\ anchor' = [anchor EXCEPT ![c] = SpecCursor(Text(Entries), index, enc)]
  /\ UNCHANGED <<log, maxOp>>

Next ==
  \/ \E p \in 0 .. MaxLen, d \in 0 .. 2, ins \in BoundedSeq(Rune, 2) :
       SpliceTextCommit(p, d, ins)
  \/ \E c \in Slot, i \in -1 .. MaxIndex, enc \in {"utf8", "utf16"} :
       MakeCursor(c, i, enc)

Spec == Init /\ [][Next]_cvars

-----------------------------------------------------------------------------
\* Types, and one op record per op counter: a splice change's op count
\* (spliceTextMutation.opCount) is the number of ops SpliceText appends
TypeOK ==
  /\ maxOp \in 1 .. MaxOp
  /\ Len(log) = maxOp
  /\ \A c \in Slot : cur[c] = NoCursor <=> anchor[c] = NoCursor

(***************************************************************************)
(* Cursor stability (spec property 9 and section 4.8): a cursor resolves, *)
(* in runes and in UTF-16 code units, to where the spec puts it after any *)
(* sequence of splices: just after (or, at index 0, at) the element it    *)
(* was anchored to, wherever inserts and deletes elsewhere have moved it, *)
(* and at its recorded rune index, clamped to the text, once that element *)
(* is deleted.  This needs cursorForText to anchor the right element and  *)
(* to convert a UTF-16 index to the rune boundary at or after it,         *)
(* SpliceText and applyRecord to place every element where the edit says, *)
(* and resolveTextCursor to find the anchor by OpID.                       *)
(***************************************************************************)
CursorTracksEdits ==
  \A c \in Slot :
    cur[c] # NoCursor =>
      \A es \in {Entries} :
        /\ ResolveTextCursor(es, cur[c], "utf8") = SpecIndex(anchor[c], Len(es))
        /\ ResolveTextCursor(es, cur[c], "utf16")
             = UTF16CodeUnitCount(SubSeq(Text(es), 1, SpecIndex(anchor[c], Len(es))))

(***************************************************************************)
(* ConvertIndex between runes and UTF-16 code units, on the current text: *)
(* a rune index goes to UTF-16 and back unchanged (once clamped), and a   *)
(* UTF-16 index goes to the first rune boundary at or after it, so one    *)
(* inside a surrogate pair moves past the pair, and back to that          *)
(* boundary's code-unit offset.                                            *)
(***************************************************************************)
IndexConversionRoundTrip ==
  \A txt \in {Text(Entries)} :
    \A i \in -1 .. MaxIndex :
      /\ ConvertIndex(txt, ConvertIndex(txt, i, "utf8", "utf16"), "utf16", "utf8")
           = NormalizeIndexForEncoding(txt, i, "utf8")
      /\ ConvertIndex(txt, i, "utf16", "utf8")
           = RuneAtOrAfterUnit(txt, NormalizeIndexForEncoding(txt, i, "utf16"))
      /\ ConvertIndex(txt, ConvertIndex(txt, i, "utf16", "utf8"), "utf8", "utf16")
           = RuneIndexToUTF16(txt, RuneAtOrAfterUnit(txt, NormalizeIndexForEncoding(txt, i, "utf16")))
=============================================================================
