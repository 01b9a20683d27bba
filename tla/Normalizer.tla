----------------------------- MODULE Normalizer -----------------------------
(***************************************************************************)
(* What the worker does to the text of a document before it is chunked: it *)
(* drops needless blanks, joins wrapped lines into paragraphs and words    *)
(* that were hyphenated at the end of a line, and lays pages one after     *)
(* another, remembering which offsets each of them has.                    *)
(* A text is a sequence of runes.  A rune has a class, of which there are  *)
(* as many as the code tells apart, and the place it has in the document,  *)
(* so that a property can follow it.  Offsets count from 0, as in the code.*)
(***************************************************************************)
EXTENDS Integers, Sequences, SequencesExt

\* Letters, digits, space, newline, the marks that give a line a meaning, and all
\* other runes.  "p" stands for p and L, "1" for the digits of ASCII, "*" for * and
\* +, "{" for \, { and }, "~" for the three runes that begin or end a fence; "aa"
\* and "??" are the letters, digits and other runes that take several bytes.
Classes == {"a", "p", "aa", "1", " ", "\n", "-", "*", "#", "|", ">", "~", ".", "{", "?", "??"}

Words == {"a", "p", "aa", "1"}

Nowhere == <<0, 0, 0>>

Rune == [c : Classes, at : Nat \X Nat \X Nat]

\* A rune that the code inserts.
New(class) == [c |-> class, at |-> Nowhere]

Newline == New("\n")
BlankLine == <<Newline, Newline>>

\* The class of the rune at an offset.
ClassAt(t, i) == t[i + 1].c

\* unicode.IsSpace and isWordRune of the rune at an offset.
IsSpace(t, i) == ClassAt(t, i) \in {" ", "\n"}
IsWordRune(t, i) == ClassAt(t, i) \in Words

Offsets(t) == 0..(Len(t) - 1)

\* t[from:to] of the code.
Slice(t, from, to) == SubSeq(t, from + 1, to)

StartsWith(t, classes) ==
  /\ Len(t) >= Len(classes)
  /\ \A i \in DOMAIN classes : t[i].c = classes[i]

HasWithin(t, classes) == \E i \in 0..Len(t) : StartsWith(Slice(t, i, Len(t)), classes)

\* strings.TrimLeft, TrimRightFunc and TrimSpace: whitespace goes.
TrimLeft(t) ==
  LET kept == {i \in Offsets(t) : ~IsSpace(t, i)}
  IN  IF kept = {} THEN <<>> ELSE Slice(t, Min(kept), Len(t))

TrimRight(t) ==
  LET kept == {i \in Offsets(t) : ~IsSpace(t, i)}
  IN  IF kept = {} THEN <<>> ELSE Slice(t, 0, Max(kept) + 1)

TrimSpace(t) == TrimLeft(TrimRight(t))

-----------------------------------------------------------------------------
(* Lines *)

FourSpaces == <<" ", " ", " ", " ">>
ThreeSpaces == <<" ", " ", " ">>

\* The first loop of normalizeText: fences are trimmed and toggle, blank lines
\* are kept one at a time, and only code, and layout when it matters, keeps its
\* indentation.
KeepLine(state, line, preserveIndent) ==
  LET trimmed == TrimSpace(line)
      fence == StartsWith(trimmed, <<"~">>)
      blank == trimmed = <<>>
      again == state.out = <<>> \/ Last(state.out) = <<>>
      indented == state.inFence \/ preserveIndent \/ StartsWith(line, FourSpaces)
      kept == IF fence \/ ~indented THEN trimmed ELSE TrimRight(line)
  IN  [out |-> IF ~fence /\ blank /\ again THEN state.out ELSE Append(state.out, kept),
       inFence |-> state.inFence # fence]

KeptLines(lines, preserveIndent) ==
  LET kept[n \in 0..Len(lines)] ==
        IF n = 0 THEN [out |-> <<>>, inFence |-> FALSE]
        ELSE KeepLine(kept[n - 1], lines[n], preserveIndent)
  IN  kept[Len(lines)].out

\* "- ", "* " or "+ ", or a digit, perhaps one more byte, and the first ".", at byte
\* one or two, with a space after it.
LooksLikeListItem(line) ==
  \/ StartsWith(line, <<"-", " ">>) \/ StartsWith(line, <<"*", " ">>)
  \/ StartsWith(line, <<"1", ".", " ">>)
  \/ \E c \in Classes \ {".", "aa", "??"} : StartsWith(line, <<"1", c, ".", " ">>)

\* The line break between two lines that are not blank is part of a structure.
ShouldPreserveLineBreak(prev, next) ==
  \E line \in {prev, next} :
    \/ StartsWith(TrimSpace(line), <<"#">>)
    \/ StartsWith(TrimSpace(line), <<">">>)
    \/ LooksLikeListItem(TrimSpace(line))
    \/ HasWithin(line, <<"|">>)
    \/ HasWithin(line, ThreeSpaces)

EndsWithHyphenatedWord(line) ==
  /\ Len(line) >= 2
  /\ Last(line).c = "-"
  /\ IsWordRune(line, Len(line) - 2)

StartsWithWord(line) == TrimLeft(line) # <<>> /\ IsWordRune(TrimLeft(line), 0)

\* "exam-\nple" becomes "example"; other lines are joined with a space.
JoinedTo(prev, next) ==
  IF EndsWithHyphenatedWord(prev) /\ StartsWithWord(next)
  THEN Front(prev) \o TrimLeft(next)
  ELSE Append(prev, New(" ")) \o TrimLeft(next)

\* The second loop of normalizeText.
JoinLine(joined, line) ==
  IF joined = <<>> \/ Last(joined) = <<>> \/ line = <<>>
  THEN IF line = <<>> /\ (joined = <<>> \/ Last(joined) = <<>>)
       THEN joined
       ELSE Append(joined, line)
  ELSE IF ShouldPreserveLineBreak(Last(joined), line)
       THEN Append(joined, line)
       ELSE Append(Front(joined), JoinedTo(Last(joined), line))

JoinedLines(lines) ==
  LET joined[n \in 0..Len(lines)] ==
        IF n = 0 THEN <<>> ELSE JoinLine(joined[n - 1], lines[n])
  IN  joined[Len(lines)]

\* strings.Join(lines, separator).
JoinWith(lines, separator) ==
  LET joined[n \in 0..Len(lines)] ==
        IF n = 0 THEN <<>>
        ELSE IF n = 1 THEN lines[1]
        ELSE joined[n - 1] \o separator \o lines[n]
  IN  joined[Len(lines)]

\* What the class [\\p{L}] of hyphenBreak names: the runes \, p, {, L and }.
Named == {"p", "{"}

\* Offsets of the hyphens that hyphenBreak matches.
HyphenBreaks(t) ==
  {h \in Offsets(t) : /\ 0 < h /\ h + 2 < Len(t)
                      /\ ClassAt(t, h - 1) \in Named /\ ClassAt(t, h) = "-"
                      /\ ClassAt(t, h + 1) = "\n" /\ ClassAt(t, h + 2) \in Named}

\* Matches do not overlap: of those that share a rune, every other one is replaced.
Replaced(t) ==
  {h \in HyphenBreaks(t) :
     LET shared == {k \in 0..h : \A j \in 0..k : h - 3 * j \in HyphenBreaks(t)}
     IN  Max(shared) % 2 = 0}

\* ReplaceAllString: the hyphen and the line break of each match go.
Dropped(t) == UNION {{h, h + 1} : h \in Replaced(t)}

Unhyphenated(t) ==
  LET kept[n \in 0..Len(t)] ==
        IF n = 0 THEN <<>>
        ELSE IF n - 1 \in Dropped(t) THEN kept[n - 1] ELSE Append(kept[n - 1], t[n])
  IN  kept[Len(t)]

\* normalizeText of a text whose line endings and invisible runes are dealt with
\* already.  Its last two steps find nothing to do: joined lines have no two blank
\* ones in a row, and hyphenBreak leaves the ends of the text alone.
NormalizeText(lines, preserveIndent) ==
  Unhyphenated(TrimSpace(
    JoinWith(JoinedLines(KeptLines(lines, preserveIndent)), <<Newline>>)))

-----------------------------------------------------------------------------
(* Pages *)

\* Mutant: pages are counted without the blank ones.
AddPageOfText(state, number, page) ==
  LET before == IF state.text = <<>> THEN <<>> ELSE state.text \o BlankLine
      text == before \o page
  IN  IF page = <<>> THEN state
      ELSE [text |-> text,
            boundaries |-> Append(state.boundaries,
              [page |-> Len(state.boundaries) + 1, start |-> Len(before), end |-> Len(text)])]

\* Pages without text are skipped, the others are separated by a blank line.
AddPage(state, number, page) ==
  LET before == IF state.text = <<>> THEN <<>> ELSE state.text \o BlankLine
      text == before \o page
  IN  IF page = <<>> THEN state
      ELSE [text |-> text,
            boundaries |-> Append(state.boundaries,
              [page |-> number, start |-> Len(before), end |-> Len(text)])]

\* normalizeWithPageBoundaries: pages are told apart in a PDF with form feeds.
Normalized(pages, pdf) ==
  LET paged[n \in 0..Len(pages)] ==
        IF n = 0 THEN [text |-> <<>>, boundaries |-> <<>>]
        ELSE AddPage(paged[n - 1], n, NormalizeText(pages[n], TRUE))
  IN  IF pdf /\ Len(pages) > 1
      THEN paged[Len(pages)]
      ELSE [text |-> NormalizeText(pages[1], pdf), boundaries |-> <<>>]

\* pageForOffset: the first page that ends after the offset, or the last one.
PageForOffset(boundaries, offset) ==
  LET after == {i \in DOMAIN boundaries : boundaries[i].end > offset}
  IN  CASE boundaries = <<>> -> 0
        [] after # {} -> boundaries[Min(after)].page
        [] OTHER -> Last(boundaries).page

\* Mutant: an end at the boundary of two pages belongs to the second.
ResolvePagesToEnd(boundaries, start, end) ==
  [first |-> PageForOffset(boundaries, start), last |-> PageForOffset(boundaries, end)]

\* resolvePages: an end at the boundary of two pages belongs to the first.
ResolvePages(boundaries, start, end) ==
  [first |-> PageForOffset(boundaries, start),
   last |-> PageForOffset(boundaries, IF end > start THEN end - 1 ELSE end)]

-----------------------------------------------------------------------------
(* Headings *)

\* Offsets at which a line begins.
LineStarts(t) == {i \in Offsets(t) : i = 0 \/ ClassAt(t, i - 1) = "\n"}

LineAt(t, start) ==
  LET ends == {i \in start..(Len(t) - 1) : ClassAt(t, i) = "\n"} \cup {Len(t)}
  IN  Slice(t, start, Min(ends))

\* markdownHeadingRE and extractMarkdownHeadings: marks, a space and a title.
\* A heading is named by its offset: no two have the same title.
HeadingsOf(t) ==
  {i \in LineStarts(t) :
     LET line == TrimSpace(LineAt(t, i))
         marks == {n \in 1..6 : n < Len(line) /\ \A k \in 1..n : line[k].c = "#"}
     IN  \E n \in marks :
           IsSpace(line, n) /\ TrimSpace(Slice(line, n, Len(line))) # <<>>}

NoHeading == -1

\* markdownHeadingForOffset: the last heading so far, or else the first one.
HeadingForOffset(headings, offset) ==
  LET above == {h \in headings : h <= offset}
  IN  CASE headings = {} -> NoHeading
        [] above # {} -> Max(above)
        [] OTHER -> Min(headings)
=============================================================================
