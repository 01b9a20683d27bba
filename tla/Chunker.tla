------------------------------ MODULE Chunker ------------------------------
(***************************************************************************)
(* chunkDocumentText: the normalised text of a document is cut into        *)
(* paragraphs, paragraphs are gathered into sections, and each section is  *)
(* cut into chunks that overlap.  One action is one round of one of the    *)
(* three loops.                                                            *)
(***************************************************************************)
EXTENDS Normalizer

CONSTANTS
  Documents,         \* [pages, pdf, markdown]: pages of lines of classes
  SectionMin,        \* a section may end at this size (900)
  SectionMax,        \* and does, before it exceeds this one (1600)
  ChunkSize,         \* defaultChildChunkSize (320)
  Overlap,           \* defaultChildOverlap (60)
  Lookback, MinLen,  \* lookback (80) and minLen (300) of snapEnd
  Extend,            \* its limit for finishing a token (50)
  ParagraphLookback, ParagraphMinLen  \* those of snapEndParagraph (320, 260)

\* The pages of a document are the lines between form feeds, if it is a PDF.
IsDocument(d) ==
  /\ d.pages \in Seq(Seq(Seq(Classes \ {"\n"}))) /\ d.pages # <<>>
  /\ d.pdf \in BOOLEAN /\ d.markdown \in BOOLEAN
  /\ ~d.pdf => Len(d.pages) = 1

ASSUME ChunkerAssumption ==
  /\ {SectionMin, SectionMax, Overlap, Lookback, Extend, ParagraphLookback} \subseteq Nat
  /\ ParagraphMinLen \in Nat \ {0} /\ MinLen \in Nat \ {0}
  /\ ParagraphMinLen <= MinLen /\ MinLen <= ChunkSize /\ ChunkSize \in Nat
  /\ Overlap < ParagraphMinLen
  /\ \A d \in Documents : IsDocument(d)

VARIABLES
  stage,       \* the loop that runs
  document,    \* the text as it was extracted
  text,        \* normalizedText
  boundaries,  \* of its pages
  cursor,      \* where the next paragraph is looked for, and later the next chunk
  paragraphs,  \* those of no section yet
  section,     \* currentSection
  chunks       \* plan.Chunks

vars == <<stage, document, text, boundaries, cursor, paragraphs, section, chunks>>

Stages == {"normalize", "paragraphs", "sections", "chunks", "done"}

\* The runes of the document, page by page and line by line.
Runes(d) ==
  [p \in DOMAIN d.pages |-> [l \in DOMAIN d.pages[p] |->
    [k \in DOMAIN d.pages[p][l] |-> [c |-> d.pages[p][l][k], at |-> <<p, l, k>>]]]]

ChunkerInit ==
  /\ stage = "normalize"
  /\ document \in Documents
  /\ text = <<>> /\ boundaries = <<>>
  /\ cursor = 0
  /\ paragraphs = <<>> /\ section = <<>> /\ chunks = <<>>

-----------------------------------------------------------------------------
(* Where a chunk begins and ends *)

\* A blank line begins here.
IsBreak(t, i) == ClassAt(t, i) = "\n" /\ ClassAt(t, i + 1) = "\n"

\* Offsets of other runes than whitespace, of other runes than those of words,
\* and of blank lines.
NoSpaces(t) == {i \in Offsets(t) : ~IsSpace(t, i)}
NoWords(t) == {i \in Offsets(t) : ~IsWordRune(t, i)}
Breaks(t) == {i \in Offsets(t) : i + 1 < Len(t) /\ IsBreak(t, i)}

FirstFrom(t, from, offsets) == Min({i \in offsets : i >= from} \cup {Len(t)})

\* snapStart: not in the middle of a token, whose rest is skipped, and not at
\* whitespace.
SnapStart(t, start) ==
  LET inside == IsWordRune(t, start) /\ IsWordRune(t, start - 1)
      token == IF inside THEN FirstFrom(t, start, NoWords(t)) ELSE start
  IN  IF start <= 0 THEN 0
      ELSE IF start >= Len(t) THEN Len(t)
      ELSE FirstFrom(t, token, NoSpaces(t))

\* snapEnd: at whitespace near the end, or else after the token it cuts if the
\* token is not too long.
SnapEnd(t, start, end) ==
  LET low == Max({end - Lookback, IF start + MinLen > end THEN start ELSE start + MinLen})
      spaces == {i \in low..(end - 1) : IsSpace(t, i)}
  IN  IF end >= Len(t) THEN Len(t)
      ELSE IF end <= start THEN start
      ELSE IF spaces # {} THEN Max(spaces)
      ELSE IF IsWordRune(t, end - 1) /\ IsWordRune(t, end)
      THEN Min({FirstFrom(t, end, NoWords(t)), end + Extend})
      ELSE end

\* snapEndParagraph: at a blank line near the end.
SnapEndParagraph(t, start, end) ==
  LET low == Max({end - ParagraphLookback, start + ParagraphMinLen})
      breaks == {i \in low..(end - 2) : IsBreak(t, i)}
  IN  IF start + ParagraphMinLen > end \/ breaks = {} THEN end ELSE Max(breaks)

ChunkEnd(t, start) ==
  SnapEndParagraph(t, start, SnapEnd(t, start, Min({start + ChunkSize, Len(t)})))

\* Mutant: chunks do not overlap.
NextStartAtEnd(t, start, end) == SnapStart(t, end)

NextStart(t, start, end) ==
  SnapStart(t, IF end - Overlap <= start THEN end ELSE end - Overlap)

-----------------------------------------------------------------------------
(* Actions *)

Headings == IF document.markdown THEN HeadingsOf(text) ELSE {}

Normalize ==
  /\ stage = "normalize"
  /\ LET n == Normalized(Runes(document), document.pdf)
     IN  /\ text' = n.text
         /\ boundaries' = n.boundaries
         /\ stage' = IF n.text = <<>> THEN "done" ELSE "paragraphs"
  /\ UNCHANGED <<document, cursor, paragraphs, section, chunks>>

\* One round of extractParagraphSpans: up to the next blank line.
ExtractParagraph ==
  LET start == FirstFrom(text, cursor, NoSpaces(text))
      end == FirstFrom(text, start, Breaks(text))
  IN  /\ stage = "paragraphs"
      /\ start < Len(text)
      /\ paragraphs' = Append(paragraphs,
           [start |-> start, text |-> TrimSpace(Slice(text, start, end)),
            heading |-> HeadingForOffset(Headings, start),
            startPage |-> ResolvePages(boundaries, start, end).first,
            endPage |-> ResolvePages(boundaries, start, end).last])
      /\ cursor' = end + 2
      /\ UNCHANGED <<stage, document, text, boundaries, section, chunks>>

NoMoreParagraphs ==
  /\ stage = "paragraphs"
  /\ FirstFrom(text, cursor, NoSpaces(text)) = Len(text)
  /\ stage' = "sections"
  /\ UNCHANGED <<document, text, boundaries, cursor, paragraphs, section, chunks>>

TextsOf(ps) == [i \in DOMAIN ps |-> ps[i].text]

\* currentSize
SizeOf(ps) == LET add(n, p) == n + Len(p.text) IN FoldLeft(add, 0, ps)

\* Mutant: a new heading does not begin a section.
SectionEndsBySize(p) ==
  /\ section # <<>>
  /\ SizeOf(section) >= SectionMin
  /\ SizeOf(section) + Len(p.text) > SectionMax

\* Paragraph p begins another section.  Either no paragraph has a heading or
\* all have one, and currentHeading is that of the section's first.
SectionEnds(p) ==
  /\ section # <<>>
  /\ \/ Head(section).heading # p.heading
     \/ SizeOf(section) >= SectionMin /\ SizeOf(section) + Len(p.text) > SectionMax

AddParagraph ==
  /\ stage = "sections" /\ paragraphs # <<>>
  /\ ~SectionEnds(Head(paragraphs))
  /\ section' = Append(section, Head(paragraphs))
  /\ paragraphs' = Tail(paragraphs)
  /\ UNCHANGED <<stage, document, text, boundaries, cursor, chunks>>

\* appendSection; snapStart leaves offset 0 as it is.
CloseSection ==
  /\ stage = "sections" /\ section # <<>>
  /\ paragraphs # <<>> => SectionEnds(Head(paragraphs))
  /\ stage' = "chunks"
  /\ cursor' = 0
  /\ UNCHANGED <<document, text, boundaries, paragraphs, section, chunks>>

\* Mutant: paragraphs are joined line by line.
SectionOfLines ==
  [content |-> JoinWith(TextsOf(section), <<Newline>>),
   start |-> Head(section).start, heading |-> Last(section).heading,
   page |-> Head(section).startPage, pageEnd |-> Last(section).endPage]

\* buildSectionInput
Section ==
  [content |-> JoinWith(TextsOf(section), BlankLine),
   start |-> Head(section).start, heading |-> Last(section).heading,
   page |-> Head(section).startPage, pageEnd |-> Last(section).endPage]

\* One round of buildChildChunksForSection.
CutChunk ==
  LET runes == Section.content
      end == ChunkEnd(runes, cursor)
      next == NextStart(runes, cursor, end)
  IN  /\ stage = "chunks"
      /\ chunks' = Append(chunks,
           [content |-> TrimSpace(Slice(runes, cursor, end)),
            start |-> Section.start + cursor, end |-> Section.start + end,
            heading |-> Section.heading, page |-> Section.page, pageEnd |-> Section.pageEnd])
      /\ IF end = Len(runes) \/ next >= Len(runes)
         THEN /\ section' = <<>>
              /\ stage' = IF paragraphs = <<>> THEN "done" ELSE "sections"
              /\ cursor' = 0
         ELSE /\ cursor' = next
              /\ UNCHANGED <<stage, section>>
      /\ UNCHANGED <<document, text, boundaries, paragraphs>>

Done == stage = "done" /\ UNCHANGED vars

ChunkerNext ==
  \/ Normalize
  \/ ExtractParagraph \/ NoMoreParagraphs
  \/ AddParagraph \/ CloseSection
  \/ CutChunk
  \/ Done

ChunkerSpec == ChunkerInit /\ [][ChunkerNext]_vars

-----------------------------------------------------------------------------
(* Properties *)

Before(x, y) ==
  \/ x[1] < y[1]
  \/ x[1] = y[1] /\ x[2] < y[2]
  \/ x[1] = y[1] /\ x[2] = y[2] /\ x[3] < y[3]

\* Places of the runes of a chunk that were not inserted.
PlacesIn(chunk) == {i \in DOMAIN chunk.content : chunk.content[i].at # Nowhere}

\* A text has a token that a chunk may cut and the next one skip.
HasLongToken(t) ==
  \E i \in Offsets(t) : i + Overlap + 1 < Len(t) /\
    \A k \in i..(i + Overlap + 1) : IsWordRune(t, k)

\* No letter of a document is lost between lines, paragraphs, sections and
\* chunks, and none changes its place, unless a token is longer than the
\* overlap by two: of such a token the next chunk skips the rest.
NothingLost ==
  stage = "done" =>
    /\ \A c \in ToSet(chunks) : \A i, j \in PlacesIn(c) :
         i < j => Before(c.content[i].at, c.content[j].at)
    /\ ~HasLongToken(text) =>
         LET d == document.pages
         IN  \A p \in DOMAIN d : \A l \in DOMAIN d[p] : \A k \in DOMAIN d[p][l] :
               d[p][l][k] \in Words =>
                 \E c \in ToSet(chunks) : \E i \in DOMAIN c.content :
                   c.content[i].at = <<p, l, k>>

\* The pages a chunk is cited with include the page each rune of it comes
\* from, counted by form feeds, although pages without text leave no trace in
\* the normalised text.
PagesCover ==
  Len(boundaries) > 0 =>
    \A c \in ToSet(chunks) : \A i \in PlacesIn(c) :
      c.page <= c.content[i].at[1] /\ c.content[i].at[1] <= c.pageEnd

\* A paragraph of the text begins with a space.
Indented(t) ==
  \E i \in 0..(Len(t) - 3) : IsBreak(t, i) /\ ClassAt(t, i + 2) = " "

\* char_start and char_end, which were computed in the section, are the offsets
\* of the chunk in the normalised text, unless a paragraph is indented, whose
\* indentation the section does not have.
OffsetsName ==
  ~Indented(text) =>
    \A c \in ToSet(chunks) : TrimSpace(Slice(text, c.start, c.end)) = c.content

\* The offset at which the paragraph around an offset begins.
ParagraphStart(t, o) ==
  LET breaks == {i \in 0..(o - 2) : IsBreak(t, i)}
  IN  Max({0} \cup {i + 2 : i \in breaks})

\* A chunk is cited under one heading: each rune of it stands in a paragraph
\* that begins under that heading, although sections gather paragraphs by size
\* and chunks overlap.
UnderItsHeading ==
  \A c \in ToSet(chunks) : \A o \in Offsets(text) :
    (\E i \in PlacesIn(c) : c.content[i] = text[o + 1]) =>
      c.heading = HeadingForOffset(Headings, ParagraphStart(text, o))

-----------------------------------------------------------------------------
(* The inductive invariant behind the properties *)

Paragraph == [start : Nat, text : Seq(Rune), heading : Int, startPage : Nat, endPage : Nat]
Chunk == [content : Seq(Rune), start : Nat, end : Nat, heading : Int, page : Nat, pageEnd : Nat]

ChunkerTypeOK ==
  /\ stage \in Stages /\ document \in Documents
  /\ text \in Seq(Rune)
  /\ boundaries \in Seq([page : Nat, start : Nat, end : Nat])
  /\ cursor \in Nat
  /\ paragraphs \in Seq(Paragraph) /\ section \in Seq(Paragraph)
  /\ chunks \in Seq(Chunk)

\* Newlines are inserted, no text begins or ends with whitespace and no line
\* ends with it, and no two blank lines follow each other.
WellNormalized(t) ==
  /\ \A x \in ToSet(t) : x.c = "\n" => x = Newline
  /\ t # <<>> => ~IsSpace(t, 0) /\ ~IsSpace(t, Len(t) - 1)
  /\ \A i \in 0..(Len(t) - 2) : ClassAt(t, i + 1) = "\n" => ClassAt(t, i) # " "
  /\ \A i \in 0..(Len(t) - 3) : ~(IsBreak(t, i) /\ ClassAt(t, i + 2) = "\n")

InOrder(t) ==
  \A i, j \in DOMAIN t :
    i < j /\ t[i].at # Nowhere /\ t[j].at # Nowhere => Before(t[i].at, t[j].at)

HasLetters(t, d) ==
  \A p \in DOMAIN d : \A l \in DOMAIN d[p] : \A k \in DOMAIN d[p][l] :
    d[p][l][k] \in Words => [c |-> d[p][l][k], at |-> <<p, l, k>>] \in ToSet(t)

\* Boundaries are those of the text, page by page.
PagesFit(t, bs) ==
  /\ \A i, j \in DOMAIN bs : i < j => bs[i].end < bs[j].end /\ bs[i].page < bs[j].page
  /\ bs # <<>> => \A o \in Offsets(t) :
       t[o + 1].at # Nowhere => PageForOffset(bs, o) = t[o + 1].at[1]

TextInv ==
  /\ WellNormalized(text) /\ InOrder(text) /\ PagesFit(text, boundaries)
  /\ stage # "normalize" => HasLetters(text, document.pages)

EndOf(p) == p.start + Len(p.text)

\* A paragraph stands in the text as it is, without blank lines in it and with
\* nothing but its indentation since the last one.
ParagraphInv(t, headings, bs, p) ==
  /\ p.text # <<>> /\ EndOf(p) <= Len(t)
  /\ p.text = Slice(t, p.start, EndOf(p))
  /\ ~IsSpace(t, p.start)
  /\ \A i \in p.start..(EndOf(p) - 2) : ~IsBreak(t, i)
  /\ \E b \in 0..p.start :
       /\ b = 0 \/ (b >= 2 /\ IsBreak(t, b - 2))
       /\ \A i \in b..(p.start - 1) : ClassAt(t, i) = " "
  /\ p.heading = HeadingForOffset(headings, p.start)
  /\ p.startPage = PageForOffset(bs, p.start)
  /\ p.endPage = PageForOffset(bs, EndOf(p) - 1)

\* q is the paragraph after p.
Follows(t, p, q) ==
  /\ IsBreak(t, EndOf(p)) /\ EndOf(p) + 2 <= q.start
  /\ \A i \in (EndOf(p) + 2)..(q.start - 1) : ClassAt(t, i) = " "

Consecutive(t, headings, bs, ps) ==
  /\ \A i \in DOMAIN ps : ParagraphInv(t, headings, bs, ps[i])
  /\ \A i \in 1..(Len(ps) - 1) : Follows(t, ps[i], ps[i + 1])

StageInv ==
  /\ stage = "normalize" => text = <<>> /\ cursor = 0 /\ chunks = <<>>
  /\ stage \in {"normalize", "paragraphs"} => section = <<>>
  /\ stage = "paragraphs" =>
       IF paragraphs = <<>> THEN cursor = 0
       ELSE LET end == EndOf(Last(paragraphs))
            IN  cursor = end + 2 /\ (end = Len(text) \/ IsBreak(text, end))
  /\ stage = "chunks" => section # <<>> /\ cursor < Len(Section.content)
  /\ stage \in {"normalize", "done"} => section = <<>> /\ paragraphs = <<>>
  /\ \A i \in DOMAIN section : section[i].heading = Head(section).heading

IsIn(x, ps) == \E i \in DOMAIN ps : x \in ToSet(ps[i].text)

\* What has become of a word rune of the text.
IsKept(x, o) ==
  \/ \E i \in DOMAIN chunks : x \in ToSet(chunks[i].content)
  \/ IsIn(x, paragraphs)
  \/ stage = "paragraphs" /\ o >= cursor
  \/ stage = "sections" /\ IsIn(x, section)
  \/ /\ stage = "chunks"
     /\ \E k \in Offsets(Section.content) : k >= cursor /\ Section.content[k + 1] = x

\* While chunkDocumentText runs, paragraphs stand in the normalised text one
\* after another, the section and those of no section yet are the last of them,
\* in order, and each word rune is in a chunk or still to come.
ChunkerInv ==
  /\ ChunkerTypeOK /\ TextInv /\ StageInv
  /\ Consecutive(text, Headings, boundaries, section \o paragraphs)
  /\ ~HasLongToken(text) => \A o \in Offsets(text) : IsWordRune(text, o) => IsKept(text[o + 1], o)
  /\ \A i \in DOMAIN chunks : InOrder(chunks[i].content)
  /\ PagesCover /\ OffsetsName /\ UnderItsHeading
=============================================================================
