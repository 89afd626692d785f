---- MODULE Documents --------------------------------------------------------
(****************************************************************************)
(* Texts on their way into the knowledge base: extraction, cutting into     *)
(* chunks, embedding and search.  These share no state; each has its own    *)
(* section.                                                                 *)
(****************************************************************************)
EXTENDS Integers, SequencesExt, Naturals, Sequences, FiniteSetsExt, FiniteSets

(****************************************************************************)
(* The text of a document that was uploaded: HTML whose tags are stripped,  *)
(* the paragraphs of a DOCX, the pages of a PDF.  A document is the row of  *)
(* the pieces its format has, the text names pieces by their places.        *)
(****************************************************************************)
CONSTANTS HtmlLength, DocxLength, PdfLength

VARIABLES format, doc, extracted, text

documentTextVars == <<format, doc, extracted, text>>

\* "less" is a '<' that begins no tag, "skip" and "unskip" the tags of script,
\* style and noscript; "emptyRun" is a text element of a DOCX that closes
\* itself; a page of a PDF has text or none.
Pieces ==
  [html |-> {"word", "less", "skip", "unskip", "block", "cell", "newline"},
   docx |-> {"begin", "end", "run", "emptyRun", "tab"},
   pdf |-> {"page", "blank"}]
LengthOf == [html |-> HtmlLength, docx |-> DocxLength, pdf |-> PdfLength]

DocumentTextInit ==
  /\ format = "html"
  /\ doc = <<>>
  /\ extracted = FALSE
  /\ text = <<>>

Upload(f) ==
  /\ extracted
  /\ format' = f /\ doc' = <<>> /\ extracted' = FALSE /\ text' = <<>>

Write(piece) ==
  /\ ~extracted /\ Len(doc) < LengthOf[format]
  /\ doc' = Append(doc, piece)
  /\ UNCHANGED <<format, extracted, text>>

Places == [i \in DOMAIN doc |-> i]

(***************************************************************************)
(* HTML.                                                                   *)
(***************************************************************************)
NewLine == 0
Tab == -1
EndsIn(s, marks) == s # <<>> /\ Last(s) \in marks

\* A '<' that begins no tag takes everything up to the next '>' for its name.
StrayTag(s, i) == [s EXCEPT !.inTag = doc[i] \notin {"skip", "unskip", "block", "cell"}]

OpenSkipElement(s) == [s EXCEPT !.depth = @ + 1]

TagOrText(s, i) ==
  CASE doc[i] = "less" -> [s EXCEPT !.inTag = TRUE]
    [] doc[i] = "skip" -> OpenSkipElement(s)
    [] doc[i] = "unskip" -> [s EXCEPT !.depth = IF @ > 0 THEN @ - 1 ELSE 0]
    [] s.depth > 0 -> s
    [] doc[i] = "block" /\ ~EndsIn(s.out, {NewLine}) -> [s EXCEPT !.out = Append(@, NewLine)]
    [] doc[i] = "cell" /\ ~EndsIn(s.out, {NewLine, Tab}) -> [s EXCEPT !.out = Append(@, Tab)]
    [] doc[i] = "newline" -> [s EXCEPT !.out = Append(@, NewLine)]
    [] doc[i] = "word" -> [s EXCEPT !.out = Append(@, i)]
    [] OTHER -> s

CollapseBlankLines(out) ==
  FoldLeft(LAMBDA kept, c : IF c = NewLine /\ Len(kept) > 1 /\ EndsIn(kept, {NewLine})
                                /\ kept[Len(kept) - 1] = NewLine
                             THEN kept ELSE Append(kept, c), <<>>, out)

StripHtmlToText ==
  CollapseBlankLines(
    FoldLeft(LAMBDA s, i : IF s.inTag THEN StrayTag(s, i) ELSE TagOrText(s, i),
             [inTag |-> FALSE, depth |-> 0, out |-> <<>>], Places).out)

(***************************************************************************)
(* DOCX.  Pieces read as text are named by their places, markup read as    *)
(* text by their negations.                                                *)
(***************************************************************************)
HasText(paragraph) == \E i \in DOMAIN paragraph : paragraph[i] < 0 \/ doc[paragraph[i]] # "tab"
Flush(s) == IF s.inParagraph /\ HasText(s.paragraph)
            THEN [s EXCEPT !.out = @ \o s.paragraph] ELSE s
LaterRuns(i) == {j \in DOMAIN doc : j > i /\ doc[j] = "run"}

\* An element that closes itself is read up to the end of the next run.
RawUpTo(i, j) == [k \in 1..(j - i) |-> IF i + k = j THEN j ELSE -(i + k)]

BeginKeeping(s) == [s EXCEPT !.inParagraph = TRUE]
BeginParagraph(s) == [s EXCEPT !.inParagraph = TRUE, !.paragraph = <<>>]

ReadElement(s, i) ==
  CASE i < s.next -> s
    [] doc[i] = "begin" -> BeginParagraph(s)
    [] doc[i] = "end" -> [Flush(s) EXCEPT !.inParagraph = FALSE]
    [] doc[i] \in {"run", "tab"} -> [s EXCEPT !.paragraph = Append(@, i)]
    [] doc[i] = "emptyRun" /\ LaterRuns(i) # {} ->
         LET j == CHOOSE r \in LaterRuns(i) : \A o \in LaterRuns(i) : r <= o
         IN  [s EXCEPT !.paragraph = @ \o RawUpTo(i, j), !.next = j + 1]
    [] OTHER -> s

ExtractTextFromDocxXml ==
  Flush(FoldLeft(ReadElement,
                 [inParagraph |-> FALSE, paragraph |-> <<>>, next |-> 1, out |-> <<>>], Places)).out

(***************************************************************************)
(* PDF.  The text is a row of pages and form feeds, trimmed at both ends   *)
(* before it is cut at the form feeds.  Its pages are named by the pairs   *)
(* of the number they are given and their place.                           *)
(***************************************************************************)
FormFeed == 0
PdfText == FoldLeft(LAMBDA s, i : (IF i = 1 THEN s ELSE Append(s, FormFeed))
                                   \o (IF doc[i] = "page" THEN <<i>> ELSE <<>>), <<>>, Places)

LopdfTwoFeeds ==
  FoldLeft(LAMBDA s, i : IF doc[i] = "blank" THEN s ELSE s \o <<FormFeed, i, FormFeed>>, <<>>, Places)

\* The fallback leaves blank pages out, and the form feeds before them.
ExtractTextWithLopdf ==
  FoldLeft(LAMBDA s, i : IF doc[i] = "blank" THEN s
                          ELSE (IF i = 1 THEN s ELSE Append(s, FormFeed)) \o <<i>>, <<>>, Places)

Trim(s) ==
  LET pages == {i \in DOMAIN s : s[i] # FormFeed}
  IN  IF pages = {} THEN <<>>
      ELSE SubSeq(s, CHOOSE i \in pages : \A j \in pages : i <= j, CHOOSE i \in pages : \A j \in pages : i >= j)

\* Pages are numbered before the empty ones are left out.
Pages(s) ==
  FoldLeft(LAMBDA p, c : IF c = FormFeed THEN [p EXCEPT !.number = @ + 1]
                         ELSE [p EXCEPT !.out = Append(@, <<p.number, c>>)],
           [number |-> 1, out |-> <<>>], s).out

\* A text too short for its file, or none, sends the file itself; a single page
\* goes without its number.
ExtractPdf(sparse, fallback) ==
  LET read == Trim(IF fallback THEN ExtractTextWithLopdf ELSE PdfText)
  IN  IF read = <<>> \/ sparse THEN <<>> ELSE Pages(read)

Extract ==
  /\ ~extracted /\ extracted' = TRUE
  /\ \/ format = "html" /\ text' = StripHtmlToText
     \/ format = "docx" /\ text' = ExtractTextFromDocxXml
     \/ format = "pdf" /\ \E sparse, fallback \in BOOLEAN : text' = ExtractPdf(sparse, fallback)
  /\ UNCHANGED <<format, doc>>

DocumentTextNext ==
  \/ Extract
  \/ \E f \in DOMAIN Pieces : Upload(f)
  \/ \E piece \in Pieces[format] : Write(piece)

DocumentTextTypeOK ==
  /\ format \in DOMAIN Pieces
  /\ doc \in Seq(Pieces[format])
  /\ extracted \in BOOLEAN
  /\ text \in IF format = "pdf" THEN Seq((1..Len(doc)) \X (1..Len(doc))) ELSE Seq(-Len(doc)..Len(doc))

----------------------------------------------------------------------------
Read(f) == format = f /\ extracted
Shown == {text[i] : i \in DOMAIN text}
Clean(i) == \A j \in 1..i : doc[j] # "less"
Tags == {"skip", "unskip"}

\* The tag after an opening one, before a place, is its closing one.
ClosedBefore(j, i) ==
  \E k \in (j + 1)..(i - 1) : doc[k] = "unskip" /\ \A o \in (j + 1)..(k - 1) : doc[o] \notin Tags

\* A word of a script or a style is text only if a '<' that begins no tag took
\* the opening tag for its name.
ScriptsAreNotText ==
  Read("html") =>
    \A j, i \in DOMAIN doc :
      j < i /\ doc[j] = "skip" /\ i \in Shown /\ (\A k \in j..i : doc[k] # "unskip") =>
        \E l \in 1..(j - 1) : doc[l] = "less" /\ \A k \in (l + 1)..(j - 1) : doc[k] \in {"word", "newline", "less"}

\* In a page without such a '<', every word outside scripts and styles that
\* do not contain the name of their own tag is in the text, in order, and
\* never after more than one blank line.
WordsAreText ==
  Read("html") =>
    /\ \A i \in DOMAIN doc :
         doc[i] = "word" /\ Clean(i) /\ (\A j \in 1..(i - 1) : doc[j] = "skip" => ClosedBefore(j, i)) =>
           i \in Shown
    /\ \A i, j \in DOMAIN text : i < j /\ text[i] > 0 /\ text[j] > 0 => text[i] < text[j]
    /\ \A i \in DOMAIN text : i > 2 => ~(\A k \in (i - 2)..i : text[k] = NewLine)

Marks == {"begin", "end"}
\* Inside a paragraph that holds no other.
InPlainParagraph(i) ==
  /\ \E b \in 1..(i - 1) : doc[b] = "begin" /\ \A k \in (b + 1)..(i - 1) : doc[k] \notin Marks
  /\ \A k \in (i + 1)..Len(doc) :
       doc[k] = "begin" => \E e \in (i + 1)..(k - 1) : doc[e] = "end"

\* In a document without elements that close themselves, the runs in
\* paragraphs that hold no other are in the text, once, and in order; those
\* between paragraphs are not.
ParagraphsAreText ==
  Read("docx") /\ (\A i \in DOMAIN doc : doc[i] # "emptyRun") =>
    /\ \A i \in DOMAIN doc : doc[i] = "run" /\ InPlainParagraph(i) => i \in Shown
    /\ \A i \in DOMAIN doc : doc[i] = "run" /\ (\A b \in 1..i : doc[b] # "begin") => i \notin Shown
    /\ \A i, j \in DOMAIN text : i < j => text[i] < text[j]

\* The pages of a PDF keep their order, and a page is never given a number
\* above its own.
PagesInOrder ==
  Read("pdf") =>
    /\ \A i, j \in DOMAIN text : i < j => text[i][1] < text[j][1] /\ text[i][2] < text[j][2]
    /\ \A i \in DOMAIN text : text[i][1] <= text[i][2] /\ doc[text[i][2]] = "page"

(****************************************************************************)
(* The splitting of a text into chunks for embedding.  A character is its   *)
(* position in the text, the line ends put between paragraphs are 0; a      *)
(* paragraph is a sequence of sentences, given by their lengths.            *)
(****************************************************************************)
CONSTANTS MaxChars, Overlap, Shapes, MaxParagraphs

VARIABLE paragraphs

chunkVars == <<paragraphs>>

Sizes == {<<n>> : n \in Shapes} \cup (Shapes \X Shapes)

TextChunksInit == paragraphs = <<>>

AddParagraph ==
  /\ Len(paragraphs) < MaxParagraphs
  /\ \E shape \in Sizes : paragraphs' = Append(paragraphs, shape)

TextChunksNext == AddParagraph

TextChunksTypeOK == paragraphs \in Seq(Sizes)

----------------------------------------------------------------------------
Total(shape) == FoldLeft(+, 0, shape)
Before(i) == FoldLeft(+, 0, [j \in 1..(i - 1) |-> Total(paragraphs[j])])
Span(from, length) == [k \in 1..length |-> from + k]

\* The sentences of paragraph i, and the paragraph as a whole.
Sentences(i) ==
  [s \in DOMAIN paragraphs[i] |-> Span(Before(i) + Total(SubSeq(paragraphs[i], 1, s - 1)), paragraphs[i][s])]
Paragraph(i) == Span(Before(i), Total(paragraphs[i]))
LineEnds == <<0, 0>>

Keep(chunk) == IF Len(chunk) > Overlap THEN SubSeq(chunk, Len(chunk) - Overlap + 1, Len(chunk)) ELSE <<>>

\* Pieces of MaxChars, each begun Overlap before the end of the last.
Cut(chunk) ==
  LET step == MaxChars - Overlap
      pieces == IF Len(chunk) <= MaxChars THEN 1 ELSE 1 + (Len(chunk) - MaxChars + step - 1) \div step
      to(k) == (k - 1) * step + MaxChars
  IN  [k \in 1..pieces |->
         SubSeq(chunk, (k - 1) * step + 1, IF to(k) < Len(chunk) THEN to(k) ELSE Len(chunk))]

\* Sentences are gathered while they fit; then what is still too long is cut.
SplitLongText(sentences) ==
  LET gather(acc, sentence) ==
        LET full == acc.current # <<>> /\ Len(acc.current) + Len(sentence) > MaxChars
        IN  [chunks  |-> IF full THEN Append(acc.chunks, acc.current) ELSE acc.chunks,
             current |-> (IF full THEN Keep(acc.current) ELSE acc.current) \o sentence]
      all == FoldLeft(gather, [chunks |-> <<>>, current |-> <<>>], sentences)
  IN  FlattenSeq([k \in 1..(Len(all.chunks) + 1) |->
                    Cut(IF k <= Len(all.chunks) THEN all.chunks[k] ELSE all.current)])

FlushChunk(acc) == IF acc.current = <<>> THEN acc.chunks ELSE Append(acc.chunks, acc.current)
Whole == FoldLeft(LAMBDA passage, i : IF passage = <<>> THEN Paragraph(i) ELSE passage \o LineEnds \o Paragraph(i),
                  <<>>, [i \in DOMAIN paragraphs |-> i])

\* A paragraph that does not fit closes the current chunk and starts the next
\* with the end of it; one that is too long by itself is split.
AddTo(acc, i) ==
  LET next == Paragraph(i)
      full == acc.current # <<>> /\ Len(acc.current) + Len(next) + 2 > MaxChars
      begun == IF full THEN [chunks |-> Append(acc.chunks, acc.current), current |-> Keep(acc.current)]
               ELSE acc
  IN  IF Len(next) > MaxChars
      THEN [chunks |-> FlushChunk(begun) \o SplitLongText(Sentences(i)), current |-> <<>>]
      ELSE [chunks  |-> begun.chunks,
            current |-> IF begun.current = <<>> THEN next ELSE begun.current \o LineEnds \o next]

AppendParagraph(acc, i) == AddTo(acc, i)

ChunkText ==
  IF Len(Whole) <= MaxChars THEN <<Whole>>
  ELSE FlushChunk(FoldLeft(AppendParagraph, [chunks |-> <<>>, current |-> <<>>],
                      [i \in DOMAIN paragraphs |-> i]))

----------------------------------------------------------------------------
Letters(chunk) == SelectSeq(chunk, LAMBDA c : c # 0)

\* No part of a passage is lost, and the chunks are in its order: each begins at
\* or before the end of what came before it.
NothingIsLost ==
  LET chunks == ChunkText
      end(k) == Max({0} \cup UNION {Range(chunks[j]) : j \in 1..k})
  IN  /\ \A k \in DOMAIN chunks :
           Letters(chunks[k]) # <<>> =>
             LET letters == Letters(chunks[k]) IN
             /\ letters[1] <= end(k - 1) + 1
             /\ \A c \in 1..(Len(letters) - 1) : letters[c + 1] = letters[c] + 1
      /\ end(Len(chunks)) = Before(Len(paragraphs) + 1)

\* A chunk is longer than the limit by the overlap and two line ends at most.
ChunksAreSmall == \A k \in DOMAIN ChunkText : Len(ChunkText[k]) <= MaxChars + Overlap + 2

(****************************************************************************)
(* Memories and documents in memory_entries, and the embeddings that make   *)
(* them findable by meaning.  The embedding service comes and goes; a       *)
(* search by meaning that succeeds never falls back to one by text, however *)
(* little it finds.                                                         *)
(****************************************************************************)
CONSTANTS Memories, Documents, Chunks, Batch, Limit

VARIABLES service, memory, document, inserted, vectors, embedded, accessed, fellBack

knowledgeVars ==
  <<service, memory, document, inserted, vectors, embedded, accessed, fellBack>>

\* An entry is a memory, the parent of a document or one of its chunks.
Parents == {<<d, 0>> : d \in Documents}
ChunksOf(d) == {<<d, i>> : i \in 1..Chunks}
Entries == Memories \cup Parents \cup UNION {ChunksOf(d) : d \in Documents}
NoWork == [stage |-> "new", by |-> "tool", at |-> 0]

KnowledgeInit ==
  /\ service = TRUE
  /\ memory = [m \in Memories |-> "new"]
  /\ document = [d \in Documents |-> NoWork]
  /\ inserted = {}
  /\ vectors = {}
  /\ embedded = {}
  /\ accessed = {}
  /\ fellBack = FALSE

ServiceChanges ==
  /\ service' = ~service
  /\ UNCHANGED <<memory, document, inserted, vectors, embedded, accessed, fellBack>>

RememberThis(m) ==
  /\ memory[m] = "new"
  /\ memory' = [memory EXCEPT ![m] = "stored"]
  /\ inserted' = inserted \cup {m}
  /\ UNCHANGED <<service, document, vectors, embedded, accessed, fellBack>>

\* In the background, once; a failure is logged and never repeated.
EmbedMemory(m) ==
  /\ memory[m] = "stored"
  /\ memory' = [memory EXCEPT ![m] = "settled"]
  /\ embedded' = IF service THEN embedded \cup {m} ELSE embedded
  /\ UNCHANGED <<service, document, inserted, vectors, accessed, fellBack>>

----------------------------------------------------------------------------
\* The parent row comes first, by the tool or for a document of a chat.
InsertParent(d, by) ==
  /\ document[d].stage = "new"
  /\ document' = [document EXCEPT ![d] = [stage |-> "embed", by |-> by, at |-> 0]]
  /\ inserted' = inserted \cup {<<d, 0>>}
  /\ UNCHANGED <<service, memory, vectors, embedded, accessed, fellBack>>

IngestDocument(d) == InsertParent(d, "tool")
BackgroundIngest(d) == InsertParent(d, "background")

Smaller(a, b) == IF a < b THEN a ELSE b

\* The chunks are embedded a batch at a time; the vectors of earlier batches
\* are given up when a later one fails.
EmbedBatch(d) ==
  LET upTo == Smaller(document[d].at + Batch, Chunks) IN
  /\ document[d].stage = "embed"
  /\ service
  /\ vectors' = vectors \cup {<<d, i>> : i \in (document[d].at + 1)..upTo}
  /\ document' = [document EXCEPT ![d].stage = IF upTo = Chunks THEN "insert" ELSE "embed",
                                  ![d].at = IF upTo = Chunks THEN 0 ELSE upTo]
  /\ UNCHANGED <<service, memory, inserted, embedded, accessed, fellBack>>

\* The tool goes on without embeddings, the background task ends.
EmbedFails(d) ==
  /\ document[d].stage = "embed"
  /\ ~service
  /\ vectors' = vectors \ ChunksOf(d)
  /\ document' = [document EXCEPT ![d].stage = IF document[d].by = "tool" THEN "insert" ELSE "done",
                                  ![d].at = 0]
  /\ UNCHANGED <<service, memory, inserted, embedded, accessed, fellBack>>

\* A chunk that cannot be inserted is skipped.
InsertChunk(d) ==
  LET chunk == <<d, document[d].at + 1>> IN
  /\ document[d].stage = "insert"
  /\ \/ /\ inserted' = inserted \cup {chunk}
        /\ embedded' = IF chunk \in vectors THEN embedded \cup {chunk} ELSE embedded
     \/ UNCHANGED <<inserted, embedded>>
  /\ vectors' = vectors \ {chunk}
  /\ document' = [document EXCEPT ![d].at = @ + 1,
                                  ![d].stage = IF chunk[2] = Chunks THEN "done" ELSE @]
  /\ UNCHANGED <<service, memory, accessed, fellBack>>

----------------------------------------------------------------------------
FoundByMeaning == embedded

\* At most Limit of the entries that have an embedding, marked as accessed.
SearchByMeaning ==
  /\ service
  /\ \E found \in SUBSET FoundByMeaning :
       /\ Cardinality(found) = Smaller(Limit, Cardinality(FoundByMeaning))
       /\ accessed' = accessed \cup found
  /\ UNCHANGED <<service, memory, document, inserted, vectors, embedded, fellBack>>

SearchByText(among) ==
  /\ \E found \in SUBSET (inserted \cap among) :
       /\ Cardinality(found) <= Limit
       /\ accessed' = accessed \cup found
  /\ fellBack' = TRUE
  /\ UNCHANGED <<service, memory, document, inserted, vectors, embedded>>

\* Both searches try the embedding of the query first; without one they look
\* for its words, in all entries or in documents only.
SearchMemory == IF service THEN SearchByMeaning ELSE SearchByText(Entries)
KnowledgeSearch == IF service THEN SearchByMeaning ELSE SearchByText(Entries \ Memories)

KnowledgeNext ==
  \/ ServiceChanges \/ SearchMemory \/ KnowledgeSearch
  \/ \E m \in Memories : RememberThis(m) \/ EmbedMemory(m)
  \/ \E d \in Documents :
       \/ IngestDocument(d) \/ BackgroundIngest(d) \/ EmbedBatch(d) \/ EmbedFails(d)
       \/ InsertChunk(d)

KnowledgeTypeOK ==
  /\ service \in BOOLEAN /\ fellBack \in BOOLEAN
  /\ memory \in [Memories -> {"new", "stored", "settled"}]
  /\ document \in [Documents -> [stage : {"new", "embed", "insert", "done"},
                                 by : {"tool", "background"}, at : 0..Chunks]]
  /\ inserted \subseteq Entries /\ accessed \subseteq Entries
  /\ vectors \subseteq Entries /\ embedded \subseteq Entries

----------------------------------------------------------------------------
\* The chunks of one document can all be found by meaning or none of them,
\* however the service failed while they were embedded.
EmbeddedTogether ==
  \A d \in Documents :
    \/ inserted \cap ChunksOf(d) \subseteq embedded
    \/ embedded \cap ChunksOf(d) = {}

\* A document a chat brought is in chunks with embeddings or only a parent.
BackgroundIsEmbedded ==
  \A d \in Documents :
    document[d].by = "background" => inserted \cap ChunksOf(d) \subseteq embedded

\* What was accessed without an embedding was found when a search had fallen
\* back to its words: while the service answers, such an entry is never found.
PlainNeedsFallback == accessed \subseteq embedded \/ fellBack

(****************************************************************************)
(* All of it.                                                               *)
(****************************************************************************)
documentsVars == <<documentTextVars, chunkVars, knowledgeVars>>

Init ==
  /\ DocumentTextInit
  /\ TextChunksInit
  /\ KnowledgeInit

Next ==
  \/ DocumentTextNext /\ UNCHANGED <<chunkVars, knowledgeVars>>
  \/ TextChunksNext /\ UNCHANGED <<documentTextVars, knowledgeVars>>
  \/ KnowledgeNext /\ UNCHANGED <<documentTextVars, chunkVars>>

Spec == Init /\ [][Next]_documentsVars

TypeOK ==
  /\ DocumentTextTypeOK
  /\ TextChunksTypeOK
  /\ KnowledgeTypeOK
==============================================================================
