----------------------------- MODULE OcrChunks -----------------------------
(***************************************************************************)
(* The OCR of one document: a PDF longer than the service takes is cut     *)
(* into overlapping chunks, sent by parallel threads with retries          *)
(* (integrations/ocr/sarvam_client.py); OcrStage accepts what is complete; *)
(* MergeStage makes one text of it (integrations/ocr/ocr_merger.py), whose *)
(* ledger rows are recombined where a page break split them                *)
(* (shared/ec_ledger.py).                                                  *)
(*                                                                         *)
(* A page is its number in the PDF and the way a table crosses its edges.  *)
(* The service, which decides what it answers, and the model that lists    *)
(* the rows of the text are external.                                      *)
(***************************************************************************)
EXTENDS Integers, FiniteSets, SequencesExt

CONSTANTS
    CHUNK_SIZE,     \* pages the service takes in one call
    CHUNK_OVERLAP,  \* pages two neighbouring chunks share
    MAX_RETRIES,    \* calls for a chunk
    Layouts,        \* the documents: sequences of page kinds
    Shifts,         \* what a printed page label may add to the page's number
    MaxReruns       \* bound: how often the stage is run again after it failed

ASSUME ChunkAssumption ==
    /\ CHUNK_OVERLAP \in Nat /\ CHUNK_SIZE \in Nat /\ CHUNK_OVERLAP < CHUNK_SIZE
    /\ MAX_RETRIES \in Nat \ {0} /\ MaxReruns \in Nat /\ Shifts \subseteq Nat

\* "opens": a table goes on past its end; "closes": it begins with such a table's rows.
Kinds == {"text", "opens", "closes", "through"}

ASSUME LayoutsAssumption ==
    \A l \in Layouts : l \in Seq(Kinds) /\ l # <<>> /\ l[1] \in {"text", "opens"}

VARIABLES
    layout,  \* the document
    shift,   \* its printed page labels
    stage,   \* the status of the document, "waiting": for the user, without credits
    chunks,  \* the result of each chunk; the file that keeps them is written before they are judged
    merged,  \* the pages of the merged text
    reruns

vars == <<layout, shift, stage, chunks, merged, reruns>>

----------------------------------------------------------------------------
\* Chunks

PageCount == Len(layout)
Pages == 1 .. PageCount
Open(p) == layout[p] \in {"opens", "through"}
Continues(p) == layout[p] \in {"closes", "through"}

\* _build_chunk_ranges; the last chunk may have no page of its own.
ChunkIds(n) ==
    IF n <= CHUNK_SIZE THEN {0} ELSE {k \in 0 .. n : k * (CHUNK_SIZE - CHUNK_OVERLAP) < n}

FirstPage(k) == k * (CHUNK_SIZE - CHUNK_OVERLAP) + 1

ChunkPages(k) == {p \in Pages : p \in FirstPage(k) .. FirstPage(k) + CHUNK_SIZE - 1}

\* An answer: page objects, some of whose pages may be missing; or only text, with a
\* printed label at the end of some pages, or of none.
Answers(k) ==
    LET some == (SUBSET ChunkPages(k)) \ {{}}
    IN  [form : {"pages"}, got : some, labelled : {{}}]
        \cup [form : {"text"}, got : {ChunkPages(k)}, labelled : SUBSET ChunkPages(k)]

NoAnswer == [form |-> "none", got |-> {}, labelled |-> {}]

ChunkResult(status, tries, credits, answer) ==
    [status |-> status, tries |-> tries, credits |-> credits, answer |-> answer]

Pending == [k \in ChunkIds(PageCount) |-> ChunkResult("pending", 0, TRUE, NoAnswer)]

Complete == {k \in DOMAIN chunks : chunks[k].status = "complete"}
ReadPages == UNION {chunks[k].answer.got : k \in Complete}

TypeOK ==
    /\ layout \in Layouts /\ shift \in Shifts
    /\ stage \in {"ocr", "ocr_done", "merged", "failed", "waiting"}
    /\ DOMAIN chunks = ChunkIds(PageCount)
    /\ \A k \in DOMAIN chunks :
          \/ /\ chunks[k].status = "complete" /\ chunks[k].answer \in Answers(k)
             /\ chunks[k].tries = 0 /\ chunks[k].credits
          \/ /\ chunks[k].status = "pending" /\ chunks[k].answer = NoAnswer
             /\ chunks[k].tries \in 0 .. MAX_RETRIES - 1 /\ chunks[k].credits
          \/ /\ chunks[k].status = "failed" /\ chunks[k].answer = NoAnswer
             /\ chunks[k].tries = 0 /\ chunks[k].credits \in BOOLEAN
    /\ \A i \in DOMAIN merged : Range(merged[i].pages) \subseteq Pages
    /\ merged # <<>> => stage = "merged"
    /\ reruns \in 0 .. MaxReruns

Init ==
    /\ layout \in Layouts /\ shift \in Shifts
    /\ stage = "ocr"
    /\ chunks = Pending
    /\ merged = <<>>
    /\ reruns = 0

----------------------------------------------------------------------------
\* OcrStage: a thread per chunk

\* _process_single_pdf, _send_zip: the job succeeds, in part or as a whole.
Succeed(k) ==
    /\ stage = "ocr" /\ chunks[k].status = "pending"
    /\ \E answer \in Answers(k) :
          chunks' = [chunks EXCEPT ![k] = ChunkResult("complete", 0, TRUE, answer)]
    /\ UNCHANGED <<layout, shift, stage, merged, reruns>>

\* Variant: one call more than MAX_RETRIES.
FailCall_OneMore(k) ==
    /\ stage = "ocr" /\ chunks[k].status = "pending"
    /\ LET tries == chunks[k].tries + 1
       IN  chunks' = [chunks EXCEPT ![k] =
               IF tries <= MAX_RETRIES THEN ChunkResult("pending", tries, TRUE, NoAnswer)
               ELSE ChunkResult("failed", 0, TRUE, NoAnswer)]
    /\ UNCHANGED <<layout, shift, stage, merged, reruns>>

\* An exception or a failed job, tried again up to MAX_RETRIES times.
FailCall(k) ==
    /\ stage = "ocr" /\ chunks[k].status = "pending"
    /\ LET tries == chunks[k].tries + 1
       IN  chunks' = [chunks EXCEPT ![k] =
               IF tries < MAX_RETRIES THEN ChunkResult("pending", tries, TRUE, NoAnswer)
               ELSE ChunkResult("failed", 0, TRUE, NoAnswer)]
    /\ UNCHANGED <<layout, shift, stage, merged, reruns>>

\* Insufficient credits end the loop.
RunOut(k) ==
    /\ stage = "ocr" /\ chunks[k].status = "pending"
    /\ chunks' = [chunks EXCEPT ![k] = ChunkResult("failed", 0, FALSE, NoAnswer)]
    /\ UNCHANGED <<layout, shift, stage, merged, reruns>>

\* run_ocr_with_retry gives up: no client, or a PDF that cannot be opened.
CannotStart ==
    /\ stage = "ocr" /\ chunks = Pending
    /\ stage' = "failed"
    /\ UNCHANGED <<layout, shift, chunks, merged, reruns>>

\* OcrStage.invoke, when every thread is done.
Judge ==
    /\ stage = "ocr" /\ \A k \in DOMAIN chunks : chunks[k].status # "pending"
    /\ stage' = IF \E k \in DOMAIN chunks : ~chunks[k].credits THEN "waiting"
                ELSE IF Complete = {} THEN "failed"
                ELSE "ocr_done"
    /\ UNCHANGED <<layout, shift, chunks, merged, reruns>>

\* The pipeline's retry or the user's: every chunk is sent again.
Rerun ==
    /\ stage \in {"failed", "waiting"} /\ reruns < MaxReruns
    /\ reruns' = reruns + 1
    /\ stage' = "ocr"
    /\ chunks' = Pending
    /\ UNCHANGED <<layout, shift, merged>>

----------------------------------------------------------------------------
\* MergeStage

Page(number, pages) == [number |-> number, pages |-> pages]

\* The k-th of some numbers has k of them up to it.
Ascending(S) ==
    [k \in 1 .. Cardinality(S) |-> CHOOSE x \in S : Cardinality({y \in S : y <= x}) = k]

ByNumber(S) ==
    LET numbers == Ascending({pg.number : pg \in S})
    IN  [i \in DOMAIN numbers |-> CHOOSE pg \in S : pg.number = numbers[i]]

\* _split_markdown_pages: a label ends a page and gives it its number; what follows the
\* last one is added to it.
SplitAtLabels(answer) ==
    LET last == CHOOSE f \in answer.labelled : \A b \in answer.labelled : b <= f
        follows(p, f) == \A b \in answer.labelled : b < f => b < p
        ended(f) == {p \in answer.got : follows(p, f) /\ (p <= f \/ f = last)}
    IN  {Page(f + shift, Ascending(ended(f))) : f \in answer.labelled}

\* Variant: a page object's number is taken for the page of the document.
ExtractPages_Local(k) ==
    LET answer == chunks[k].answer
    IN  IF answer.form = "pages"
        THEN {Page(p - FirstPage(k) + 1, <<p>>) : p \in answer.got}
        ELSE {Page(FirstPage(k), Ascending(answer.got))}

\* _extract_pages, as a set: the numbers of its pages differ.
ExtractPages(k) ==
    LET answer == chunks[k].answer
        local(p) == p - FirstPage(k) + 1
    IN  IF answer.form = "pages"
        THEN {Page(FirstPage(k) + local(p) - 1, <<p>>) : p \in answer.got}
        ELSE IF answer.labelled # {} THEN SplitAtLabels(answer)
        ELSE {Page(FirstPage(k), Ascending(answer.got))}

\* _deduplicate_pages: of the pages with one number, the one of the earliest chunk.
DeduplicatePages ==
    LET extracted == [k \in Complete |-> ExtractPages(k)]
        numbers(k) == {pg.number : pg \in extracted[k]}
        seen(k) == UNION {numbers(j) : j \in {c \in Complete : c < k}}
    IN  ByNumber(UNION {{pg \in extracted[k] : pg.number \notin seen(k)} : k \in Complete})

\* _detect_merge_split_tables: a page that continues the table of the page before it in
\* the list is added to that page; it is then empty, and nothing is added to it.
Joined(pgs) ==
    LET joined[i \in 1 .. Len(pgs) + 1] ==
            /\ i \in 2 .. Len(pgs)
            /\ ~joined[i - 1]
            /\ Open(Last(pgs[i - 1].pages)) /\ Continues(Head(pgs[i].pages))
    IN  joined

JoinTables(pgs) ==
    LET joined == Joined(pgs)
        text(i) == IF joined[i] THEN <<>>
                   ELSE IF joined[i + 1] THEN pgs[i].pages \o pgs[i + 1].pages
                   ELSE pgs[i].pages
    IN  [i \in DOMAIN pgs |-> Page(pgs[i].number, text(i))]

\* merge_chunked_outputs; a page that is empty now stays in its list.
MergeStage ==
    /\ stage = "ocr_done"
    /\ stage' = "merged"
    /\ merged' = IF Cardinality(Complete) = 1 THEN DeduplicatePages ELSE JoinTables(DeduplicatePages)
    /\ UNCHANGED <<layout, shift, chunks, reruns>>

----------------------------------------------------------------------------
\* The ledger

\* _build_output: the text of the document, as pages in the order they are read.
Text ==
    LET text[i \in 0 .. Len(merged)] == IF i = 0 THEN <<>> ELSE text[i - 1] \o merged[i].pages
    IN  text[Len(merged)]

\* The rows of the text: a page that continues a registration has a row without a date
\* and a reference for it, any other begins one.
Rows ==
    LET row(p) == [dated |-> ~Continues(p), pages |-> <<p>>]
        read == Text
    IN  [i \in DOMAIN read |-> row(read[i])]

\* Variant: a row without a date is a registration of its own.
MergeSplitLedger_Kept(ledger) == ledger

\* merge_split_ledger: such a row is added to the entry before it.
MergeSplitLedger(ledger) ==
    LET added(es, row) == IF es = <<>> \/ row.dated THEN Append(es, row)
                          ELSE [es EXCEPT ![Len(es)].pages = @ \o row.pages]
        entries[i \in 0 .. Len(ledger)] ==
            IF i = 0 THEN <<>> ELSE added(entries[i - 1], ledger[i])
    IN  entries[Len(ledger)]

\* normalize_ec_structured, before the document is saved and whenever it is read.
HistoricalLedger == MergeSplitLedger(MergeSplitLedger(Rows))

----------------------------------------------------------------------------

Next ==
    \/ \E k \in DOMAIN chunks : Succeed(k) \/ FailCall(k) \/ RunOut(k)
    \/ CannotStart
    \/ Judge
    \/ MergeStage
    \/ Rerun

Spec == Init /\ [][Next]_vars

----------------------------------------------------------------------------
\* Properties

\* The answer's pages have the numbers of the document's pages.
Numbered(k) ==
    LET answer == chunks[k].answer
    IN  answer.form = "pages" \/ (answer.labelled = ChunkPages(k) /\ shift = 0)

Faithful == stage = "merged" /\ \A k \in Complete : Numbered(k)

\* Every page that some chunk has read is in the merged text once and in its place, the
\* page two chunks share and the pages of a joined table too (ocr_merger.py:122-160); where
\* every chunk was read as a whole, that is every page of the document.
EachPageOnce ==
    /\ Faithful => Text = Ascending(ReadPages)
    /\ Faithful /\ (\A k \in DOMAIN chunks : chunks[k].answer.got = ChunkPages(k)) => ReadPages = Pages

\* The page break behind page p is inside a page of the merged text.
Mended(p) == \E i \in DOMAIN merged : {p, p + 1} \subseteq Range(merged[i].pages)

\* Where no page is missing and there are several chunks, the break of a table over two
\* pages is mended, and of a table over more no two breaks in a row are left open; but one
\* behind a mended one is: the third page finds the second emptied and stays apart.  Pages
\* of two tables never share one (_detect_merge_split_tables).
TablesAreJoined ==
    Faithful /\ ReadPages = Pages =>
        /\ Cardinality(Complete) > 1 =>
              \A p \in Pages : p + 1 \in Pages /\ Open(p) /\ Continues(p + 1) =>
                 Mended(p) \/ (Continues(p) /\ Mended(p - 1))
        /\ \A i \in DOMAIN merged : \A j \in 2 .. Len(merged[i].pages) :
              Open(merged[i].pages[j - 1]) /\ Continues(merged[i].pages[j])

\* The page on which the registration on page p begins.
Beginning(p) == CHOOSE b \in 1 .. p : ~Continues(b) /\ \A q \in b + 1 .. p : Continues(q)

\* Where no page is missing, an entry of the ledger is one registration with all of its
\* pages, however often the ledger is recombined (ec_ledger.py:38-72).
RegistrationsAreWhole ==
    LET ledger == HistoricalLedger
        entry(i) == Range(ledger[i].pages)
    IN  Faithful /\ ReadPages = Pages =>
            /\ \A i \in DOMAIN ledger :
                  \E b \in entry(i) : entry(i) = {p \in Pages : Beginning(p) = b}
            /\ UNION {entry(i) : i \in DOMAIN ledger} = Pages

\* What a page break has split: where no page is missing, a registration is whole again, a
\* table over two pages too, and one over more is joined in pairs.
SplitsAreMended == TablesAreJoined /\ RegistrationsAreWhole

\* ARCHITECTURE.md:539-541: a chunk without page objects is split at its labels, or "last
\* resort one synthetic page from the whole chunk".  Every page read is then in the text.
NoTextLost == stage = "merged" => ReadPages \subseteq Range(Text)

==============================================================================
