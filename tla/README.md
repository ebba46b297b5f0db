# maestro-cms in TLA+

maestro-cms is a Go library for content pipelines: it extracts text from documents,
cuts text into chunks, embeds chunks through a provider's client, and keeps objects in
a store. There is no server and no database; the state is that of the calls in flight,
and the hard parts are what a call does when something on its way fails, hangs, is
canceled, lies about its size, or answers out of order.

This directory holds TLA+ modules translated from the source, TLC runs over small
instances, and TLAPS proofs of the properties that matter most, for every instance.

## 1. Inventory

Paths are relative to the repository root.

| Component | State | Operations | Talks to | Hard behaviour | What makes it correct |
|---|---|---|---|---|---|
| Embedding runner, `embed/embed.go` | the loop over inputs, the packed batches, the stack of halves of a failing batch, records by position, failures, `runErr` | `Run`, `packBatches`, `embedBatch`, `assemble` | an `llms.EmbeddingClient` (all or nothing per request, any order of vectors), the caller's context | bisection after failures, mismatched responses, cancellation before, during and after a request | no input lost or reported twice, a vector goes to the input it was made for, poison is isolated at bounded cost |
| Chunker, `chunk/chunk.go`, `chunk/codesplit.go` | the chunk list and three nested packing or cutting loops | `Split`, `growChunk`, `overlapStart`, `hardSplit`, `hardSplitProse`, `splitFenced`, `splitLines` | a `Boundaries` function, an `Estimate` function | progress with overlap, runes at the edge of a window, offsets against the trimmed text, hand-over between splitters | the chunks cover the text, advance, keep runes whole, fit the budget, repeat at most the overlap |
| Heading segmenter, `chunk/headings.go` | the open fence, the previous line, the section starts | `Headings` | is a `Boundaries` function | setext titles found one line late, fences that never close | units tile the text; sections start at headings, never in code |
| Registry and bounded reading, `extract/extract.go` | the extractor map; per call the remaining allowance of the reader | `Register`, `Get`, `Extract`, `limitReader.Read`, `ctxReader.Read`, `ReadAll`, `NormalizeWhitespace` | extractors, the caller's reader and context | registrations under different spellings, sources at the limit, limits at the end of the integer type, cancellation between reads | a source goes to the extractor registered for it, is read whole or refused, and never more than one byte past the limit |
| Pure-Go PDF engine, `extract/pdf/purego` | worker goroutine, buffered channel, watchdog timer | `Pages` | a third-party parser that may panic or hang | result, timer and cancellation ready at once; a worker nobody waits for | whole pages or an error with its cause; the call returns; no goroutine is stuck on its send |
| pdftotext PDF engine, `extract/pdf/pdftotext` | child process, capped buffer, derived context | `Pages`, `capWriter.Write`, `splitPages` | the `pdftotext` binary, `os/exec` | cap, deadline and caller all cancel; a killed child has written half a document | whole output or an error with its cause; page numbers keep blank pages counted |
| PDF extractor, `extract/pdf/pdf.go` | none | `Extract` | an engine, `ReadAll` | – | errors are passed on, blank pages dropped after numbering |
| PPTX extractor, `extract/pptx` | the decompression budget shared by all parts, the order of the slides | `Extract`, `resolveOrder`, the part readers | `archive/zip` | a budget spread over many parts, slide order with a fallback, duplicate and dangling references | budget never exceeded, every slide once, in order, with its notes |
| DOCX extractor, `extract/docx` | the decompression budget of one part | `Extract` | `archive/zip` | a part that decompresses to the budget exactly | as above |
| Text, Markdown, HTML extractors | none between calls | `Extract` | an HTML parser | front matter that is never closed, paragraph breaks around nested blocks | no word, paragraph or body is lost |
| Presets, helpers | none | wiring of a registry, lookups | the registry | duplicate registration panics | each media type registered once |
| Object store contract, `store/store.go`, `store/helpers.go` | – | `Get`, `GetRange`, `Put`, `Delete`, `Exists`, `Compose`, `List`, `DeleteIfExists` | – | – | see the adapters |
| Cloud Storage adapter, `store/gcs` | none; the bucket is the service's | the contract | the storage SDK | upload committed on `Close`, lost responses, concurrent callers, pages of a listing, ranges at the end of an object or of int64 | objects change as wholes, a result says what happened, ranges and listings as the contract says |
| In-memory store, `testcms/memorystore.go` | a map behind a mutex | the contract | – | `List` calls back outside the lock | same contract as the adapter |
| Embedding fake, `testcms/embedder.go` | canned vectors | `Embed` | – | – | a test double |
| Content model, `content` | plain data | validation, SHA-256 | – | – | field checks |

Interactions: a registry wraps the caller's reader in the size limit and dispatches to an
extractor, which buffers the source with `ReadAll` and, for PDF, hands it to an engine.
Extracted text goes to `chunk.Split`, whose units come from `Paragraphs`, `Headings` or
the caller; chunk texts become inputs of `embed.Run`. Stores are independent of these.
Only the PDF engines start goroutines or processes; the stores are called concurrently.

The hazards behind these columns are listed, each at its line, in `PROJECT.json`.

## 2. Modules

### EmbedContract, Embed

`EmbedContract` is what `Run` promises: inputs are settled in groups, as records or as a
failure, each at most once, and the run returns nil only when all are settled. It has no
batches, no requests and no bisection. `SettleTorn` is the one exception the code makes
(finding 1).

`Embed` is `Run` statement by statement. `pc` names the place in the code: the validation
loop (`Validate`), `packBatches` (`Pack`, `FinishPacking`), the batch loop (`StartBatch`,
`CancelBeforeBatch`, `FinishBatches`), and `embedBatch` from the request (`CallEmbed`)
to one of its exits (`AbortCanceled`, `Bisect`, `FailBatch`, `RejectResponse`,
`RecordResponse`). The Go recursion of `embedBatch` becomes the set `cuts` of right ends:
since a batch is a contiguous slice and the left half goes first, the stack of pending
halves is determined by where each ends. The client is an environment action: it may
answer any permutation, fail for poison inputs, fail transiently, report its own
cancellation, return too few or too many vectors, a duplicate ID, or an unknown ID in
place of a known one. Text, vectors and metadata are identities; a vector is the ID it is
tagged with.

### Chunk

`Split` and the splitters it calls. `Split`, `splitFenced` and `splitLines` run the same
packing loop over units, groups and lines, so a *frame* is one running loop, and an
oversize span pushes the frame of the splitter `hardSplit` picks. One step is one emitted
chunk, one hand-over or one loop exit. A byte is one of nine classes (`Bytes`): ordinary,
sentence end, blank, newline, fence marker, the lead byte of a rune of two, three or four
bytes, and continuation byte. `RuneSize` decodes as `utf8.DecodeRune` does: a byte that starts no
whole rune is one of its own, and the estimate counts runes that way (`RuneCount`). Blanks of
more than one byte, and the code points UTF-8 leaves out, are not told apart. A run of `f` is a fence marker of that length, so whether a marker closes a longer one
is in the model, while the two fence characters, the minimum of three and indentation are in
`Headings` only. The estimator is the default one with `CharsPerToken` as a parameter.
The float64 window of `hardSplitProse` is an exact rational here. A custom segmenter may return
any spans of integers, those `validUnits` refuses included; it may leave gaps, whose text a packed
chunk contains and no budget counts, so the properties about budgets and cover are about contiguous
units (`GapFree`).

### Headings

One action per branch of the `switch` in `Headings`. A line is the record of what the
recognizers test (indentation, first character, length of its run, what follows), and an
offset is a number of lines. The text is revealed as it is read, so the invariants hold
for every prefix of every text.

### BoundedRead, Registry

`BoundedRead` is `limitReader` under `ctxReader` under `io.ReadAll`: one action for the request, with the
clipped buffer, and one for the source's answer, in which the source may return any count
and error together. Integers wrap at `MaxInt` where the code adds one.

`Registry` extends it: registrations by hand and by `RegisterDocuments` (`Preset` lists its registrations in
their order), which may panic, then one `Extract` call that checks its arguments, dispatches to an extractor and bounds
the source with the registry's limit or the call's own. `Reading` is a step of
`BoundedRead`, whose variables `Registry` shares, so the read, its limit and its
cancellation are those of the call; behind it `ReadFailed`, `EngineFailed` and `Extracted`
are the exits. The engines number the pages of a document, so `RegistryAssumption` takes these
numbers as distinct. What the text, Markdown, HTML and PDF extractors make of a source they have read is an operator
each (`NormalizeWhitespace`, `stripFrontMatter`, `collectText`, `Pages`), over lines of words
and blanks; an HTML tree is the sequence of nodes the walk enters and leaves,
a text node with line breaks in it a text and a break for each. The engines
behind the PDF extractor answer pages or an error here, and are modules of their own.

### Ooxml

The PPTX and DOCX extractors behind their reading of the source. An archive is a list of
named parts with a size, a state (sound, unparseable, corrupt) and what their XML refers
to. `ReadPart` is one `Read` of the capped reader, `PartEnds` the end of a part, `Charge` the hand-over
of what is left of the budget, and one action per part says what `Extract` does next;
`text` records which part each written piece was read as. The presentation and its relationships give the order (`presentationOrder`), `OrderSlides` adds the slides the
presentation does not name by number, `SlideRead`, `RelsRead` and `NotesRead` walk a slide.
The streaming decoder looks at the context before every token, the buffered one does not.
`OoxmlAssumption` keeps the names of slides and of their relationships apart from those of the
presentation, as the prefixes the code tests for do.

### PureGo

The caller's goroutine, the worker, the watchdog and the context, one action per
statement that can interleave: the select has one action per ready case, and each re-check
after it is an action of its own. `recover` is `PagePanics`; a hang is a worker without a
step.

### PdfToText

The caller, the child, `os/exec`'s copying goroutine, the deadline and the caller's
context. `CopyOut` is `capWriter.Write` with its cancellation of the derived context;
`CheckCap`, `CheckCaller`, `CheckOwn` and `CheckRun` are the four tests after `Run`, in
order, and contexts may change between them. The child and `os/exec` are external.

### StoreContract, GcsStore, MemoryStore, Stores

`StoreContract` is what package `store` promises of any implementation: a call takes effect
at one moment between its start and its return, or not at all; a result other than an
error says what happened.

`GcsStore` has concurrent callers on one bucket. `Put` is a sequence (copy block by block,
close or abort), deletion and composition are one request, `List` asks for page after page
and calls back between them; the callback goes on, gives up, or deletes what it was told
of. A request takes effect or not, and its response arrives or is lost (`RequestLost`).
`MemoryStore` is the fake behind its mutex: `Put` reads the body before it locks, `List` copies
what it will report and calls back with the mutex free.
`Get`, `GetRange` and `Exists` change nothing, so they are operators that give the set of
results.

`Stores` runs the callers over the one or the other, so that both are held against one
contract and one set of properties: what a consumer tests against the fake holds of the
adapter.

### Proof modules

`EmbedProofs`, `ChunkProofs`, `RegistryProofs`, `PureGoProofs`, `PdfToTextProofs`,
`OoxmlProofs`, `StoresProofs` and `HeadingsProofs` extend the modules they are named after;
section 5 gives their arguments.

## 3. Runs

Each `MC*` module gives the constants of its component small values.

| Run | Instance | Shows |
|---|---|---|
| `embed` | every list of up to 3 inputs of four kinds (medium, over the token limit, poison, invalid) and every list of 4 small and poison inputs; 4 configurations; each client misbehaviour; cancellation anywhere | nothing lost or doubled, vectors matched, poison isolated within the call bound, requests in limits, order, cancellation, refinement of `EmbedContract`, termination |
| `embed_torn` | same | finding 1 |
| `chunk` | every text of up to 4 byte classes, texts of up to 4 whole runes of one to four bytes, invalid ones among the short texts, fenced texts of up to 6 bytes, 14-byte prose with every mix of sentence ends and blanks at the window's end; default and custom segmenters | cover, progress, offsets, whole runes, budget, overlap, new text in each chunk |
| `chunk_budget` | same | finding 2 |
| `headings` | every text of up to 4 lines from 16 kinds of line, on both sides of each threshold | units tile the text, section starts are exactly the headings |
| `registry` | a registry wired by the preset and at most one registration by hand, in several spellings; text and Markdown of up to 4 lines, HTML of up to 3 nodes (blank texts among them), PDFs of up to 2 pages; limits 3 and 4 against sizes 0 to 4, any buffer, any split of the answer | dispatch as registered, whole or refused, at most one byte over, words, paragraphs and page numbers kept, Markdown bodies verbatim |
| `bounded_read_max` | with the largest integer as limit | finding 4 |
| `purego` | every document of up to 3 pages (text, blank, unreadable, panicking, hanging), panics on opening | whole pages, every outcome has its cause, the call and the worker end |
| `pdftotext` | a child that writes up to 6 bytes against a cap of 5, any interleaving | whole and bounded output, cap reported as cap, numbering, the call returns |
| `pdftotext_timeout` | same | finding 3 |
| `ooxml` | decks in every order of mention, with repeated names and relationships, decks with every part at fault in turn, with duplicate entries at fault and parts at fault that are not read, decks of every size around the budgets, documents, sources that are no archive; cancellation anywhere | slides in order with their notes, one budget for all parts, malformed exactly for what is read and at fault, the call returns |
| `stores` | two callers, two keys, bodies of no and of two blocks, pages of one object, listings of all keys or of one | refinement of `StoreContract` by both stores, ranges, faithful listings, `List` returns |

Why the bounds are enough for the questions asked:

* A batch of 4 is halved twice, which is the first time a pending half survives another
  bisection; 3 mixed inputs fill two batches with an item alone over the limit. The
  limits of the configurations are met exactly and overstepped.
* In `chunk` the budgets are 1 to 3 tokens (8 for long prose, so that the last quarter of
  a window holds two bytes to search), with overlaps up to the budget; the overlap is larger than, equal to and smaller than units. With
  `CharsPerToken = 1` the estimate is the rune count, so each boundary of the budget is met.
  A window ends one, two and three bytes inside a rune of four, so each walk to the start of a
  rune takes every number of steps it can.
* Four lines are a fence, a line in it, a marker that may or may not close it, and a line
  behind that; the invariant holds for each prefix, so longer texts only add repetition.
* A cap of 5 with writes of one or two bytes is reached exactly and overshot in one write.
* `MaxInt = 7` for stores and reads puts each addition on both sides of the wrap, with
  objects of up to six blocks (two composed sources, one of them composed before, or an
  empty one) well inside it.
* Two calls among two callers are enough for each pair of operations to overlap, and a List
  over two keys with pages of one object asks for a second page after the callback of the
  first has changed the bucket; the calls of callbacks are not counted.
* The budgets of `ooxml` are below, at and above the size of each deck, so each part is the
  one that meets the end of the budget in some deck.
* Three HTML nodes put a text, a break or a block between two others, with subtrees that are left
  out; four lines are two paragraphs with a run of blank lines between them, or front matter with a line of body.

`CallCap` (`Embed`) stops the call counter one past the bound its property states.
`MaxOutput` is the cap of the engine itself; `WriteCap` (`PdfToText`), `MaxLines` (`Headings`),
`MaxRegister` (`Registry`), `MaxCalls` and `SourceLists` (`Stores`), and the sets of inputs
(`InputLists`, `Documents`, `Archives`, `Sources`) bound the environment.
Deadlock is checked in every run but `stores`, where callers may stop calling; a call that
has returned stutters by an explicit `Terminated`.

### Fairness

* `Embed`: the runner is sequential code, so its enabled steps are taken; a call of the
  client returns, because the runner has no deadline of its own and leaves that to the
  client. Nobody has to cancel.
* `PureGo`: runnable goroutines run, and a started timer fires. The parser need not
  return, and nobody has to cancel. `PagesReturns` rests on the timer alone.
* `PdfToText`: goroutines run, the deadline passes, a killed process dies. The child may
  write for ever.
* `Ooxml`: sequential code, so its enabled steps are taken; nobody has to cancel.
* `Stores`: callers that have started a call go on, the service or its client library answers,
  callbacks return. Weak fairness is enough for all of that but the mutex, which another
  caller may take and give back for ever; Go's mutex hands itself to a starving waiter, which is
  strong fairness of `MemLock`.
* `Chunk`, `Headings`, `BoundedRead` and `Registry` state safety only. `Chunk` needs no
  fairness for progress: the theorem `ChunksAreFew` bounds the number of chunks by the text, and a
  step that emits none moves a loop on.

## 4. Findings

1. `embed_torn`: a response with the right number of vectors and one unknown ID passes the
   count check; the inputs before the missing one are recorded, then the whole batch is
   reported failed, those inputs included (`embed/embed.go:328`). `ReportedOnce` shows, and the
   theorem `InputsReportedOnce` proves, that only a mismatched response does this.
2. `chunk_budget`: the window of `hardSplitProse` is a number of bytes, the mean of the
   span, so a span with its one-byte runes in front gives a chunk over the budget
   (`chunk/chunk.go:270`). `FitsBudgetOneWidth` shows, and the theorem `BudgetHolds` proves, that
   spans of one rune width fit.
3. `pdftotext_timeout`: a caller's cancellation between the test of `ctx` and that of the
   derived context is reported as the engine's own timeout
   (`extract/pdf/pdftotext/pdftotext.go:144`).
4. `bounded_read_max`: `WithMaxBytes(math.MaxInt64)` makes `remaining+1` wrap and the first
   read panic (`extract/extract.go:339`). The theorem `SmallerLimitsWork` shows that every
   smaller limit works. The capped readers of the office formats add the same one
   (`extract/pptx/pptx.go:424`, `extract/docx/docx.go:187`).

One comment is narrower than the code, which the model follows. `extract/pptx/pptx.go:262` says that
`presentationOrder` "returns an error only when reading trips the decompressed budget", but
`readPart` also fails on a presentation, or on relationships of it, that cannot be opened or
decompressed (`extract/pptx/pptx.go:309` and `318`), and the deck is refused although the order
of its file names would do, as it does for a presentation that is absent or does not parse.
`MalformedHasCause` has this as a cause of its own (`Unreadable`), checked on decks with either part
corrupt and proved for all (`MalformedAlwaysHasCause`).

## 5. Proofs

`RegistryProofs` begins with the read alone (`BoundedRead`): for every integer width, limit, source and
buffer size it keeps its types, is never truncated, and takes at most one byte past the limit.
The inductive invariant is `TypeOK`, `NeverTruncated` and `Accounts`: what was taken and what is
left of the allowance add up to the limit. `NeverTruncated` alone is not inductive, since it
says nothing of the allowance from which the outcome is decided.

Behind that come the calls of `Registry`, for every preset, registry, source and limit:

* `CallsNeverTruncate`, `CallsKeepLimit`: `CallInv` says that a call starts a read of its own, with the
  limit of the registry or its own one, so the invariant of the read is one of the call.
* `DispatchKept`: `DispatchInv` says that the map of extractors is what the history of registrations
  makes of it, each key written by the last registration of one of its spellings; a panic on the way
  leaves the registrations before it.
* `BodiesKept` and `ProseAlwaysKept` (of `TextsKept`, `PageTextsKept` and `HtmlPagesKept`): `KeptInv` says that the artifacts are those candidates
  of the extractor that are not blank. What remains is about the operators, and is proved by counting:
  the place of a line in the result is its *rank* among the lines that last (`Rank`, `Nth`), so that
  no induction over the lines is needed. `OneBlank` says that between two lasting paragraphs one
  blank line lasts, and `Counting` that ranks have no gaps. For HTML `WalkWritesPage` shows that the walk
  writes the page `PageLines` gives by counting breaks: the two agree after each event (`PageSteps`), so
  there is no first event after which they differ.

`EmbedProofs` proves for every list of inputs, configuration and client behaviour that
types are kept, no input is lost (`InputsNeverLost`), none is reported twice
(`InputsReportedOnce`), vectors are never swapped (`VectorsNeverSwapped`), and every
behaviour is one of `EmbedContract` (`RunImplementsContract`). The inductive invariant
`IInv` adds to the types and `ReportedOnce`:

* `CutsInv`: the ends of the pending parts lie between what is settled and the ends of the
  waiting batches, and these reach to the last valid input, so no input falls between two
  parts or behind the last batch;
* `PackInv`: while packing, the last batch ends where the open one begins, and the open one
  is not empty;
* `ValidInv`: `valid` is ascending and is exactly the well-formed inputs validated so far;
* `AccountInv`: of the valid inputs the first `done` are in records or failures and the
  others in neither; an invalid input is in a failure as soon as it was validated and never
  in a record.

The properties are not inductive alone: that no half is dropped depends on where the
pending parts end, and that none is done twice on `done` separating what is settled.
Each part has its step lemma; `SettlingFacts` and `SettlingAccounts` say once what the three ways
of settling a part have in common, and the refinement theorem maps each of them to
`Settle` and every other step to a stutter or `Return`. `CancellationHonoured` needs no
invariant: it goes through the actions.

On the same invariant rests what halving costs and finds:

* `CallsStayBounded`: the calls for a batch form a binary tree whose leaves are the parts
  settled and those still owed. `CallsInv` counts them: at most two for each input behind the
  cursor and one for each cut, and the cuts are no more than the inputs in front of it.
* `PoisonAlwaysIsolated`: with a client that fails for poison only, `PoisonInv` says that no
  poison has a record, that a well-formed input fails only as poison and alone, and that
  the reply at hand is a whole answer or is due to poison. A whole answer has as many IDs as the part
  has inputs (`AskedSize`), so it is never refused.
* `RequestsKeepLimits`: `LimitsInv` says that every stretch of inputs within one packed batch fits both limits
  (`AllFit`), an item over the limit alone, and that the running total of the open batch is no less than the
  tokens in it. A part that halving makes is such a stretch.
* `ResultAlwaysOrdered`: `ResultInv` says that a run that is done returns what `assemble` gathers, and
  that a failure is placed at one of its own inputs; gathering by position (`InOrder`) keeps the order of the inputs.

`ChunkProofs` proves every safety property of `Chunk`, for every source, segmenter, budget and overlap,
with the default estimator and any `CharsPerToken`. All rest on `IInv`: the loops that run are nested (`Nested`), each over the span
that the loop around it gave away last, so its spans fill that span; every chunk so far is a
piece of the text cut at rune ends (`Made`), starts before the innermost loop resumes, and ends no later than the
next chunk of that loop will (`Behind`). The last is what carries progress across a
hand-over: the window of the prose splitter may overlap far back, and still the next chunk of
the loop outside ends no earlier. Below it lie lemmas on sums of tokens (`SumSteps`,
`SumShrinks`), on the tilings by paragraphs, lines and fences (`TilesFill`, `GroupsFill`), and on
where the prose window ends and starts again (`ProseAdvances`, `ProseGoesOn`).

* `ChunksAdvance`, `ChunksAreFew`: chunks advance, so there are no more of them than bytes, and the cap on
  their number in the guards of the model never binds.
* `SpansMatch` reads the text of a chunk off `Made`.
* `NoRuneIsCut`: in valid UTF-8 of any rune widths an offset that is no continuation byte cuts no rune
  (`AlignedClean`), so both snaps stop between two runes, and so does the decoding of one rune
  (`NextClean`). What lies between two such offsets is valid UTF-8 (`ValidStretch`) and has a rune for
  each of them in it (`StretchRunes`), which is what the theorems about budgets count with.
* `TextIsCovered`: `JoinedInv` says that the chunks so far leave no gap and reach at least to where the
  innermost loop resumes.
* `EachChunkAdds`: `FreshInv` says that with room for a unit behind the overlap no splitter runs, and
  what the loop over units packs next ends behind every chunk. It needs no contiguous units.
* `OverlapIsBounded`: `SeamInv` says where a loop resumes after a packed chunk. The walk back adds
  up estimates that are each rounded up, and the shared text is estimated once: rounding up is
  subadditive, so the one is no more than the other.
* `BudgetHolds`: with one rune width the mean of bytes per rune of a span is exact, so a window of
  that many bytes holds no more runes than the budget; a chunk of packed units adds up rounded
  estimates, which only overstates it.

`PureGoProofs` proves for documents of every length and every interleaving that pages are
whole or absent (`PagesNeverPartial`) and that every outcome has its cause, a limit that
was reached before the select beating the result (`OutcomesHaveCauses`). The invariant says
what the worker knows of the pages behind it (`Collected`), that each result, wherever it is between
worker and caller, says what is so (`Justified`), and that a limit reached before the select
is still there for the check behind it (`Limits`).

`PdfToTextProofs` proves for every cap, child and interleaving that pages are returned only
for the whole output of a child that succeeded (`OutputNeverCut`) and that the cap's own
cancellation is reported as the cap (`CapNeverMistaken`). The invariant `Flow` says that
the buffer is the front of what was written, and that while the copying goroutine runs the
writes in the pipe are the rest of it: `Cuts` names where each write ends in the output, so that a
copied write fits behind the buffer without summing lengths. `Stages` says what the child
and the copying have come to at each place of the caller. `PagesKeepPlaces` is about `splitPages`: a page's
number is one more than the form feeds in front of it, blank pages counted, and all text lies on
some page. The pages are counted by the ranks of the form feeds, and the page `p` lies between
two of them (`BlockStart`, `BlockEnd`).

`OoxmlProofs` proves that all parts of an archive together decompress to at most one byte more
than the budget (`BudgetNeverExceeded`), for every number and size of parts: what was taken
and what the reader of a part, or the decoder between two parts, may still take add up to the
budget (`Account`). Three more theorems are about which parts those are:

* `DecksInOrder`: the order of the slides is a fact about `resolveOrder` alone (`SlidesOrdered`): it
  lists each slide part that is mentioned or numbered once, in the order of the first mentions and then by
  number. The places of the slides are again ranks, among the names known and the first entries of a name.
  `Walk` says where `Extract` stands in the deck, and `Deck` that the slides written so far and those
  ahead (`Arranged`) are that order, with the notes of each slide right behind it (`NotesFollow`).
* `BudgetAlwaysShared`: `SpentInv` says that what was taken is the sum over the parts written plus
  what was read of the part that is open. A sum over a sequence is a function with a recursive
  equation; that two such functions agree follows from their least disagreement.
* `MalformedAlwaysHasCause`: `CauseStep` goes through the exits; the part at fault is found at the
  place `Walk` gives. That no archive with such a part passes rests on `Held`: what was read so far
  was sound, the slides written and those ahead are the ones the deck names, and each was followed by
  relationships and notes without fault (`DeckPasses`, `DocumentPasses`).

`StoresProofs` proves that the adapter and the in-memory store implement `StoreContract`
(`StoresImplementContract`), for every number of callers, keys and bodies and with every failure of
the two models. The invariant `Caller` says of each caller that it has a call where one runs,
that the store's decision is made once and kept until the call returns, and that what
the service commits is the body that was put. `StartSound`, `ServeSound`, `ReturnSound` and
`QuietSound` map the kinds of step to `Invoke`, `Serve`, `Respond` and a stutter; the actions of the two
stores are cases of them.

`ReadsKeepContract` rests on an invariant about sizes: no object callers can bring about is larger than
the largest integer (the compositions of both stores are bounded by it), so that
the wrap of `offset + length - 1` in the adapter, and of the sum in the fake, are compared
with the range of the contract by cases. Offsets and lengths are all of the integer type: a negative
length reads to the end, and a negative offset is an error before anything is asked of the store. `ListsAreFaithful` follows what a listing has told, the
page at hand and whether more is to come: told and page ascend and were seen in the store, and a
key that was stored all the time is among them or behind them (`Complete`). A callback may delete
what it was told of, and other callers anything, between two pages.

`HeadingsProofs` proves for texts of every length that the units tile the text
(`UnitsAlwaysTile`) and that sections start at exactly the headings outside fenced code
(`StartsAlwaysHeadings`). The first rests on the starts ascending: while a paragraph runs they lie
before its last line, which is where a setext heading will point back to. It also shows
(`AppendStart`) that the guard of `appendStart` never drops anything. Paragraphs need that a finite set of
numbers can be counted off (`Ranks`), by pigeonhole. For the second, `HeadInv` says that the flag, the
marker and the line the pass keeps are what recursive functions over the whole text say. That
these functions exist, and do not change when a line is added, is proved line by line along
with the run (`CodeAppend`, `CodePrefix`), instead of by an induction over texts.

The proofs assume only the named `ASSUME`s of the modules, which TLC evaluates in each run.

Every safety property that a passing run checks is a theorem. Only model-checked are the liveness
properties (`RunReturns`, both `PagesReturns`, `WorkerEnds`, `ExtractReturns`, `ListReturns`), which are
out of the prover's reach, and that the code violates what the runs of section 4 state.

## 6. Not modelled

* XML, HTML and PDF parsing: a part, a page or a tree is what the parser makes of it. The
  HTML parser's own error is left out, since it does not raise one for a source in memory.
* Media type syntax: which spellings are one media type is a constant.
* `SupportedMediaTypes`, `TextArtifacts` and `SingleTextArtifact` filter a list.
* The text of errors and logs, metadata, hashes, content types and encodings, `Created` times,
  the capture of standard error, tokenisation beyond the default estimate.
* Client construction and `Close` of the Cloud Storage adapter, which only pass calls on; retries
  inside the SDK, and a request that takes effect after its caller was told of an error.
* `testcms/embedder.go`, a test double that is a special case of the client of `Embed`; `content`,
  which has no state and no order of operations; `doc.go`.

Per component, with the reason: `PROJECT.json`.

## 7. Plan

Done, in this order of importance: `EmbedContract` and `Embed` with proofs; `Chunk`; the
two engines with proofs; `BoundedRead` with proofs; the two stores against `StoreContract`;
`Ooxml` with proofs; `Registry` with the extractors; `Headings` with proofs; the refinement of
`StoreContract` by the stores as a theorem; `ChunkProofs`; reads and listings of the stores as theorems;
the requests and results of `Embed`, the pages of `PdfToText`, the calls of `Registry` and the decks of
`Ooxml` as theorems.

Left:

1. `Headings` composed with `Chunk`: sections as units, and whole code blocks in a chunk.
