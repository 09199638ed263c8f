# Verification of libpathime

libpathime puts one C interface (`include/pathime/pathime.h`) in front of several
input method engines: Hangul (libhangul), Japanese (anthy), Pinyin and Bopomofo
(pyzy) and table-driven methods (its own).  This directory holds TLA+ models of
the library, of the compiler of its tables and of the demo client, the TLC
configurations that check them, and proofs, checked by TLAPS, of what matters
most.

The library is synchronous and single-threaded.  Nothing in it runs on its own:
every step is one API call, finished, callbacks included, before the next one
begins.  What is hard is therefore not interleaving of threads but *sequences of
calls*: the client edits its document between two calls, moves its caret,
refreshes its account of the surrounding text late or never, changes an option
halfway through a word, or an adapter fails partway, and the next call works from
what it remembers.  The models put the client and its document in the system for
this reason.

## 1. Inventory

| component | state it keeps | operations | talks to | what makes it correct |
|---|---|---|---|---|
| init and lifetime (`init.cc`) | one global flag and directories, which engines are available | init, shutdown | every entry point asks `initialized()` | engines that fail to start are unavailable, the rest work; what users taught is saved, in its own profile |
| engine registry (`engine.cc`) | an engine's backend, its options, its contexts | create, destroy, requirements | options, contexts | it lists every live context once and nothing else |
| context layer (`context.cc`, `context.h`) | composition model, published flat value, per-call output, snapshot, indeterminate flag | process_key, commit, reset, set_surrounding_text, create, destroy | adapter (`backend.h`), client callbacks | ordered dispatch, no change unannounced, deletions only of visible text, recovery |
| composition model (`composition.*`) | settled, active and tail spans, candidates, cursor | project, clear | adapters write it, context publishes it | flat value is the projection of the model |
| candidates (`candidates.cc`) | none of its own | materialize, candidate, set_cursor, select | adapters, refresh | list within the cap, cursor on the list |
| options (`options.cc`) | a sparse store per engine and per context | set, reset, isolate, getters, inventory | table data (tier 3), adapters, contexts | late resolution reaches exactly the contexts concerned; the inventory never offers what a setter refuses |
| Hangul adapter (`engines/hangul`) | libhangul context, `in_document_` | key, commit, reset | libhangul, snapshot view | no syllable lost, doubled, reordered; only its own text deleted |
| Anthy adapter, romaji composer (`engines/anthy`) | reading, segments, chosen candidates | key, hover, select, commit, reset | anthy | conversion never changes text nobody chose |
| PyZy adapter, observer (`engines/pyzy`) | vendor context, what it raised and told | key, hover, select, commit, reset | pyzy's callbacks during a call | every letter delivered once; the list is the one a selection answers from |
| punctuation (`punctuation.*`) | alternation of quotation marks, a digit just typed | emit, note, observe | both Chinese adapters, snapshot | what is remembered is what the document shows |
| table adapter (`engines/table/table_backend.cc`) | run, tail, staged segments, matches, cursor | key, select, hover, commit, reset | table data, other contexts through it | keys, list and phrase stay in step; only choices are learned |
| table data (`table_db`, `table_properties`, `table_source`, `ranking`, `variants`, `coverage`) | one table and its user rows | open, look up, record; parse, transform, write | SQLite | a table opens whole or not at all, as its compiler decided |
| table compiler (`tools/table-compile`) | a source and a file half written | compile | `table_source`, `table_db` | no code is lost on the way |
| keys, utf8 (`keys.cc`, `utf8.cc`) | none | pure functions | all | what is typed and delivered is what was meant |
| demo client (`demo/src`) | document, pages, panes, one context per engine | keys, pages, engine switch, paste, settings | the public API alone | it honours what the header asks of a client |
| paths, generated data, demo terminal, cmake, tests | – | – | – | – |

How they interact.  A client call enters `context.cc`, clears the per-call
`Output`, hands the adapter its key with read access to resolved options and to
the snapshot, and ends in `refresh_composition`: materialize the candidates,
project the model, compare with what was published, then dispatch
`delete_surrounding_text`, `commit_text` and `composition_changed`, in this order.
An option set ends in `commit_change`, which does the same for one context or for
every context of an engine that inherits the option.  The two Chinese adapters
share the punctuation layer, the contexts of a table engine share its tables and
what was learned in them, and those of anthy share a record.

Behaviours that are hard to test are listed, each at its line, in `PROJECT.json`
under `hazards`; the properties below are aimed at them.

## 2. Modules

| module | models | from |
|---|---|---|
| `Composition` | the data: model, output, flat value, snapshot, projection, range test | `composition.*`, `context.h` |
| `ContextCore` | one context and its client: state, refresh and dispatch, snapshot, client's document | `context.cc`, `candidates.cc` |
| `Context` | the context layer over an *arbitrary* adapter, failures included | `context.cc`, `candidates.cc`, `backend.h` |
| `Hangul` | the Hangul adapter over `ContextCore`, libhangul external | `hangul_backend.cc` |
| `VisibleText` | abstract: one line of text, its open end, what may become of it | – |
| `Romaji` | the Japanese front end: what is resolved, what is pending, three ways to read the two, three scripts and the styles | `romaji.*` |
| `RomajiTyping` | someone typing into it, by either method, against a reference reading | `romaji.cc` |
| `Anthy` | the Japanese adapter over `ContextCore` and `Romaji`, anthy external | `anthy_backend.cc` |
| `Punctuation` | what one key becomes, and what is remembered of the document | `punctuation.*` |
| `PunctuatedContext` | a context whose adapter keeps that memory | – |
| `Pyzy` | the pinyin and bopomofo adapter and its observer, PyZy external | `pyzy_backend.cc`, `observer.cc` |
| `Keystrokes` | abstract: letters typed, still pending or in the document | – |
| `TableData` | what a loaded table answers, and what it remembers | `table_db.cc`, `table_properties.*`, `ranking.cc`, `variants.cc` |
| `TableInput` | the table adapter over `TableData` and `Punctuation` | `table_backend.cc` |
| `TableSource` | from a table's source to the table the engine opens | `table_source.cc`, `main.cc`, `table_db.cc`, `coverage.cc` |
| `Options` | two-level store, four-tier resolution, broadcast, contexts coming and going | `options.cc`, `context.cc` |
| `OptionCatalog` | the whole inventory, the checks of a call and of a value, the queries | `options.cc` |
| `Lifetime` | library, engines and contexts of a process; what is learned, where | `init.cc`, `engine.cc`, `context.cc`, the backends' hooks |
| `Utf8`, `Keys` | text and key events at the boundary | `utf8.cc`, `keys.cc` |
| `DemoText`, `DemoPanel`, `Demo` | the demo's walk over text, its settings page, and the program | `demo/src` |
| `*Properties` | what a module of that name must get right (`Options`, `Lifetime` and `TableSource` state it themselves) | – |
| `ContextProofs` | induction, lemmas on texts and on `Refresh` | – |
| `HangulProofs` | theorems of `Hangul`, and that it implements `VisibleText` | – |
| `LayerProofs`, `OptionsProofs`, `PyzyProofs`, `AnthyProofs` | theorems of `Context`, `Options`, `Pyzy`, and of `Anthy` and `RomajiTyping` | – |
| `ClientProofs` | theorems of `Lifetime` and of `Demo`, of `Utf8` and `Keys` under both, and of `DemoPanel` over `OptionCatalog` | – |
| `TableProofs` | theorems of `TableInput`, of the ranking in `TableData` and of `TableSource` | – |
| `MC*` | small instances | – |

`Hangul`, `Anthy` and `Context` extend `ContextCore`, and so, by way of
`PunctuatedContext`, do `Pyzy` and `TableInput`: four put a concrete adapter
behind the seam, `Context` anything `backend.h` allows.  `Demo` stands on the
other side of the interface.

### Correspondence

*Text* is a sequence of Unicode scalars, the counts in the interface being scalar
counts; bytes are modelled in `Utf8`, and where the code compares the sizes of two
strings (`TableData.Size`).  `Output.count = 0` stands for "no
deletion requested", which the dispatch treats alike.

`ContextCore.Refresh(m, out, force)` is `refresh_composition` with the model the
adapter left, the output it produced and the `force` argument.  The variable
`calls` records the callbacks of the last call, so properties can speak of order
and content.  The client applies them to its document (`before`, `after`) the
moment they run.  `owed` is the promise in `pathime_context_process_key`: an
unhandled key is the client's, and it acts on it before it calls again.

`Hangul` has one action per way through `process_key`: a key libhangul takes, one
it declines, a chord or non-ASCII key, and three kinds of Backspace; then commit,
reset, a change of `PATHIME_OPT_HANGUL_PREEDIT`, and the client's own steps.
Every key starts with `prepare_revision` (operators `Revisable`, `Pending`,
`Entering`).  libhangul is known by what it reports: it may finish any of
`Finished` and be assembling any of `Preedits`.  This includes every layout and
boolean option, which only change *what* it reports.  One constraint is the
code's own, measured by its authors (comment at `hangul_backend.cc:338`): a flush
returns the preedit string.

`Context` keeps the adapter free: on a key it may put any text in the spans,
commit any, keep or replace its list.  It may fail in a hover or a selection.
The client resets after a failure, as the Status section of the header says.
The reset that follows a failure is announced by force; the model shows this to be
a second line of defence, since calls only fail over a list of candidates, and
clearing one is announced in any case.
Not in this module: deletions (Hangul's alone) and argument checks.

`Romaji` takes the romaji, symbol, script and style tables as constants.
`Resolve` is the loop of `RomajiComposer::step`, its six branches in their order,
as a recursive function on the run of Latin at hand.  `TableAssumption` states the
facts of the real table (233 rows) that the resolver leans on: short of its end no
spelling holds a symbol, a spelling, a doubled consonant or a finished n, wherever that
would begin; and every consonant that doubles starts some spelling, as does n.
`RomajiTyping` adds kana entry (`InsertKana`) and the options that choose method, script
and style, and carries what was typed so that it can be read again in one go.
`MarkAssumption` and `WidthAssumption` are facts of the kana tables: a marked kana is
made in one way, is on no key and takes no mark, whatever the keys make has a half-width
form, and no style makes that wide again.  All of these were compared with the tables in
`romaji.cc`, row by row.

`Anthy` works on a *call in progress*: a record of what the adapter holds
(`Enter`), which helpers named after the adapter's own map to what they leave,
and which `Leave` materializes, publishes and dispatches.  `Pyzy`, `TableInput`
and `Demo` are written the same way.  Two facts make its
states: `conv.count > 0` (anthy holds a conversion) and `conv.asked`
(`converting_`); held and not asked for is the code's *eager* state.  There is
one action per key branch, while typing and while converting, and one per other
entry point.  Segments count from 1 and `listed = 0` stands for -1.
anthy is known by `Analyse(reading, record)`: segments, each with its reading and
ranked candidates.  `lessons` is what `anthy_commit_segment` was told
in the last call.  A choice made among eager candidates is told in a context of
its own and counted as segment 0.  A *situation* is the program around the
context: which options change and when, whether another context may change
anthy's process-wide record (`TaughtElsewhere`), whether any answer of anthy may
fail.  That a failed `anthy_set_string` has already dropped the old segments is
what the comment in `cancel_conversion` says of it.

`Pyzy` makes the observer explicit: `raised` is what PyZy reported in the middle
of the call, `told` the text it delivered, and `Harvest` is `harvest()` reading
both once.  PyZy holds the keys (`input`), how many its selections consumed
(`used`), and is known by `Spelling` and `Conversions`; at an edit it may keep or
drop its selections (`Enter(keep)`).  Options are pulled at the start of each call
(`ApplyOptions`), never kept.

`Punctuation` is three booleans: whether the next quotation mark of either kind
opens, and whether the text before the caret ends in a digit.  An operator maps
what is remembered to what is remembered afterwards; `ObserveDocument` corrects
it from the snapshot.  The mark tables are constants; of their contents
`PunctuationAssumption` says that no entry, nor any full-width form, is a digit or one of
the four quotation marks.

`TableInput` separates the run that matches (`valid`), the tail that does not
(`invalid`) and the staged `segments`, each phrase with its keys.  The tables
given by `Database` are shared; `users` is what was learned in each, in the order
`record_selection` wrote it, and another context may add to it at any time
(`LearnElsewhere`): a choice of a list it was offered, under options of its own, for
the run it typed (`Runs`), which need not be the whole of a code.  `TableData` gives `Lookup`, `RankCandidates`,
`RecordSelection`, and LIKE with its escapes, on sequences of keys.  The sort is
modelled by its result: `Ahead` is the comparison it is given, made total by the
position as the code's `SortKey.index` does, and `Sorted` puts each candidate behind
as many as come ahead of it.

`TableSource` is a program that reads lines (`BeginSection`, `EndSection`, `Content`,
`EndOfFile`), transforms what it read (`Prepare`, in `main`'s order), and writes a file
in two steps (`Create`, `CommitTable`), before either of which it may fail or be
killed.  `Reopened` is `TableDatabase::open` over what is on disk.  Its behaviour is
`CompilerSpec`, named apart from the adapter's `Spec` because `TableProofs` is about
both.  Of the constants of both modules, `TableDataAssumption` and
`TableSourceAssumption` say what `table_db.cc` and `table_source.cc` spell out: `%` and
`_` are two characters and none of the escapes, the default alphabet is letters and so
no punctuation, and a comma is not a quote.

`Options` has one option of each kind the store tells apart: one capped by a
capability and one plain (Hangul), one that resets the composition and keys tier
3, and one a table declares and is asked about (table).  The variable `engine`,
chosen at the start, says which exist.  `applied` is a history variable: the values an adapter
was last given the moment to follow.  `OptionCatalog` has the whole inventory as
rows and the checks `get`, `set_number` and `set_string` make, in their order; it
has no state of its own and is exercised by the demo's settings page.

`Lifetime` has the library's flag, the readiness of each backend and the flag and
directories the backends keep for the process (`own`).  An engine's registry is
how often each context stands in it: its order, which decides only the order of a
broadcast, is left out.  `taught` is the history of what users taught under which
profile.  `Crash` is a process that ends with the library up.

`Demo` puts one simplified context per engine behind the program: it composes,
offers candidates up to a cap, and may produce text and have some deleted.  What
such a context answers to one key is nondeterministic, the adapters being modelled
elsewhere; what the program does with the answer is the code's.  An engine may fail
to hover (`fails`): the program has then turned the page already and returns.
`deletion` records what was asked to be deleted and what was.

Definitions marked "Mutation:" are plausible wrong versions of the definition
that follows them.  Nothing uses them; they exist to show that each property
notices the mistake (`PROJECT.json`, `mutants`).

## 3. Runs

| run | what it asks | result | states |
|---|---|---|---|
| `Hangul` | three modes, option changed between compositions or from "syllable" to "word" in one, client ends a composition before moving the caret | holds | 250,529 |
| `HangulSwitch` | option changed from "none" to "syllable" mid-syllable | `CommitDeliversPreedit` violated | |
| `Context` | arbitrary adapter, failures, moving cap | holds | 117,824 |
| `Options` | table engine with three contexts, Hangul engine with two contexts and four kinds of client | holds | 136,806 (symmetry) |
| `Romaji` | romaji and kana entry, three scripts, styles, letters taken back anywhere | holds | 316,214 |
| `Anthy` | anthy alone and answering, or failing and taught elsewhere | holds | 119,040 |
| `Pyzy` | pinyin in two schemes, bopomofo, options at any time, document edited | holds | 152,369 |
| `Table` | two tables, six settings, another context teaching | holds | 156,751 |
| `TableAutoSelect` | the same, the key that breaks a match | `AutoSelectHonoursHighlight` violated | |
| `TableSource` | every source of a few lines, compiled, interrupted, opened | holds | 495,282 |
| `Lifetime` | two profiles, starts, stops and crashes, files that come and go | holds | 1,117,664 (symmetry) |
| `Demo` | the demo over two engines; every boundary of the encoding, every key, every option | holds | 130,832 |

What to read first in each:

* `Hangul`: `KeepsTheLine` (the adapter implements `VisibleText`: what stands left
  of the open syllable is never rewritten, reordered or lost, in any mode) and
  `DeletesOnlyItsSyllable`.  `VisibleText` lets a step add text, so by itself it
  does not exclude a syllable delivered twice; `EndsAsShown` does: where a
  composition ends, the document reads exactly as the line did.
* `Anthy`: `ReadingSurvives` (converting, browsing, selecting, walking back and
  changing options neither lose a kana nor move one); `SelectDeliversShown` and
  `EndDeliversPreedit` (what is settled or committed is what was on screen);
  `TaughtWhatWasCommitted` (anthy is told of each segment once, and what it was
  told adds up to the text committed).
* `Pyzy`: `KeepsKeystrokes` (the adapter implements `Keystrokes`: every letter is
  pending or delivered, once and in order, through selections that consume part of
  the input and the commits PyZy makes in the middle of a call);
  `RemembersDeliveries` (the punctuation memory is the document's).
* `Table`: `ListAnswersRun`, `HighlightIsDelivered` (converting delivers the
  candidate highlighted, selecting at an index the one the client sees there) and
  `LearnsTheChosen`, which hold although another context changes the database under
  the list shown.
* `TableSource`: `OpensWhole` (no file left by a failure or a kill opens as half a
  table) and `CodesStayTypable` (what the compiler strips and derives costs no
  code that could be typed).
* `Lifetime`: `LearningIsKept`, `ProfilesApart`.
* `Demo`: `DeletesWhatWasAsked` (a deletion the library asks for against one
  document is made in that text or declined), `PanelStaysLegal` (the settings page
  knows only the inventory, and no value it sends is refused).  `HoverIsOnPage` holds
  with an exception it states: `page_forward` and `page_back` turn the page before they
  hover (`app.cc:619-635`), and `move_cursor_to` returns on any failure
  (`app.cc:690-696`), so where an engine fails to hover the highlight stays on the page
  left, until the next key.
* `Romaji`: `ResolvesLikeWhole`.  `Options`: `AdaptersUpToDate`.

### Bounds, and why they suffice

* `MCHangul`: two scalars, syllables of one and of two scalars, one finished
  text, and no typing beyond three scalars in view (`MaxText`).  Two-scalar
  syllables are what distinguishes counting scalars from counting syllables;
  three scalars allow a held word of two syllables with a third begun, or a
  written syllable with text on each side of it.  Of the changes of the option in the
  middle of a syllable the passing run makes the one that loses nothing
  (`SwitchMidway`), `HangulSwitch` the one its finding is about.
* `MCContext`: spans of at most one scalar, lists of zero, two and three entries,
  caps 1 to 3, so every cap both truncates and does not.  A document of one scalar
  suffices: no action reads it.
* `MCRomaji`: a table with every shape of row (one to three letters, shared starts,
  both spellings of the syllabic n), two consonants that double, symbols in either
  style; a kana keyboard with a kana that takes one mark, one that takes both, and
  the marks, each with its half-width form of one scalar or two.
  Four keys between two backspaces cover the longest row and a dead end before and
  behind it.
* `MCAnthy`: a vowel, the letter n and the full stop; anthy keeps up to two kana to
  the first segment, so three kana make two segments and re-analysing a remainder
  moves boundaries; two candidates a segment, in the two orders a record can
  give them.  In the situation `Quiet`, three scalars of preedit, caps 1 and 2; in
  `Troubled`, two, which still make two segments.
  The client takes its document away before more is typed (`Room`, `Send`): the
  adapter never looks at the document, so only what one composition delivers
  matters.  A client changes the options of `midway` at any time, raises the cap at
  any time, and changes the others between compositions.
* `MCPyzy`: two letters, of which one converts alone, both convert together in two
  forms, and one does not convert; PyZy's capacity is two keys, so that it is
  reached and a partial selection leaves one key.  Three settings cover both
  schemes, both forms, both widths and a cap that truncates.  More is typed only
  after an empty document, a digit or an opening quotation mark: the three things
  the punctuation layer tells apart.
* `MCTable`: a Chinese table whose longest code is two keys, with prompts, a
  phrase of two characters and one that may not be checked; and a Latin table with a wildcard,
  a rule that cuts at one key and two rows of one code.  A run of four keys stages one segment and
  leaves a tail; two lessons let a second choice of the same phrase differ from the
  first.  The six settings turn each option both ways, one of them with no table and
  one that differs from the plainest in automatic commits and a cap of one alone, so that a phrase can
  be staged under one setting and delivered under another that admits fewer.
* `MCTableSource`: declarations of a letter, punctuation LIKE gives a meaning, the
  quote of a prompt literal and the key that may become a wildcard; up to three
  fields, two rows and one note, in any order and any section, ended or not.  Two
  settings of the compiler, and a file that may stand at its output.  Deadlock is
  not checked in this run alone: the compiler ends.
* `MCOptions`: two tables (with and without pinyin data) and three contexts, so
  that at once one may override, one inherit and one compose; for the Hangul
  engine two contexts, whose clients differ.  Contexts are interchangeable, which
  justifies the symmetry.  Only safety properties are checked under it.
* `MCLifetime`: two engine handles, two contexts, two profiles, one word to learn
  and at most two lessons remembered: enough for one word learned by two engines or
  under two profiles, for a second context on one engine, and for a handle used
  again.  Handles are only names, which justifies the symmetry.
* `MCDemo`: two engines, one that previews candidates and one that revises what it
  committed; documents of up to two characters of one and of two bytes, so that
  positions and offsets differ; pages of two, three candidates offered, a cap of
  two that grows by one page and moves by one on the settings page.  The encoding
  is checked for the first and last scalar of each length and for texts of up to
  four bytes around every limit the decoder tests; keys and options in full.

### Fairness

None is assumed and no liveness is claimed.  No thread, timer or queue of the
library is waiting to be scheduled: each call runs to its end, and whether there
is another is the client's choice.  What would be liveness elsewhere, that the
client is told of every change, that what was learned is saved, is here a property
of each call or each state (`ClientUpToDate`, `LearningIsKept`).

### Findings

1. **A syllable is lost** (`HangulSwitch`, `hangul_backend.cc:348`).  In mode
   "none" a syllable is typed, which the adapter puts in the document
   (`in_document_`); the option changes to "syllable"; the client tells the library of
   its document, as it does before each key; the next key puts the growing syllable in
   the preedit and leaves `in_document_` as it was; `pathime_context_commit` takes the
   old written text for the new one, clears the preedit and delivers nothing.
   The run allows no other change in mid-syllable, so this is its one way.  The
   same line does it from "word" to "none": with a word held in `settled` and the next
   syllable written to the document, a commit leaves the word in the preedit of a
   context that composes nothing.
2. **The highlight is not honoured** (`TableAutoSelect`, `table_backend.cc:660`).
   The client moves the highlight and types a key that breaks the match.  By the
   time the adapter commits "the candidate under the cursor" it has looked the run
   up twice, which set the cursor to the first.

The passing `Hangul` run excludes 1 by the value of `SwitchMidway`.  No passing run
states what 2 violates.

### Observations

Cases met while modelling that the passing runs leave out, by the constant or premise named,
with what happens without it:

* *Foreign text deleted* (`CaretByPreedit`, `context.cc:605`).  In "none" mode there
  is no preedit to see.  A client that takes this for "nothing composing", moves the
  caret and refreshes its snapshot has the text there deleted: the range test asks
  whether there is enough text, not whether it is the syllable.
* *Order* (`SwitchMidway`, `hangul_backend.cc:304`).  From "word" to "syllable"
  mid-word, the next finished syllable is committed before the word still held in
  `settled`.
* *Another script is committed than shown* (`midway`, `anthy_backend.cc:744`).  A
  change of the kana script while typing leaves the preedit as it was; the commit
  projects anew.
* *Highlight and preview part* (`midway`, `candidates.cc:107`).  Lowering the cap
  during a conversion resets the core's cursor; the adapter keeps its chosen
  candidate and the previewed text.
* *A stale list* (`others`, `anthy_backend.cc:305`).  The comment at
  `anthy_backend.cc:357` takes anthy's record to be unchanged between the eager run
  and the conversion; another context may have changed it, and the list kept from
  the eager state then names other candidates than the ones selected.  In
  `Troubled`, where others do teach anthy, `HighlightIsPreview` and
  `SelectDeliversShown` are therefore not asked.
* *The demo's one snapshot* (the premise of `DeletesWhatWasAsked`; `app.cc`).  The
  demo keeps one snapshot for all its contexts.  With surrounding text off and the
  engine switched, the deletion another context asks for against its older snapshot
  is framed by the wrong one, and may hit other text instead of being declined.
  Pasted text that is not UTF-8, which the library would refuse as surrounding text
  after the demo had taken it for its snapshot, is no text of `Pasted`.

Others, which the models contain or reach without a property about them:

* Of options.  The header promises `composition_changed` to every context that
  inherits an engine-level change; for an option that resets, a context with
  nothing composed is told nothing (`options.cc:744`).  The pinyin fallback is
  accepted where a table has pinyin data (`options.cc:824`) and read by no adapter.
* Of Japanese.  A sentence end typed during a conversion never consults
  `PATHIME_OPT_ANTHY_ON_PERIOD` (`anthy_backend.cc:1024`; `TypeKeyAfter`).  If anthy
  fails just as conversion is asked for over eager candidates, they stay listed
  although none can be selected; selecting one fails the call, and the reset that
  must follow discards the kana (`anthy_backend.cc:345`).  Under half-width katakana
  the symbol style has no effect: the script turns brackets and the solidus
  half-width before the styles, which know only the full-width forms, see them
  (`romaji.cc:836`).
* Of tables.  A phrase chosen by completion is learned under the keys typed, and
  appears twice from then on.  The single-character filter runs after the candidate
  cap, so it can empty a list that had more.  A tail resets the highlight.  A table
  that failed to load stays absent for its engine's life (`Load`).
* Of the table compiler.  A source without declarations compiles to a file that
  `open()` refuses.  Prompt literals escape no quotes (hence the condition in
  `ReopensAsPrepared`).  A row of several keys kept for its punctuation may be
  dropped by the coverage filter.  A key `START_CHARS` grants and `VALID_INPUT_CHARS`
  does not becomes a wildcard where it leads (`is_wildcard_at`), so a code that begins
  with it finds rows of other codes too (hence the condition in `CodesStayTypable`).

## 4. Proofs

| module | theorem | property | assumes |
|---|---|---|---|
| `HangulProofs` | `TypeCorrect` | `TypeOK` | nothing |
| | `Announced` | `ClientUpToDate` | nothing |
| | `SyllableTracked` | `SyllableAccountedFor` | `Careful` |
| | `NothingLeftBehind` | `IdleHoldsNothing` | `Careful` |
| | `DeletionsSafe` | `DeletesOnlyItsSyllable` | `Careful` |
| | `LineKept` | `KeepsTheLine` | `Careful` |
| | `EndingsSafe` | `EndsAsShown` | `Careful` (its clause on reset, lemma `ResetDiscards`: nothing) |
| `LayerProofs` | `HighlightSafe` | `CursorOnList` | nothing |
| | `NothingUnannounced` | `ClientUpToDate` | nothing |
| `OptionsProofs` | `AdaptersFollow` | `AdaptersUpToDate` | nothing |
| | `TablesOpen` | `NamedTablesAreOpen` | nothing |
| | `DeletionNeedsClient` | `ModeNeedsDelete` | nothing |
| | `IsolationSafe` | `IsolationIsInert` | nothing |
| `ClientProofs` | `RegistriesLive` | `RegistryIsLive` | nothing |
| | `LearningKept` | `LearningIsKept` | nothing |
| | `ProfilesStayApart` | `ProfilesApart` | nothing |
| | `DeletionsLand` | `DeletesWhatWasAsked` | nothing |
| | `HighlightStaysOnPage` | `HoverIsOnPage` | nothing |
| | `TypedArrives` | `TypedTextArrives` | `BoundaryAssumption` |
| | `PanelIsLegal` | `PanelStaysLegal` | nothing |
| | `RoundTrip` | what is encoded is read back | a text |
| | `OneSpelling` | what is read is spelled one way | nothing |
| | `PositionsAgree`, `CutsAgree` | positions and cuts of a text | a text |
| `PyzyProofs` | `PyzyListIsCurrent` | `ListIsCurrent` | `Converts` |
| | `PreeditIsDelivered` | `EndDeliversPreedit` | `Renders` |
| | `LettersKept` | `KeepsKeystrokes` | `Renders`, `Heard` |
| | `MarksRemembered` | `RemembersDeliveries` | `Renders`, `Unmarked` |
| `AnthyProofs` | `KanaUntilAsked` | `ShowsWhatWasTyped` | `AnthyAnswers`, `ChangesBetween` |
| | `HighlightIsShown` | `HighlightIsPreview` | the same |
| | `EndsDeliver` | `EndDeliversPreedit` | the same |
| | `KanaSurvives` | `ReadingSurvives` | the same |
| | `SelectionsSettle` | `SelectDeliversShown` | the same |
| | `TaughtWhatIsCommitted` | `TaughtWhatWasCommitted` | the same |
| | `KeyByKeyIsWhole` | `ResolvesLikeWhole` | nothing |
| | `KanaAsStruck` | `KanaFollowsKeys` | nothing |
| | `BackspaceTakesShown` | `EraseTakesLastShown` | nothing |
| `TableProofs` | `BestIsFirst` | the order of candidates | nothing |
| | `TableInvariance` | the invariant `TableInv` | nothing |
| | `TableListAnswersRun` | `ListAnswersRun` | nothing |
| | `TableHighlightIsDelivered` | `HighlightIsDelivered` | nothing |
| | `TableKeepsKeys` | `KeepsKeys` | `Phrased` |
| | `TableLearnsTheChosen` | `LearnsTheChosen` | nothing |
| | `WholeTable` | `OpensWhole` | nothing |
| | `ReopenedAsPrepared` | `ReopensAsPrepared` | nothing |
| | `CodesStay` | `CodesStayTypable` | nothing |

They hold for all values of the constants that meet the named assumptions of the
modules: what is a text, which files and handles there are.
`Careful` says that a client moves no caret on the strength of an empty preedit, and
that of the changes of the preedit option in mid-syllable it makes none but the one
from "syllable" to "word": without it finding 1 and the first two observations are
counterexamples.  `Converts` asks of PyZy only that it answers
with a list of texts, each of which takes some number of keys.  `Renders` asks a little
more: each takes no more keys than there are, none holds a separator, and nothing is
spelled as nothing.  `Heard` is about the constant `Sounds`, the letters a text stands
for, which `Keystrokes` measures a document with: a spelling sounds like its keys, a
conversion like the keys it takes, a mark of punctuation like none, and every scheme
accepts every letter.  The adapter never looks at what a text says, so this asks nothing
of the code; it is a way of marking each conversion with the letters it was given, so
that a letter lost or delivered twice can be seen.  `Unmarked` says that neither a
spelling nor a conversion of keys PyZy takes holds a full-width quotation mark or a digit.
It is needed: the adapter remembers of PyZy's own text only whether it is one digit, so
after a phrase that holds a mark, or ends in a digit behind other text, what is remembered
is not the document's until the next snapshot is read.  TLC evaluated `Renders`, `Heard`,
`Unmarked` and the invariants `TextInv` and `MemoryInv` below on the instance of `MCPyzy`
before they were proved from: 152,369 states, the assumptions for runs of up to three keys.
`AnthyAnswers` asks of anthy that the segments it answers with make up the reading it was given and have
a candidate each; it may also not answer.  `ChangesBetween` says that the client does
not change the script, nor lower the cap, while something is composed: the two
observations marked `midway` are what happens when it does.  It may turn prediction
and learning on and off, change what a period does and raise the cap at any time.
`Phrased` says that every row of a table has a phrase.  A table source may hold rows
without one (NOSYMBOL); when such a row is chosen by itself, its keys go and nothing is
written.

**Hangul.**  `DeletesOnlyItsSyllable` is about a step, and needs to know that
the text left of the caret *is* `inDocument`.  That is the "none" clause of
`SyllableAccountedFor`, which is not inductive by itself: a client acting on an
unhandled key would break it unless nothing were outstanding then, and a mode
change unless nothing were composed.  The inductive invariant `Inv` is therefore
`TypeOK`, `SyllableAccountedFor`, and

* not engaged implies nothing pending in libhangul and nothing settled,
* a key still owed implies not engaged,
* what is published is the projection of the model, and the tail is empty.

`Inv` was checked by TLC first.  A deletion is dispatched only if
`Revisable` held and the mode is "none"; the range requested is then the last
`Len(inDocument)` scalars left of the caret, which by the invariant are
`inDocument`.  Note that the proof never uses the content of the snapshot: as
long as the client is careful, the length test is enough, and foreign text deleted
is exactly what is left when it is not.  For `EndsAsShown` the two range tests are
put side by side: what `prepare_revision` found deletable the dispatch does delete
(`RevisionDeletes`), so a declined key either replaces the written syllable or
leaves it, and never adds the flushed copy to it.

**The refinement.**  Under `Inv` the visible line is `Base \o hic`, where `hic` is
what libhangul holds and `Base` the document without the written syllable, in
"none" mode, or the document and the settled word, in the others (`LineParts`).
Every call that types, commits or declines a key turns it into
`Base \o X \o hic'` with a document that still begins as `Fixed` did, for some
finished text X; `ReviseStep` shows once that this is `VisibleText`'s `Revise`.
`HarvestRefines`, `EndRefines` and `DeclinedRefines` produce the X for each part of
the adapter, and `NextRefines` has a case per action: the client's backspace is
`Erase`, a reset is `Discard`, a caret move is `Move`.

**The layer.**  `LayerInv` is the type of the whole state, `CursorOnList`,
`ClientUpToDate`, and that a client with the callback has been *shown* what is
published, after a failed call too.  `ClientUpToDate` says nothing of an
indeterminate context; the last conjunct carries over that gap, because a call that
fails changes neither, so that the reset that follows compares with what the client
really has.

**Options.**  `OptionsInv` adds to `AdaptersUpToDate` and `NamedTablesAreOpen` that
a context that is gone has an empty store, and that no live context whose client
cannot delete overrides the mode with "none".  The engine level may say "none": a
context that inherits it is capped when the value is resolved, which is why
`ModeNeedsDelete` follows although the stores do not satisfy it.

**Lifetime.**  `LifetimeInv` says that each context stands in the registry of its
engine once and nowhere else, that what is held implies the library is up, that
PyZy's own flag is up exactly when the library counts it ready, that nothing waits
to be saved otherwise, that every backend that is ready writes in the profile in
force, and that what was taught is what is on disk or waiting.  The third is what the
shutdown hook's last assignment is for, and the fifth fails without it on the second
start.

**Pinyin.**  `ListIsCurrent` is about the state between two calls, and `PyzyInv`
adds to it types and one fact: where the context is not yet under the scheme its
options ask for, nothing is composed.  The work is inside a call.  `Current` says that
what the model lists is the beginning of PyZy's answer *or* PyZy has said that its list
changed; every operation of PyZy keeps it (`EditedGoes` to `CommitPreeditGoes`),
`HarvestGoes` turns it into the first alternative (`Answers`), and `LeaveKeeps` shows
that materializing such a list to the cap gives the list itself (`RefilledList`).
A change of options is the one thing PyZy does not announce; the case of `SetOption`
goes through because the adapter empties the list itself.  `FinishComposition` selects
before it harvests, so its selection must still answer from the list shown:
`CallGoes` gives that, since applying the options leaves what is composed alone or
empties it.

`EndDeliversPreedit` and `KeepsKeystrokes` need to know what the texts on screen are
made of.  `TextInv` adds to `PyzyInv` that the preedit published is the model's three
parts, that these are what was selected followed by the rest spelled out (`Rendered`),
that what was selected sounds like the keys it consumed, and that a key is handed back
only when nothing is composed.  Neither property is inductive without the middle two:
after one selection of two, what a commit will deliver and which letters are still
pending are facts about `used` and `selected`, not about the preedit.  Inside a call
`Rendered` asks for the parts of the preedit only while PyZy has not announced a new
text; `Due`, the letters delivered so far in the call followed by those still composed,
is what every operation of PyZy leaves alone but for the letter it is given
(`Carries`).  There is one lemma per action, from `TypeKeyKeeps` to `ClientKeeps`; each
shows `TextInv` afterwards and which step of `Keystrokes` the call was: a letter is
`Type`, a backspace `TakeBack`, a reset or a change of scheme `Discard`, what the
client does by itself `Edit`, and whatever selects, converts or delivers `Advance`.

`RemembersDeliveries` is about one step, but the step may commit three times: the
conversion the highlight was on, what PyZy had left, and the key that ended the
composition.  `MemoryInv` adds to `TextInv` that the keys held are keys PyZy was given and
what was selected says nothing of marks or digits (`Undecided`), and one fact the code
relies on without saying so: where a changed scheme has yet to be applied, the memory is
already the fresh one, so that applying it in the next call forgets nothing that call
delivers after.  Inside a call `Recalls` says that what is committed so far is `Undecided`
and the marks remembered are those the call began with; every operation of PyZy keeps it
(`ResetRecalls` to `FinishRecalls`).  Then the document is observed once, before anything
is committed, and the key comes last: behind undecided text the last mark of the delivery
is the key's own, which is the one case where the memory flips (`EmitRemembers`,
`QuoteLast`), and otherwise there is none and nothing may change (`QuoteNone`).

**Japanese.**  The properties are about calls of very different kinds (the text
committed, the lessons taught, the kana on screen), and all six follow from one
invariant of the state between calls, `AnthyInv`.  Its core is `Sound`, which says of a
call at any moment that it is `Typing` or `Converting`:

* typing, the preedit is what was selected unasked followed by the kana in force, and
  the segments anthy holds, if any, make up the reading of that kana;
* converting, each segment has a chosen candidate that anthy still lists (`Chooses`),
  what was recorded of the segments walked past is what they show (`Teaches`), the
  preedit is these choices in a row (`ConversionShown`), and the list is the beginning
  of anthy's list for the *active* segment.

None of the six is inductive by itself: what Return delivers depends on `Chooses`,
what is taught when it does on `Teaches`, and the highlight on the list being that of
the active segment, which `conv.listed` tells.  `AnthyInv` adds what is published and
where the cursor may be; `OwedQuietly`, that a key is handed back to the client only
by a call that taught nothing.  The proof follows the calls: lemmas say what each of
the adapter's functions makes of a sound call (`ShowSegmentsIs`, `SelectConvertedIs`
and their like), `ResolveIs` what the romaji resolver makes of a letter, and
`FrameKeeps` closes the call with the materialization and the dispatch that every call
ends with.  Where another context may teach anthy meanwhile
(`situation.others`), anthy's list may be reordered under this one; only the highlight
and the selection depend on it, and both properties say so.  `ChangesBetween` keeps
changes of the script to the time between compositions: what becomes of one in the
middle of a composition is an observation of section 3, not a theorem.

**Romaji.**  The resolver only ever sees what is pending and one key more; the reference
`ReadWhole` sees the whole run and takes the longest spelling at its front.  What joins
the two is `ReadOn`: reading a run with one letter more gives the kana that reading the
run gave, and then what reading *its pending end* with that letter gives.  It is shown by
induction on the length of the run (`ByLength`), one case per branch of `ReadWhole`, and
it needs that a letter more never makes a spelling start earlier: at most one spelling
starts a run (`OneStarts`), and what waits is the beginning of a spelling, so that by
`TableAssumption` nothing of the tables stands in it.  A pending end with one letter more
is therefore *open* (`Open`): only at its very end can something resolve.  On open runs
the resolver and the reference agree (`ResolvesOpen`, again by length, as each step of
`Resolve` that goes on leaves an open run).  `TypingInv` is then inductive: the buffer is
what was read behind what stood there, what is pending waits, and what waits still does
with its last letter gone, so a backspace can be typed on from.

Under kana entry `TypingInv` says that the buffer, each marked kana taken for the two it
was struck as, is what stood there and what was struck since, and that no two in it would
join.  For what is shown, every script and style is one `Joined` (`ShownIs`): each kana
becomes one or two characters by itself, so taking the last kana takes exactly those.

**Tables.**  `TableInv` is stated of a call that begins (`Enter`), and its core is
`Sound`, which every helper of the adapter keeps at any moment of a call:

* something is composed only under the table in force, so no key or staged phrase
  outlives the table it was typed for;
* the list is what that table answers for the valid run, under a user database that
  is an earlier state of the present one (`Answers`), or empty;
* the cursor is on a candidate the client is shown, or the first (`Pointed`).

`TableInv` adds the types; that, between calls, the text shown as settled is what the
staged phrases make (`Stands`); that the list the client has is the first of the
adapter's up to the cap; and that the two cursors agree.
`ListAnswersRun` is a part of it.  `HighlightIsDelivered` needs all of it: the index
refers to the client's list, what is delivered is taken from the adapter's, and the
text before it is the staged phrases, not what is on screen.  A selection ends the
composition whatever is typed behind the run: a tail is dropped, and nothing staged.
That others teach the table meanwhile (`LearnElsewhere`) only makes the database later
(`ElsewhereGrows`): being earlier is transitive and survives `RecordSelection`.
`KeepsKeys` is shown helper by helper, from what staging, taking apart and ending do to
the keys; a call that delivers nothing has chosen no phrase, because under `Phrased`
each has text.

`LearnsTheChosen` is about the history of what is staged.  With `TableInv` one more
invariant is inductive, `AllOffered`: of each staged segment, the phrase is one the
table offered for its keys under some options and some earlier state of the user
database.  (TLC found an earlier form of the property too strong: a phrase staged under
one setting may be delivered, and learned, under another that would not have offered
it.)  Within a call `Underway` says that only the table in force was taught, only what
was offered and stands in the output so far, and that what was staged when the call
began is either learned or still staged with nothing delivered; every helper keeps it,
and a call ends with what was staged learned, or with no delivery.  A lesson written
once is counted up or added at the end (`Grows`), so teaching the next segment never
undoes it, and two segments of one composition may be the same row.

`BestIsFirst` is about the comparison given to the sort: it is irreflexive, transitive
and total on positions, so `Sorted` is a permutation in which nothing better stands
behind anything worse, and what the cap leaves out is no better than what is offered.

**The compiler.**  `FileByStage` says what the file is at each stage; the empty file
between `Create` and `CommitTable` has no declaration, so `open()` refuses it.

`ReopensAsPrepared` and `CodesStayTypable` rest on one more invariant, `Compiling`,
which TLC checked on the instance of `MCTableSource` first.  A source keeps every
declaration twice, parsed into its properties and as the raw text that `compile_table`
writes and `open()` parses again.  `Compiling` says that the two agree at each stage:
while the source is read, the alphabets, the wildcards and the language are what their
text sets (`AsRead`); from then on they are what it sets with the default alphabet in
place of an empty one (`Faithful`).  It is kept because stripping removes the same keys
from both forms and never all of the input keys, which would read back as the default
alphabet, and because the derived wildcard is written to both.  Prompts have no
declaration but a literal: its entries come in the order of their keys, so each quote
stands where its entry puts it and reading takes the entries off one by one
(`LiteralReads`), if no prompt holds a quote, which is the property's condition.
`CodesStayTypable` turns on LIKE.  A run finds a row of its own code whatever is
escaped in it (`LikeItself`), and without a wildcard and without completion no other
(`LikeNoOther`); a table declares at most
two wildcards and there are three escape characters, so one of them is no wildcard.  The proof found the
condition on `START_CHARS` in it, which the runs had not shown (section 3).

**The demo.**  `DeletesWhatWasAsked` compares what a context, by its own snapshot, meant
to have deleted with what the program, by *its* snapshot, took out of its document.
`DemoInv` joins the two: every text is made of scalars and every cursor is on its list
(`Good`), and while anything is supplied, the program's snapshot is the end of its
document and the active context knows exactly that (`Believed`).  Inside a call
`Believed` is lost as soon as the document changes; every call that changes it ends in a
refresh, which restores it whatever stood before (`RefreshTells`), and the deletion comes
first in an answer, while it still holds (`AnswersRight`).  Counting back from the caret
then gives the same text in the snapshot and in the document (`SuppliedEnds`,
`EndOfEnd`).  Where nothing is supplied, the range test of `OnDelete` alone must do: if
the document still ends with the snapshot the context knows, what is removed is what was
meant, and otherwise nothing is (`DeletedIs`).  `HoverIsOnPage` needs the cursor on its
list: paging moves it to the first entry of the page turned to, unless the list, grown
where the cap allows, ends before it, and then neither moves (`PageForwardFollows`).
Where the engine fails to hover only the page moves, and where only the highlight was
to move, neither does (`Stays`): the theorem is about both.

**Text and keys.**  `TypedTextArrives` looks at samples around every limit; the theorems
behind it are about every text and every byte string, so `BoundaryAssumption`, that the
samples are numbers, is all that is asked.  One scalar first, for each length: the lead
byte announces the length, the trailing bytes carry six bits each, putting them together
is the scalar again, and, the other way, four ranges of bytes are all that is accepted and
each is what would have been written.  Then texts.  `Off(text, k)` is what the first `k`
scalars take to write; the bytes of the next stand there (`At`), and nowhere between two
such offsets does a character begin, because a byte begins one exactly if it is not a
trailing byte.  Decoding and the demo's walk are functions computed from the end of the
bytes towards the start: that they exist is proved by induction on the distance from the
end (`BackwardExists`), and that they visit the offsets of the scalars and nothing else by
the same induction.  From that the count, the conversions between positions and offsets
(`PositionsAgree`), and erasing and taking the last scalars (`CutsAgree`) follow for
bytes as for text.  `OneSpelling` needs no text to begin with: whatever is accepted is
cut into accepted characters.  Of the keys, the two tables of the US layout, the client's
and the library's, are compared row by row (`CharacterArrives`); a named key has a keysym
above every character's (`NamedKeyArrives`).  That the document is a text is the part of
`DemoInv` it needs.

**The settings page.**  `PanelStaysLegal` is about the inventory of 31 options, row by
row (`BoolRows` to `EnumRows`), and then about the five types: whatever a row of that
type holds, the page reads what it may, shows legal values apart, and sends what
`CheckNumber` or `CheckString` takes (`BoolLegal` to `StringLegal`).  That it comes by
every value of an enum and every bit of a set is `RoundAll`: stepping round by one among
`n` places visits them all, by induction on the steps.  The runs check it with two tables
installed; the theorem is for any list of names, and for any `INT64_MAX` above 64.  That
the cap raised while scrolling is legal is a part of `DemoInv`.

`ContextProofs` holds the lemmas about sequences of scalars (concatenation,
splitting at an index, removing a suffix) and about `Refresh` (what it publishes,
deletes and shows), each stated once and used by the proofs over `ContextCore`.  The
library states induction with an operator as a parameter, which cannot be instantiated
here.  `Induction` states it for a *set* of naturals instead, from the well-foundedness
of `<`; with it `ContextProofs` proves what the fold behind `FlattenSeq` computes
(`FlattenAppend` and its neighbours).  `Joined` is what a sequence becomes when each
element becomes a sequence (`JoinedConcat`, `JoinedType` and so on): the reading of a
list of segments, the letters a text was typed with and a text without its separators
are all of that form.

Every invariant and action property of the passing runs is stated by one of these
theorems.  Only the two findings of section 3 are TLC's alone: they are
counterexamples.  Liveness is not claimed at all, and `ENABLED` is not used.

## 5. Not modelled

About 9,500 of the 31,000 lines of the implementation are generated tables of
character properties (`variants_data.h`, `coverage_data_*.h`), which appear as the
constants `Variants` and `Covered`.  Of the rest:

* Rejections of bad arguments (null handles, wrong sizes, out-of-range indices):
  they return before anything changes.  Those of the option setters are in
  `OptionCatalog`, and those of `pathime_init` in `Lifetime`.
* Borrowed pointers and their lifetimes; reentrant calls from callbacks, which the
  header forbids for every mutating function.
* Of the Japanese adapter, the styles and the width of an inserted space; a
  modifier held with a letter counts as Shift or nothing.
* Of tables, building a phrase's code from its rules, the mirror of goucima lookups,
  the metadata no engine reads, queries that fail in SQLite, a user directory that
  cannot be written (learning is then silently lost), and the list of installed
  tables, which is a constant.  Reading a rime frequency dictionary is a
  constant of the compiler.
* Of the demo, the log, the clipboard, the help page and the status line, its command
  line, drawing and terminal input.
* Vendor libraries beyond what the adapters see of them; path discovery; build,
  packaging and the repository's own tests.

## 6. Plan

All components with logic of their own are modelled, and what the runs check is proved.
Worth modelling next: a user directory that cannot be written, and queries that fail.
