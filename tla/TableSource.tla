------------------------------ MODULE TableSource ------------------------------
(***************************************************************************)
(* From a table's source text to the table the engine opens:               *)
(* table_source.cc reads the lines, tools/table-compile/main.cc transforms *)
(* what was read, table_db.cc writes it as an SQLite file and opens it.    *)
(*                                                                         *)
(* A line is what it says; splitting and trimming it is left out.  A line  *)
(* that says nothing in the section it stands in is a line of text.        *)
(***************************************************************************)
EXTENDS TableData

CONSTANTS
  Lines,          \* the lines a source may have
  MaxFields,      \* bound: fields declared
  MaxRows,        \* bound: phrase rows read
  MaxNotes,       \* bound: codes and prompts read
  LatinLetters,   \* 'a'..'z': the alphabet of a table that declares none
  PunctuationKeys, \* is_ascii_punctuation
  Covered,        \* is_covered: the scalars the compiled-in map has
  quote, apostrophe, separator,  \* what a prompt literal is written with
  Commands,       \* the options of one run of the compiler
  Former          \* the files that may stand at the output path before it

Sections == {"", "DEFINITION", "TABLE", "GOUCI", "CHAR_PROMPTS_DEFINITION", "other"}

\* "chars", "word" and "language" are the fields of DEFINITION the compiler reads
\* back; the others are set alike. A word that is no Boolean is "junk".
Line ==
       [is : {"begin", "end"}, section : Sections \ {""}]
  \cup [is : {"chars"}, key : {"valid", "start", "unchecked", "single", "multi"}, chars : Text]
  \cup [is : {"word"}, key : {"define", "adjusts", "prefix"}, word : {"true", "false", "junk"}]
  \cup [is : {"language"}, key : {"language"}, word : {"zh", "ja", "en"}]
  \cup [is : {"row"}, keys : Text, phrase : Text, freq : Int, counts : BOOLEAN]
  \cup [is : {"code"}, zi : Text, code : Text]
  \cup [is : {"prompt"}, of : Scalar, text : Text]
  \cup [is : {"text"}]

\* wildcard is {} under --no-derive-wildcard; ranked is what --freq-from names.
Setting ==
  [strip : BOOLEAN, filter : BOOLEAN, wildcard : SUBSET Scalar,
   threshold : Int, ranked : Seq(Row), transfers : BOOLEAN]

ASSUME TableSourceAssumption ==
  /\ Lines \subseteq Line /\ {MaxFields, MaxRows, MaxNotes} \subseteq Nat
  /\ LatinLetters \cup PunctuationKeys \cup Covered \cup {quote, apostrophe, separator} \subseteq Scalar
  /\ LatinLetters # {} /\ LatinLetters \cap PunctuationKeys = {}
  /\ separator \notin {quote, apostrophe}
  /\ Commands \subseteq Setting /\ Former # {}

VARIABLES
  stage,    \* "reading", "preparing", "creating", "writing", and the ends "written",
            \* "failed" and "stopped"
  section,  \* section: "" outside any pair of markers
  source,   \* TableSource, with the raw attributes beside what they were read as
  setting,  \* the command line
  disk      \* the file at the output path; rows and codes once committed

compilerVars == <<stage, section, source, setting, disk>>

-------------------------------------------------------------------------------
(* The declaration (table_properties.cc).                                  *)

Defaults ==
  [valid |-> {}, start |-> {}, unchecked |-> {}, single |-> {}, multi |-> {},
   max |-> 1, least |-> 0, rules |-> {}, above |-> 0, prefix |-> TRUE,
   adjusts |-> FALSE, define |-> FALSE, language |-> "en", cjk |-> FALSE, chinese |-> FALSE,
   prompts |-> <<>>]

First(text) == IF text = <<>> THEN {} ELSE {text[1]}

\* A map with this value at this key.
Put(map, key, value) ==
  [k \in {key} \cup DOMAIN map |-> IF k = key THEN value ELSE map[k]]

\* TableProperties::set: a wildcard is one scalar; a word that is no Boolean leaves
\* the field as it was.
SetField(line, p) ==
  CASE line.is = "chars" ->
         [p EXCEPT ![line.key] = IF line.key \in {"single", "multi"} THEN First(line.chars)
                                 ELSE Range(line.chars)]
    [] line.is = "word" ->
         [p EXCEPT ![line.key] = IF line.word = "junk" THEN @ ELSE line.word = "true"]
    [] line.is = "language" -> [p EXCEPT ![line.key] = line.word]

\* TableProperties::finalize
Finalize(p) ==
  [p EXCEPT !.valid   = IF @ = {} THEN LatinLetters ELSE @,
            !.chinese = p.language = "zh",
            !.cjk     = p.language \in {"zh", "ja"}]

-------------------------------------------------------------------------------
(* The lines (parse_table_source).                                         *)

EmptySource == [props |-> Defaults, attrs |-> <<>>, rows |-> <<>>, codes |-> <<>>]

\* No column of a phrase row may be missing, nor its frequency be no number.
Taken(s, line) ==
  CASE line.is \in {"chars", "word", "language"} ->
         [s EXCEPT !.props = SetField(line, @), !.attrs = Put(@, line.key, line)]
    [] line.is = "row" ->
         IF line.counts
         THEN [s EXCEPT !.rows = Append(@, [keys |-> line.keys, phrase |-> line.phrase,
                                            freq |-> line.freq, chosen |-> 0])]
         ELSE s
    [] line.is = "code" -> [s EXCEPT !.codes = Put(@, line.zi, line.code)]
    [] line.is = "prompt" ->
         IF line.text = <<>> THEN s ELSE [s EXCEPT !.props.prompts = Put(@, line.of, line.text)]
    [] line.is = "text" -> s

\* The section a line is data of.
Home(line) ==
  CASE line.is \in {"chars", "word", "language"} -> "DEFINITION"
    [] line.is = "row" -> "TABLE"
    [] line.is = "code" -> "GOUCI"
    [] line.is = "prompt" -> "CHAR_PROMPTS_DEFINITION"
    [] line.is = "text" -> section

\* A source within the bounds.
Small(s) ==
  /\ Cardinality(DOMAIN s.attrs) <= MaxFields /\ Len(s.rows) <= MaxRows
  /\ Cardinality(DOMAIN s.codes) + Cardinality(DOMAIN s.props.prompts) <= MaxNotes

Refuse == stage' = "failed" /\ UNCHANGED <<section, source>>

\* BEGIN_: only the prompts nest, and only in the definition.
BeginSection(line) ==
  /\ stage = "reading" /\ line.is = "begin"
  /\ \/ /\ section = "" \/ (section = "DEFINITION" /\ line.section = "CHAR_PROMPTS_DEFINITION")
        /\ section' = line.section
        /\ UNCHANGED <<stage, source>>
     \/ /\ section # "" /\ ~(section = "DEFINITION" /\ line.section = "CHAR_PROMPTS_DEFINITION")
        /\ Refuse
  /\ UNCHANGED <<setting, disk>>

\* END_: the prompts close to the definition, wherever they were opened.
EndSection(line) ==
  /\ stage = "reading" /\ line.is = "end"
  /\ \/ /\ section = line.section
        /\ section' = IF section = "CHAR_PROMPTS_DEFINITION" THEN "DEFINITION" ELSE ""
        /\ UNCHANGED <<stage, source>>
     \/ section # line.section /\ Refuse
  /\ UNCHANGED <<setting, disk>>

Content(line) ==
  /\ stage = "reading" /\ line.is \notin {"begin", "end"} /\ Home(line) = section
  /\ \/ /\ ~(section = "DEFINITION" /\ line.is = "text")
        /\ Small(Taken(source, line))
        /\ source' = Taken(source, line)
        /\ UNCHANGED <<stage, section>>
     \/ section = "DEFINITION" /\ line.is = "text" /\ Refuse
  /\ UNCHANGED <<setting, disk>>

EndOfFile ==
  /\ stage = "reading"
  /\ IF section = "" THEN /\ source' = [source EXCEPT !.props = Finalize(@)]
                          /\ stage' = "preparing"
                          /\ UNCHANGED section
     ELSE Refuse
  /\ UNCHANGED <<setting, disk>>

-------------------------------------------------------------------------------
(* The transformations (table_source.cc, coverage.cc), in main's order.    *)

\* The punctuation keys no code of several keys is spelled with.
Stripped(s) ==
  IF ~s.props.cjk THEN {}
  ELSE LET spelled == UNION {Range(r.keys) : r \in {q \in Range(s.rows) : Len(q.keys) >= 2}}
           loose   == {k \in s.props.valid \cap PunctuationKeys : ~IsWildcard(s.props, k)} \ spelled
       IN IF loose = s.props.valid THEN {} ELSE loose

Without(line, keys) == [line EXCEPT !.chars = Only(@, Range(@) \ keys)]

\* The rows of codes that are not one of these keys.
NotKeyedBy(rows, keys) ==
  Only(rows, {r \in Range(rows) : Len(r.keys) # 1 \/ r.keys[1] \notin keys})

\* Mutation: the raw attributes keep the keys that were stripped.
StripPunctuationKeysTyped(s) ==
  [s EXCEPT !.rows = NotKeyedBy(@, Stripped(s)),
            !.props.valid = @ \ Stripped(s), !.props.start = @ \ Stripped(s)]

\* strip_punctuation_keys
StripPunctuationKeys(s) ==
  LET keys == Stripped(s)
      kept(prompts) == [k \in DOMAIN prompts \ keys |-> prompts[k]]
  IN [s EXCEPT
        !.rows  = NotKeyedBy(@, keys),
        !.props = [s.props EXCEPT !.valid = @ \ keys, !.start = @ \ keys, !.prompts = kept(@)],
        !.attrs = [k \in DOMAIN @ |-> IF k \in {"valid", "start"} THEN Without(@[k], keys)
                                      ELSE @[k]]]

\* apply_frequency_transfer: the last row of a phrase decides; from the threshold on
\* a frequency is replaced.
ApplyFrequencyTransfer(s, ranked, threshold) ==
  LET of(phrase) == {i \in DOMAIN ranked : ranked[i].phrase = phrase}
      use(phrase) == IF of(phrase) = {} THEN 0
                     ELSE ranked[CHOOSE i \in of(phrase) : \A j \in of(phrase) : j <= i].freq
  IN [s EXCEPT !.rows = [i \in DOMAIN @ |->
        IF @[i].freq < threshold THEN @[i]
        ELSE [@[i] EXCEPT !.freq = use(s.rows[i].phrase) + threshold]]]

\* apply_coverage_filter
ApplyCoverageFilter(s) ==
  [s EXCEPT !.rows = Only(@, {r \in Range(@) : Range(r.phrase) \subseteq Covered})]

\* Mutation: a code may hold the key anywhere.
DeriveSingleWildcardAnyway(s, key) ==
  IF s.props.single \cup s.props.multi # {} THEN s
  ELSE [s EXCEPT !.props.single = {key},
                 !.attrs = Put(@, "single", [is |-> "chars", key |-> "single", chars |-> <<key>>])]

\* derive_single_wildcard
DeriveSingleWildcard(s, key) ==
  IF \/ s.props.single \cup s.props.multi # {}
     \/ \E r \in Range(s.rows) : \E i \in 2..Len(r.keys) : r.keys[i] = key
  THEN s
  ELSE [s EXCEPT !.props.single = {key},
                 !.attrs = Put(@, "single", [is |-> "chars", key |-> "single", chars |-> <<key>>])]

\* derive_goucima: of a character, the longest code in bytes; the first of these.
DeriveGoucima(s) ==
  LET longer(codes, r) ==
        IF Len(r.phrase) # 1 THEN codes
        ELSE IF r.phrase \in DOMAIN codes /\ Size(codes[r.phrase]) >= Size(r.keys) THEN codes
        ELSE Put(codes, r.phrase, r.keys)
  IN [s EXCEPT !.codes = FoldLeft(longer, @, s.rows)]

\* main
Prepared(s) ==
  LET stripped  == IF setting.strip THEN StripPunctuationKeys(s) ELSE s
      ranked    == IF setting.transfers
                   THEN ApplyFrequencyTransfer(stripped, setting.ranked, setting.threshold)
                   ELSE stripped
      covered   == IF setting.filter THEN ApplyCoverageFilter(ranked) ELSE ranked
      wild      == IF setting.wildcard # {}
                   THEN DeriveSingleWildcard(covered, CHOOSE k \in setting.wildcard : TRUE)
                   ELSE covered
  IN IF wild.props.define THEN DeriveGoucima(wild) ELSE wild

Prepare ==
  /\ stage = "preparing"
  /\ source' = Prepared(source)
  /\ stage' = "creating"
  /\ UNCHANGED <<section, setting, disk>>

-------------------------------------------------------------------------------
(* The file (compile_table): tables first, then one transaction.           *)

\* char_prompts_literal, in the order of the keys; no quote is escaped.
CharPromptsLiteral(prompts) ==
  LET keys    == DOMAIN prompts
      ordered == CHOOSE q \in [1..Cardinality(keys) -> keys] :
                   \A i, j \in DOMAIN q : i < j => q[i] < q[j]
      quoted(text) == <<apostrophe>> \o text \o <<apostrophe>>
  IN FlattenSeq([i \in DOMAIN ordered |->
       quoted(<<ordered[i]>>) \o <<separator>> \o quoted(prompts[ordered[i]]) \o <<separator>>])

Image(s) ==
  [exists  |-> TRUE,
   attrs   |-> s.attrs,
   literal |-> CharPromptsLiteral(s.props.prompts),
   codes   |-> IF s.props.define THEN s.codes ELSE <<>>,
   rows    |-> LET less(i, j) ==
                     LET a == s.rows[i]
                         b == s.rows[j]
                     IN \/ TextLess(a.keys, b.keys)
                        \/ a.keys = b.keys /\ TextLess(a.phrase, b.phrase)
                        \/ a.keys = b.keys /\ a.phrase = b.phrase /\ a.freq > b.freq
                        \/ a = b /\ i < j
                   order == SortSeq([i \in DOMAIN s.rows |-> i], less)
               IN [i \in DOMAIN order |-> s.rows[order[i]]]]

Absent == [exists |-> FALSE, attrs |-> <<>>, literal |-> <<>>, codes |-> <<>>, rows |-> <<>>]

Created == [Absent EXCEPT !.exists = TRUE]

\* The file that stood there goes first.
Create ==
  /\ stage = "creating"
  /\ disk' = Created
  /\ stage' = "writing"
  /\ UNCHANGED <<section, source, setting>>

\* Mutation: the rows are not part of the transaction.
CommitDeclaration ==
  /\ stage = "writing"
  /\ disk' = IF disk.attrs = source.attrs THEN Image(source)
             ELSE [Image(source) EXCEPT !.rows = <<>>]
  /\ stage' = IF disk.attrs = source.attrs THEN "written" ELSE stage
  /\ UNCHANGED <<section, source, setting>>

CommitTable ==
  /\ stage = "writing"
  /\ disk' = Image(source)
  /\ stage' = "written"
  /\ UNCHANGED <<section, source, setting>>

\* A statement fails: what was begun is rolled back and the file removed.
Fail ==
  /\ stage \in {"creating", "writing"}
  /\ disk' = Absent
  /\ stage' = "failed"
  /\ UNCHANGED <<section, source, setting>>

\* The compiler is killed (before it touched the file: as in "creating"); SQLite
\* keeps what was committed.
Stop ==
  /\ stage \in {"creating", "writing"}
  /\ stage' = "stopped"
  /\ UNCHANGED <<section, source, setting, disk>>

-------------------------------------------------------------------------------
(* Opening it (TableDatabase::open, read_properties).                      *)

\* parse_char_prompts: what stands between a quote and the next one like it, in pairs.
QuotedStrings(literal) ==
  LET n == Len(literal)
      strings[i \in 1..(n + 1)] ==
        IF i > n THEN <<>>
        ELSE LET ends == {j \in (i + 1)..n : literal[j] = literal[i]}
             IN CASE literal[i] \notin {quote, apostrophe} -> strings[i + 1]
                  [] literal[i] \in {quote, apostrophe} /\ ends = {} -> <<>>
                  [] OTHER -> LET j == CHOOSE e \in ends : \A f \in ends : e <= f
                              IN <<SubSeq(literal, i + 1, j - 1)>> \o strings[j + 1]
  IN strings[1]

ParseCharPrompts(literal) ==
  LET strings == QuotedStrings(literal)
      pairs   == {i \in 1..(Len(strings) \div 2) :
                    strings[2 * i - 1] # <<>> /\ strings[2 * i] # <<>>}
      of(key) == {i \in pairs : strings[2 * i - 1][1] = key}
  IN [key \in {strings[2 * i - 1][1] : i \in pairs} |->
        strings[2 * (CHOOSE i \in of(key) : \A j \in of(key) : j <= i)]]

\* A file of no declaration is refused.
Opens(file) == file.exists /\ (file.attrs # <<>> \/ file.literal # <<>>)

\* Each attribute sets the field it names.
Reopened(file) ==
  LET attrs == file.attrs
      set(field) == IF field \in DOMAIN attrs THEN SetField(attrs[field], Defaults)[field]
                    ELSE Defaults[field]
  IN Finalize([Defaults EXCEPT
       !.valid = set("valid"), !.start = set("start"), !.unchecked = set("unchecked"),
       !.single = set("single"), !.multi = set("multi"), !.define = set("define"),
       !.adjusts = set("adjusts"), !.prefix = set("prefix"), !.language = set("language"),
       !.prompts = ParseCharPrompts(file.literal)])

-------------------------------------------------------------------------------
CompilerInit ==
  /\ stage = "reading" /\ section = "" /\ source = EmptySource
  /\ setting \in Commands
  /\ disk \in Former

CompilerNext ==
  \/ \E line \in Lines : BeginSection(line) \/ EndSection(line) \/ Content(line)
  \/ EndOfFile \/ Prepare \/ Create \/ CommitTable \/ Fail \/ Stop

CompilerSpec == CompilerInit /\ [][CompilerNext]_compilerVars

-------------------------------------------------------------------------------
(* What compiling a table must keep: the rows a declared alphabet can type *)
(* stay reachable, the engine reads back what the compiler decided, and no *)
(* file that opens is half a table.                                        *)

\* The library opens either the file that stood there or the whole of the new one,
\* wherever the compiler failed or was killed (compile_table, TableDatabase::open).
OpensWhole ==
  Opens(disk) => disk \in Former \/ (stage = "written" /\ disk = Image(source))

\* The quotes are all the structure a prompt literal has.
Plain(text) == Range(text) \cap {quote, apostrophe} = {}

\* The declaration the engine reads back is the one the compiler transformed: no
\* key that was stripped is granted again, and none it kept is lost
\* (strip_punctuation_keys, derive_single_wildcard: "both forms").
ReopensAsPrepared ==
  stage = "written" /\ Opens(disk) =>
    LET p == Reopened(disk)
    IN /\ \A f \in {"valid", "start", "single", "multi", "cjk"} : p[f] = source.props[f]
       /\ (\A k \in DOMAIN source.props.prompts : Plain(<<k>>) /\ Plain(source.props.prompts[k]))
            => p.prompts = source.props.prompts

\* Can these keys be typed where nothing is composed?
Typable(p, keys) ==
  /\ keys # <<>> /\ IsStartChar(p, keys[1])
  /\ \A i \in 2..Len(keys) : IsInputChar(p, keys[i])

Pair(r) == [keys |-> r.keys, phrase |-> r.phrase]

\* A code the table as declared could be typed by is not lost: unless it is one
\* punctuation key or its phrase has no glyph, the compiled table is still typed by
\* it and finds its row; and a wildcard the compiler added, not the table, makes
\* it find no row of another code, where every key START_CHARS grants is one of
\* VALID_INPUT_CHARS (strip_punctuation_keys, derive_single_wildcard).
CodesStayTypable ==
  [][Prepare =>
       LET p == Reopened(Image(source'))
       IN \A r \in Range(source.rows) : Typable(source.props, r.keys) =>
            \/ setting.filter /\ ~(Range(r.phrase) \subseteq Covered)
            \/ setting.strip /\ Len(r.keys) = 1 /\ r.keys[1] \in PunctuationKeys \ p.valid
            \/ LET found == Range(Lookup(p, source'.rows, <<>>, r.keys))
               IN /\ Typable(p, r.keys)
                  /\ Pair(r) \in {Pair(m) : m \in found}
                  /\ /\ ~p.prefix /\ source.props.single \cup source.props.multi = {}
                     /\ source.props.start \subseteq source.props.valid
                     => \A m \in found : m.keys = r.keys]_compilerVars
================================================================================
