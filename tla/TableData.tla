------------------------------- MODULE TableData -------------------------------
(***************************************************************************)
(* What a loaded table answers (src/engines/table/: table_properties.cc,   *)
(* table_db.cc, ranking.cc, variants.cc): which keys may be typed, where a *)
(* run is cut, which rows a run finds, in which order they are offered,    *)
(* and what is remembered of a choice.                                     *)
(*                                                                         *)
(* A key and a character are scalar values; a row pairs the keys of a code *)
(* with a phrase.  SQLite's LIKE is external and modelled on sequences.    *)
(***************************************************************************)
EXTENDS Composition, FiniteSets, SequencesExt

CONSTANTS
  percent, underscore,  \* the scalars LIKE gives a meaning
  Escapes,              \* '!', '@', '#': the escape character, by preference
  Variants,             \* per scalar: the scripts it is usable in
  CandidateCap          \* kCandidateCap: matches kept, best first

Script == {"simplified", "traditional"}

ASSUME TableDataAssumption ==
  /\ Scalar \subseteq Nat /\ {percent, underscore} \subseteq Scalar
  /\ Escapes \in Seq(Scalar) /\ Cardinality(Range(Escapes)) >= 3
  /\ percent # underscore /\ {percent, underscore} \cap Range(Escapes) = {}
  /\ Variants \in [Scalar -> SUBSET Script]
  /\ CandidateCap \in Nat \ {0}

\* TableProperties. An undeclared wildcard is {}; a rule gives the length of the
\* code of a compound of that length, `above` is the threshold of the last one.
Properties ==
  [valid : SUBSET Scalar, start : SUBSET Scalar, unchecked : SUBSET Scalar,
   single : SUBSET Scalar, multi : SUBSET Scalar, max : Nat \ {0}, least : Nat,
   rules : SUBSET [compound : Nat, code : Nat], above : Nat,
   prefix : BOOLEAN, adjusts : BOOLEAN, cjk : BOOLEAN, chinese : BOOLEAN]

\* PhraseRow and PhraseMatch: freq is the table's, chosen the user's.
Row == [keys : Text, phrase : Text, freq : Int, chosen : Nat]

\* Of a list those that are good, in the same order.
Only(list, good) ==
  FlattenSeq([i \in DOMAIN list |-> IF list[i] \in good THEN <<list[i]>> ELSE <<>>])

-------------------------------------------------------------------------------
(* Keys.                                                                   *)

IsWildcard(p, key) == key \in p.single \cup p.multi

\* A wildcard the alphabet holds is a letter where a run begins.
IsWildcardAt(p, key, first) == IsWildcard(p, key) /\ (first => key \notin p.valid)

IsInputChar(p, key) == key \in p.valid \/ IsWildcard(p, key)

IsStartChar(p, key) ==
  IF p.start = {} THEN IsInputChar(p, key) ELSE key \in p.start \/ IsWildcard(p, key)

\* commit_boundaries: the lengths at which another key stages the run.
CommitBoundaries(p) ==
  ({p.max} \cup
     IF p.rules # {}
     THEN {r.code : r \in {q \in p.rules : p.above = 0 \/ q.compound < p.above}}
     ELSE IF p.least > 0 THEN p.least..p.max ELSE {}) \ {0}

-------------------------------------------------------------------------------
(* Lookup.                                                                 *)

\* build_like_pattern: the first escape character that is no wildcard ...
Escape(p) ==
  Escapes[CHOOSE i \in DOMAIN Escapes :
            /\ ~IsWildcard(p, Escapes[i])
            /\ \A j \in 1..(i - 1) : IsWildcard(p, Escapes[j])]

PatternOf(p, key, first) ==
  CASE IsWildcardAt(p, key, first) /\ key \in p.single -> <<underscore>>
    [] IsWildcardAt(p, key, first) /\ key \notin p.single -> <<percent>>
    [] ~IsWildcardAt(p, key, first) ->
         IF key \in {Escape(p), percent, underscore} THEN <<Escape(p), key>> ELSE <<key>>

\* ... and the pattern of a run of keys.
LikePattern(p, run) ==
  FlattenSeq([i \in DOMAIN run |-> PatternOf(p, run[i], i = 1)])
    \o (IF p.prefix THEN <<percent>> ELSE <<>>)

\* SQLite: text LIKE pattern ESCAPE escape.
Like(text, pattern, escape) ==
  LET end == Len(text) + 1
      \* where what is left of the pattern matches what is left of the text
      from[i \in 1..(Len(pattern) + 1)] ==
        CASE i > Len(pattern) -> {end}
          [] i < Len(pattern) /\ pattern[i] = escape ->
               {j \in DOMAIN text : text[j] = pattern[i + 1] /\ j + 1 \in from[i + 2]}
          [] i <= Len(pattern) /\ pattern[i] = percent ->
               {j \in 1..end : \E k \in from[i + 1] : j <= k}
          [] OTHER ->
               {j \in DOMAIN text : pattern[i] \in {underscore, text[j]} /\ j + 1 \in from[i + 1]}
  IN 1 \in from[1]

SamePair(a, b) == a.keys = b.keys /\ a.phrase = b.phrase

\* Two rows of one code and phrase are one match with the larger numbers.
Merged(rows, r) ==
  LET same == {rows[i] : i \in {k \in DOMAIN rows : SamePair(rows[k], r)}}
  IN [r EXCEPT !.freq   = CHOOSE n \in {s.freq : s \in same} : \A s \in same : s.freq <= n,
               !.chosen = CHOOSE n \in {s.chosen : s \in same} : \A s \in same : s.chosen <= n]

FirstOfPair(rows, i) == \A j \in 1..(i - 1) : ~SamePair(rows[j], rows[i])

\* TableDatabase::lookup: the rows of the table and the user's, in this order.
Lookup(p, rows, user, run) ==
  LET all   == rows \o user
      found == Only(all, {r \in Range(all) : Like(r.keys, LikePattern(p, run), Escape(p))})
      firsts == Only([i \in DOMAIN found |-> i], {i \in DOMAIN found : FirstOfPair(found, i)})
  IN [i \in DOMAIN firsts |-> Merged(found, found[firsts[i]])]

-------------------------------------------------------------------------------
(* Order.                                                                  *)

\* variant_mask and phrase_variant_mask: a phrase is classified by its beginning.
PhraseVariants(phrase) == IF phrase = <<>> THEN Script ELSE Variants[phrase[1]]

VariantAdmits(variant, scripts) ==
  /\ variant = "simplified_only" => "simplified" \in scripts
  /\ variant = "traditional_only" => "traditional" \in scripts

VariantBoost(variant, scripts) ==
  \/ variant = "simplified_first" /\ "simplified" \in scripts
  \/ variant = "traditional_first" /\ "traditional" \in scripts

TextLess(a, b) ==
  \E i \in DOMAIN b : /\ \A j \in 1..(i - 1) : j <= Len(a) /\ a[j] = b[j]
                      /\ i <= Len(a) => a[i] < b[i]

\* std::string::size: the bytes of a text, one of a scalar and one more from each
\* of these on.
Size(text) ==
  LET from(c) == Cardinality({i \in DOMAIN text : text[i] >= c})
  IN Len(text) + from(128) + from(2048) + from(65536)

\* The sort keys by precedence; each lists the matches that come first.
RankKeys(p, run, variant, m) ==
  <<IF m.keys = run THEN 0 ELSE 1,
    -m.chosen,
    IF p.chinese /\ VariantBoost(variant, PhraseVariants(m.phrase)) THEN 0 ELSE 1,
    -m.freq,
    Size(m.keys)>>

RankBefore(p, run, variant, a, b) ==
  LET ka == RankKeys(p, run, variant, a)
      kb == RankKeys(p, run, variant, b)
      sa == IF a.phrase = <<>> THEN 0 ELSE a.phrase[1]
      sb == IF b.phrase = <<>> THEN 0 ELSE b.phrase[1]
  IN \/ \E i \in DOMAIN ka : ka[i] < kb[i] /\ \A j \in 1..(i - 1) : ka[j] = kb[j]
     \/ ka = kb /\ (TextLess(a.keys, b.keys) \/ (a.keys = b.keys /\ sa < sb))

\* The comparison the sort is given; ties stay in the order found.
Ahead(p, run, variant, list, i, j) ==
  \/ RankBefore(p, run, variant, list[i], list[j])
  \/ ~RankBefore(p, run, variant, list[j], list[i]) /\ i < j

Admitted(p, variant, m) == p.chinese => VariantAdmits(variant, PhraseVariants(m.phrase))

\* Each place holds the one that as many others come ahead of as there are places
\* before it.
Sorted(p, run, variant, list) ==
  LET place == [i \in DOMAIN list |->
                  1 + Cardinality({j \in DOMAIN list : Ahead(p, run, variant, list, j, i)})]
  IN [k \in DOMAIN list |-> list[CHOOSE i \in DOMAIN list : place[i] = k]]

\* rank_candidates: filter, sort, cap.
RankCandidates(p, run, variant, found) ==
  LET list == Sorted(p, run, variant, Only(found, {m \in Range(found) : Admitted(p, variant, m)}))
  IN SubSeq(list, 1, IF Len(list) < CandidateCap THEN Len(list) ELSE CandidateCap)

-------------------------------------------------------------------------------
(* Learning.                                                               *)

\* record_selection: the user's row of this code and phrase, or a new one, whose
\* frequency is left to the table's own row.
RecordSelection(user, keys, phrase) ==
  LET mine == [keys |-> keys, phrase |-> phrase, freq |-> 0, chosen |-> 1]
  IN IF \E i \in DOMAIN user : SamePair(user[i], mine)
     THEN [i \in DOMAIN user |-> IF SamePair(user[i], mine)
                                 THEN [user[i] EXCEPT !.chosen = @ + 1] ELSE user[i]]
     ELSE Append(user, mine)
================================================================================
