----------------------------- MODULE TextTools ------------------------------
(***************************************************************************)
(* Tools on texts: diff, cases, tables, numerals; file modes; JSONPath.    *)
(***************************************************************************)
EXTENDS Integers, FiniteSets, SequencesExt, TLC, FiniteSetsExt

(***************************************************************************)
(* The text tools: textDiff.ts, textTransformer.ts, jsonToCsv.ts and       *)
(* radixDateConverter.ts.  A line, a character or a key is a value of a    *)
(* small set; only what the algorithms tell apart is kept.                 *)
(***************************************************************************)

Least(a, b) == IF a < b THEN a ELSE b
Most(a, b) == IF a > b THEN a ELSE b

-----------------------------------------------------------------------------
(* textDiff.ts: common prefix and suffix, then a longest common            *)
(* subsequence of what is between.  A line of the output is its kind and   *)
(* its numbers on the two sides, 0 for none.                               *)

MaxLines == 4  \* bound: 2000 lines in the code
Cut(lines) == SubSeq(lines, 1, Least(Len(lines), MaxLines))

PrefixLen(l, r) == CHOOSE n \in 0..Least(Len(l), Len(r)) :
    /\ SubSeq(l, 1, n) = SubSeq(r, 1, n)
    /\ n = Least(Len(l), Len(r)) \/ l[n + 1] # r[n + 1]
\* What both sides end with, past the common prefix.
SuffixLen(l, r) ==
    LET room == Least(Len(l), Len(r)) - PrefixLen(l, r)
    IN  CHOOSE n \in 0..room :
            /\ \A k \in 0..(n - 1) : l[Len(l) - k] = r[Len(r) - k]
            /\ n = room \/ l[Len(l) - n] # r[Len(r) - n]
LcsTable(l, r) ==
    LET table[i \in 1..(Len(l) + 1), j \in 1..(Len(r) + 1)] ==
            IF i > Len(l) \/ j > Len(r) THEN 0
            ELSE IF l[i] = r[j] THEN table[i + 1, j + 1] + 1
            ELSE Most(table[i + 1, j], table[i, j + 1])
    IN  table
Line(kind, left, right) == [kind |-> kind, left |-> left, right |-> right]
MatchGreedily(l, r, p) ==  \* mutant: a removed line is always preferred, whatever is common after it
    LET walk[i \in 1..(Len(l) + 1), j \in 1..(Len(r) + 1)] ==
            IF i > Len(l) THEN [k \in 1..(Len(r) - j + 1) |-> Line("added", 0, p + j + k - 1)]
            ELSE IF j > Len(r) THEN [k \in 1..(Len(l) - i + 1) |-> Line("removed", p + i + k - 1, 0)]
            ELSE IF l[i] = r[j] THEN <<Line("unchanged", p + i, p + j)>> \o walk[i + 1, j + 1]
            ELSE <<Line("removed", p + i, 0)>> \o walk[i + 1, j]
    IN  walk[1, 1]
Backtrack(l, r, p) ==
    LET table == LcsTable(l, r)
        walk[i \in 1..(Len(l) + 1), j \in 1..(Len(r) + 1)] ==
            IF i > Len(l) THEN [k \in 1..(Len(r) - j + 1) |-> Line("added", 0, p + j + k - 1)]
            ELSE IF j > Len(r) THEN [k \in 1..(Len(l) - i + 1) |-> Line("removed", p + i + k - 1, 0)]
            ELSE IF l[i] = r[j] THEN <<Line("unchanged", p + i, p + j)>> \o walk[i + 1, j + 1]
            ELSE IF table[i + 1, j] >= table[i, j + 1] THEN <<Line("removed", p + i, 0)>> \o walk[i + 1, j]
            ELSE <<Line("added", 0, p + j)>> \o walk[i, j + 1]
    IN  walk[1, 1]
DiffLines(l, r) ==
    LET p == PrefixLen(l, r)
        s == SuffixLen(l, r)
    IN  [k \in 1..p |-> Line("unchanged", k, k)]
        \o Backtrack(SubSeq(l, p + 1, Len(l) - s), SubSeq(r, p + 1, Len(r) - s), p)
        \o [k \in 1..s |-> Line("unchanged", Len(l) - s + k, Len(r) - s + k)]

\* A run of changes is as many changed lines as it has pairs, the rest added or removed.
Summarise(lines) ==
    LET close(s) == LET pairs == Least(s.inAdded, s.inRemoved) IN
            [s EXCEPT !.changed = @ + pairs, !.added = @ + s.inAdded - pairs, !.removed = @ + s.inRemoved - pairs,
                      !.inAdded = 0, !.inRemoved = 0]
        take(s, line) ==
            CASE line.kind = "unchanged" -> [close(s) EXCEPT !.unchanged = @ + 1]
              [] line.kind = "added" -> [s EXCEPT !.inAdded = @ + 1]
              [] line.kind = "removed" -> [s EXCEPT !.inRemoved = @ + 1]
    IN  close(FoldLeft(take, [added |-> 0, removed |-> 0, changed |-> 0, unchanged |-> 0, inAdded |-> 0, inRemoved |-> 0], lines))

\* The changes with their context, runs that touch made one.
BuildHunks(lines, context) ==
    LET near(i) == Most(1, i - context)..Least(Len(lines), i + context)
        kept == UNION {near(i) : i \in {k \in DOMAIN lines : lines[k].kind # "unchanged"}}
        starts == SetToSortSeq({i \in kept : i - 1 \notin kept}, <)
        ends == SetToSortSeq({i \in kept : i + 1 \notin kept}, <)
    IN  [h \in DOMAIN starts |-> SubSeq(lines, starts[h], ends[h])]

-----------------------------------------------------------------------------
(* textTransformer.ts.  A character is "U"pper, "L"ower, a "D"igit, a      *)
(* separator "-" or another letter "N".                                    *)

\* A word ends before a digit or after one, before a capital, and before the last capital of several.
WordBreak(text, i) ==
    LET c == text[i]
        before == text[i - 1]
    IN  \/ (c = "D") # (before = "D")
        \/ c = "U" /\ before \notin {"U", "D"}
        \/ c = "U" /\ before = "U" /\ i < Len(text) /\ text[i + 1] = "L"
NotFlushed(text) ==  \* mutant: the last word is not flushed
    LET step(s, i) ==
            IF text[i] = "-" THEN [words |-> IF s.word = <<>> THEN s.words ELSE Append(s.words, s.word), word |-> <<>>]
            ELSE IF s.word # <<>> /\ WordBreak(text, i) THEN [words |-> Append(s.words, s.word), word |-> <<text[i]>>]
            ELSE [s EXCEPT !.word = Append(@, text[i])]
    IN  FoldLeft(step, [words |-> <<>>, word |-> <<>>], [i \in DOMAIN text |-> i]).words
SplitWords(text) ==
    LET step(s, i) ==
            IF text[i] = "-" THEN [words |-> IF s.word = <<>> THEN s.words ELSE Append(s.words, s.word), word |-> <<>>]
            ELSE IF s.word # <<>> /\ WordBreak(text, i) THEN [words |-> Append(s.words, s.word), word |-> <<text[i]>>]
            ELSE [s EXCEPT !.word = Append(@, text[i])]
        end == FoldLeft(step, [words |-> <<>>, word |-> <<>>], [i \in DOMAIN text |-> i])
    IN  IF end.word = <<>> THEN end.words ELSE Append(end.words, end.word)

\* The case of each word and what joins them.
Convert(target, words) ==
    LET n == Len(words)
        all(c) == [i \in 1..n |-> c]
        first(c, d) == [i \in 1..n |-> IF i = 1 THEN c ELSE d]
    IN  CASE target = "camel" -> [cases |-> first("lower", "capital"), join |-> ""]
          [] target = "pascal" -> [cases |-> all("capital"), join |-> ""]
          [] target = "snake" -> [cases |-> all("lower"), join |-> "_"]
          [] target = "screamingSnake" -> [cases |-> all("upper"), join |-> "_"]
          [] target = "kebab" -> [cases |-> all("lower"), join |-> "-"]
          [] target = "train" -> [cases |-> all("capital"), join |-> "-"]
          [] target = "dot" -> [cases |-> all("lower"), join |-> "."]
          [] target = "title" -> [cases |-> all("capital"), join |-> " "]
          [] target = "sentence" -> [cases |-> first("capital", "lower"), join |-> " "]

\* Runs of letters and digits joined by one separator; "N" folds to a letter or goes.
KeepCut(slug, max) == SubSeq(slug, 1, Least(max, Len(slug)))  \* mutant: a slug is cut in a word or at a separator
CutSlug(slug, max) ==
    IF Len(slug) <= max THEN slug
    ELSE LET cut == SubSeq(slug, 1, max)
             dashes == {i \in 2..max : cut[i] = "-"}
         IN  IF dashes = {} THEN cut ELSE SubSeq(cut, 1, (CHOOSE i \in dashes : \A k \in dashes : k <= i) - 1)
Slugify(text, max) ==
    LET take(s, c) ==
            IF c \in {"-", "N"} THEN [s EXCEPT !.pending = TRUE]
            ELSE [slug |-> s.slug \o (IF s.pending /\ s.slug # <<>> THEN <<"-", c>> ELSE <<c>>), pending |-> FALSE]
    IN  CutSlug(FoldLeft(take, [slug |-> <<>>, pending |-> FALSE], text).slug, max)

\* Characters are numbers, the digits 0..9; runs of digits compare as numbers, then by length.
IsDigit(c) == c \in 0..9
RunEnd(s, i) == CHOOSE k \in i..Len(s) : (\A j \in i..k : IsDigit(s[j])) /\ (k = Len(s) \/ ~IsDigit(s[k + 1]))
RunValue(s, i) == FoldLeft(LAMBDA v, d : 10 * v + d, 0, SubSeq(s, i, RunEnd(s, i)))
IgnoreZeros(a, b, i, j) == RunValue(a, i) - RunValue(b, j)  \* mutant: leading zeros do not break a tie
CompareRuns(a, b, i, j) ==
    IF RunValue(a, i) # RunValue(b, j) THEN RunValue(a, i) - RunValue(b, j)
    ELSE (RunEnd(a, i) - i) - (RunEnd(b, j) - j)
CompareNatural(a, b) ==
    LET from[i \in 1..(Len(a) + 1), j \in 1..(Len(b) + 1)] ==
            IF i > Len(a) \/ j > Len(b) THEN (Len(a) - i) - (Len(b) - j)
            ELSE IF IsDigit(a[i]) /\ IsDigit(b[j])
                 THEN IF CompareRuns(a, b, i, j) # 0 THEN CompareRuns(a, b, i, j) ELSE from[RunEnd(a, i) + 1, RunEnd(b, j) + 1]
            ELSE IF a[i] # b[j] THEN a[i] - b[j] ELSE from[i + 1, j + 1]
    IN  from[1, 1]

\* A line is its text and whether it is in capitals; equal keys are one line.
LineKey(line, caseInsensitive) == IF caseInsensitive THEN line[1] ELSE line
Deduplicate(lines, caseInsensitive) ==
    FoldLeft(LAMBDA kept, line : IF \E k \in DOMAIN kept : LineKey(kept[k], caseInsensitive) = LineKey(line, caseInsensitive)
                                 THEN kept ELSE Append(kept, line), <<>>, lines)

-----------------------------------------------------------------------------
(* jsonToCsv.ts.  A value is a scalar, an array of values or an object: a  *)
(* sequence of keys with values.  A column is the path to a value.         *)

RECURSIVE FlattenValue(_, _, _)
FlattenValue(v, path, arrays) ==
    CASE v.type = "scalar" -> <<[path |-> path, cell |-> v.cell]>>
      [] v.type = "array" ->
            IF v.items = <<>> THEN <<>>
            ELSE IF arrays = "jsonEncoded" THEN <<[path |-> path, cell |-> "json"]>>
            ELSE FlattenSeq([i \in DOMAIN v.items |-> FlattenValue(v.items[i], Append(path, ToString(i - 1)), arrays)])
      [] v.type = "object" -> FlattenSeq([i \in DOMAIN v.fields |-> FlattenValue(v.fields[i].value, Append(path, v.fields[i].key), arrays)])
RowHeaders(rows) ==  \* mutant: the columns of the first row only
    [i \in DOMAIN rows[1] |-> rows[1][i].path]
Headers(rows) ==
    LET see(seen, cell) == IF cell.path \in Range(seen) THEN seen ELSE Append(seen, cell.path)
    IN  FoldLeft(see, <<>>, FlattenSeq(rows))
CellOf(row, path) ==
    LET at == {i \in DOMAIN row : row[i].path = path}
    IN  IF at = {} THEN "" ELSE row[CHOOSE i \in at : \A k \in at : k <= i].cell
\* The table of a sequence of values, every one of which must be an object.
JsonToCsv(elements, arrays) ==
    IF elements = <<>> \/ \E i \in DOMAIN elements : elements[i].type # "object" THEN [ok |-> FALSE]
    ELSE LET rows == [i \in DOMAIN elements |-> FlattenValue(elements[i], <<>>, arrays)]
         IN  [ok |-> TRUE, headers |-> Headers(rows),
              cells |-> [i \in DOMAIN rows |-> [h \in DOMAIN Headers(rows) |-> CellOf(rows[i], Headers(rows)[h])]]]

\* A field is text over a letter, the delimiter, the quote and the line end.
QuotesKept(value) ==  \* mutant: quotes in a quoted field are not doubled
    IF Range(value) \cap {",", "q", "n"} = {} THEN value ELSE <<"q">> \o value \o <<"q">>
EscapeCsvField(value) ==
    IF Range(value) \cap {",", "q", "n"} = {} THEN value
    ELSE <<"q">> \o FlattenSeq([i \in DOMAIN value |-> IF value[i] = "q" THEN <<"q", "q">> ELSE <<value[i]>>]) \o <<"q">>
CsvLine(values) == FlattenSeq([i \in DOMAIN values |-> (IF i = 1 THEN <<>> ELSE <<",">>) \o EscapeCsvField(values[i])]) \o <<"n">>

-----------------------------------------------------------------------------
(* radixDateConverter.ts.                                                  *)

\* A number is its sign and its digits; the value of digits in a base, and back.
ParseRadix(text, radix) ==
    IF text.digits = <<>> \/ \E i \in DOMAIN text.digits : text.digits[i] >= radix THEN [ok |-> FALSE]
    ELSE LET n == FoldLeft(LAMBDA v, d : radix * v + d, 0, text.digits)
         IN  IF text.negative /\ n > 0 THEN [ok |-> FALSE] ELSE [ok |-> TRUE, value |-> n]
DigitsOf(n, radix) ==
    LET digits[k \in 0..n] == IF k < radix THEN <<k>> ELSE Append(digits[k \div radix], k % radix) IN digits[n]

RomanValues == <<1000, 900, 500, 400, 100, 90, 50, 40, 10, 9, 5, 4, 1>>
RomanSymbols == <<<<"M">>, <<"C", "M">>, <<"D">>, <<"C", "D">>, <<"C">>, <<"X", "C">>, <<"L">>, <<"X", "L">>, <<"X">>, <<"I", "X">>, <<"V">>, <<"I", "V">>, <<"I">>>>
ToRoman(n) ==
    LET step(s, i) == [rest |-> s.rest % RomanValues[i],
                       text |-> s.text \o FlattenSeq([k \in 1..(s.rest \div RomanValues[i]) |-> RomanSymbols[i]])]
    IN  IF n \notin 1..3999 THEN [ok |-> FALSE]
        ELSE [ok |-> TRUE, text |-> FoldLeft(step, [rest |-> n, text |-> <<>>], [i \in 1..13 |-> i]).text]
RomanDigit(c) == CASE c = "I" -> 1 [] c = "V" -> 5 [] c = "X" -> 10 [] c = "L" -> 50 [] c = "C" -> 100 [] c = "D" -> 500 [] c = "M" -> 1000
RomanTotal(text) == FoldLeft(+, 0, [i \in DOMAIN text |->
    IF i < Len(text) /\ RomanDigit(text[i]) < RomanDigit(text[i + 1]) THEN -RomanDigit(text[i]) ELSE RomanDigit(text[i])])
AnyTotal(text) == [ok |-> RomanTotal(text) \in 1..3999, value |-> RomanTotal(text)]  \* mutant: the value is not written back
\* Only the spelling ToRoman gives is accepted.
ToDecimal(text) ==
    IF RomanTotal(text) \in 1..3999 /\ ToRoman(RomanTotal(text)).text = text
    THEN [ok |-> TRUE, value |-> RomanTotal(text)] ELSE [ok |-> FALSE]

-----------------------------------------------------------------------------
(***************************************************************************)
(* The chmod calculator (core/config/chmodCalculator.ts): a mode, written  *)
(* in octal or in the letters of ls and read from either; and its screen,  *)
(* whose boxes and two text fields follow each other.                      *)
(***************************************************************************)

\* A triad is what it allows; a mode has three and the special bits.
Rights == {"read", "write", "execute"}
Specials == {"setUid", "setGid", "sticky"}
Mode(owner, group, other, special) == [owner |-> owner, group |-> group, other |-> other, special |-> special]
Weight(set, four, two, one) == (IF four \in set THEN 4 ELSE 0) + (IF two \in set THEN 2 ELSE 0) + IF one \in set THEN 1 ELSE 0
Digits == <<"0", "1", "2", "3", "4", "5", "6", "7", "8", "9">>
DigitOf(c) == (CHOOSE k \in DOMAIN Digits : Digits[k] = c) - 1
Bits(n, four, two, one) == (IF n \div 4 = 1 THEN {four} ELSE {}) \cup (IF (n \div 2) % 2 = 1 THEN {two} ELSE {}) \cup IF n % 2 = 1 THEN {one} ELSE {}
TriadFromDigit(n) == Bits(n, "read", "write", "execute")
TriadDigit(triad) == Digits[1 + Weight(triad, "read", "write", "execute")]
SpecialDigit(p) == Digits[1 + Weight(p.special, "setUid", "setGid", "sticky")]

Octal(p) == <<TriadDigit(p.owner), TriadDigit(p.group), TriadDigit(p.other)>>
OctalFull(p) == <<SpecialDigit(p)>> \o Octal(p)
OctalPreferred(p) == IF p.special = {} THEN Octal(p) ELSE OctalFull(p)

\* The special bits show where the execute bit does, as capitals without it.
Upper(c) == CASE c = "s" -> "S" [] c = "t" -> "T"
SpecialHidesExecute(triad, special, c) ==  \* mutant: the letter does not tell whether the execute bit is set
    <<IF "read" \in triad THEN "r" ELSE "-", IF "write" \in triad THEN "w" ELSE "-", IF special THEN c ELSE IF "execute" \in triad THEN "x" ELSE "-">>
TriadSymbolic(triad, special, c) ==
    <<IF "read" \in triad THEN "r" ELSE "-", IF "write" \in triad THEN "w" ELSE "-",
      IF special THEN (IF "execute" \in triad THEN c ELSE Upper(c)) ELSE IF "execute" \in triad THEN "x" ELSE "-">>
Symbolic(p) == TriadSymbolic(p.owner, "setUid" \in p.special, "s") \o TriadSymbolic(p.group, "setGid" \in p.special, "s") \o TriadSymbolic(p.other, "sticky" \in p.special, "t")

Refused == [ok |-> FALSE]
ReadMode(p) == [ok |-> TRUE, permissions |-> p]
ParseOctal(text) ==
    IF text = <<>> \/ Len(text) > 4 \/ ~Range(text) \subseteq {Digits[k] : k \in 1..8} THEN Refused
    ELSE LET padded == [k \in 1..4 |-> IF k <= 4 - Len(text) THEN 0 ELSE DigitOf(text[k - (4 - Len(text))])]
         IN  ReadMode(Mode(TriadFromDigit(padded[2]), TriadFromDigit(padded[3]), TriadFromDigit(padded[4]), Bits(padded[1], "setUid", "setGid", "sticky")))
ParseTriad(t, c) ==
    IF t[1] \notin {"r", "-"} \/ t[2] \notin {"w", "-"} \/ t[3] \notin {"x", "-", c, Upper(c)} THEN Refused
    ELSE [ok |-> TRUE, special |-> t[3] \in {c, Upper(c)},
          triad |-> (IF t[1] = "r" THEN {"read"} ELSE {}) \cup (IF t[2] = "w" THEN {"write"} ELSE {}) \cup IF t[3] \in {"x", c} THEN {"execute"} ELSE {}]
ParseSymbolic(mode) ==
    LET text == IF Len(mode) = 10 THEN Tail(mode) ELSE mode
        owner == ParseTriad(SubSeq(text, 1, 3), "s")  group == ParseTriad(SubSeq(text, 4, 6), "s")  other == ParseTriad(SubSeq(text, 7, 9), "t")
    IN  IF Len(text) # 9 THEN Refused ELSE IF ~(owner.ok /\ group.ok /\ other.ok) THEN Refused
        ELSE ReadMode(Mode(owner.triad, group.triad, other.triad, (IF owner.special THEN {"setUid"} ELSE {}) \cup (IF group.special THEN {"setGid"} ELSE {}) \cup IF other.special THEN {"sticky"} ELSE {}))
Parse(text) == IF text = <<>> THEN Refused ELSE IF Range(text) \subseteq Range(Digits) THEN ParseOctal(text) ELSE ParseSymbolic(text)

\* What is said of a mode: who can do what, and each special bit, with whether it is without effect.
Describe(p) == [can |-> [who \in {"owner", "group", "other"} |-> p[who]],
                idle |-> [s \in p.special |-> "execute" \notin p[CASE s = "setUid" -> "owner" [] s = "setGid" -> "group" [] OTHER -> "other"]]]

-----------------------------------------------------------------------------
(* The screen.                                                             *)

\* A field is as it was typed, or follows the mode.
Follows == <<"follows">>
Screen0 == [permissions |-> Mode(Rights, {"read", "execute"}, {"read", "execute"}, {}),
            octalText |-> Follows, symbolicText |-> Follows, octalError |-> FALSE, symbolicError |-> FALSE]
Followed(s, p) == [permissions |-> p, octalText |-> Follows, symbolicText |-> Follows, octalError |-> FALSE, symbolicError |-> FALSE]
Switched(set, x, on) == IF on THEN set \cup {x} ELSE set \ {x}
SetTriad(s, who, right, on) == Followed(s, [s.permissions EXCEPT ![who] = Switched(@, right, on)])
SetSpecial(s, bit, on) == Followed(s, [s.permissions EXCEPT !.special = Switched(@, bit, on)])
OctalLeft(s, text) ==  \* mutant: the other field keeps what was typed in it
    LET parsed == ParseOctal(text) IN
    CASE text = <<>> -> [s EXCEPT !.octalText = text, !.octalError = FALSE]
      [] parsed.ok -> [s EXCEPT !.octalText = text, !.octalError = FALSE, !.permissions = parsed.permissions]
      [] OTHER -> [s EXCEPT !.octalText = text, !.octalError = TRUE]
OnOctalChange(s, text) ==
    LET parsed == ParseOctal(text) IN
    CASE text = <<>> -> [s EXCEPT !.octalText = text, !.octalError = FALSE]
      [] text # <<>> /\ parsed.ok -> [s EXCEPT !.octalText = text, !.octalError = FALSE, !.permissions = parsed.permissions, !.symbolicText = Follows]
      [] OTHER -> [s EXCEPT !.octalText = text, !.octalError = TRUE]
OnSymbolicChange(s, text) ==
    LET parsed == ParseSymbolic(text) IN
    CASE text = <<>> -> [s EXCEPT !.symbolicText = text, !.symbolicError = FALSE]
      [] text # <<>> /\ parsed.ok -> [s EXCEPT !.symbolicText = text, !.symbolicError = FALSE, !.permissions = parsed.permissions, !.octalText = Follows]
      [] OTHER -> [s EXCEPT !.symbolicText = text, !.symbolicError = TRUE]
DisplayOctal(s) == IF s.octalText = Follows THEN OctalFull(s.permissions) ELSE s.octalText
DisplaySymbolic(s) == IF s.symbolicText = Follows THEN Symbolic(s.permissions) ELSE s.symbolicText
Command(s) == OctalPreferred(s.permissions)

-----------------------------------------------------------------------------
(***************************************************************************)
(* JSONPath (core/utility/jsonpathEvaluator.ts): an expression, a sequence *)
(* of tokens, is read as segments, and each segment selects nodes from the *)
(* nodes the one before it selected.  A text (a name, a key, a string) is  *)
(* a sequence of tokens; blanks and escapes are left out.                  *)
(***************************************************************************)

Null == [type |-> "null"]
Number(n) == [type |-> "number", number |-> n]
Text(t) == [type |-> "string", text |-> t]
Bool(b) == [type |-> "boolean", truth |-> b]
Object(fields) == [type |-> "object", fields |-> fields]
Field(key, value) == [key |-> key, value |-> value]
Array(items) == [type |-> "array", items |-> items]

\* A match is a value and where it stands: the keys and positions from the root.
Key(k) == [key |-> k]
At(i) == [index |-> i]
Match(path, value) == [path |-> path, value |-> value]
Children(node) ==
    LET v == node.value IN
    CASE v.type = "object" -> [k \in DOMAIN v.fields |-> Match(Append(node.path, Key(v.fields[k].key)), v.fields[k].value)]
      [] v.type = "array" -> [k \in DOMAIN v.items |-> Match(Append(node.path, At(k - 1)), v.items[k])]
      [] OTHER -> <<>>

-----------------------------------------------------------------------------
(* Segments.                                                               *)

\* A bound that is not given: an integer no bound is.
Absent == 99
Child(name) == [kind |-> "child", name |-> name]
Wildcard == [kind |-> "wildcard"]
Index(i) == [kind |-> "index", index |-> i]
Slice(start, end, step) == [kind |-> "slice", start |-> start, end |-> end, step |-> step]
Recursive == [kind |-> "recursive"]
Filter(path, op, literal) == [kind |-> "filter", path |-> path, op |-> op, literal |-> literal]

Least2(a, b) == IF a < b THEN a ELSE b
Most2(a, b) == IF a > b THEN a ELSE b
FromEnd(i, length) == IF i < 0 THEN length + i ELSE i
\* The positions a slice takes, one after the other, from the first to before the last.
Run(from, to, step) == [k \in 1..(IF step > 0 THEN Most2(0, (to - from + step - 1) \div step) ELSE Most2(0, (from - to - step - 1) \div (-step))) |-> from + (k - 1) * step]
FirstLeftOut(s, length) ==  \* mutant: counted down to the first, the first itself is left out
    IF length = 0 THEN <<>>
    ELSE IF s.step > 0
    THEN LET normalise(raw) == Least2(Most2(0, FromEnd(raw, length)), length)
         IN  Run(IF s.start = Absent THEN 0 ELSE normalise(s.start), IF s.end = Absent THEN length ELSE normalise(s.end), s.step)
    ELSE LET from == IF s.start = Absent THEN length - 1 ELSE FromEnd(s.start, length)
             to == IF s.end = Absent THEN 0 ELSE FromEnd(s.end, length)
         IN  Run(Least2(from, length - 1), Most2(to, -1), s.step)
Taken(s, length) ==
    IF length = 0 THEN <<>>
    ELSE IF s.step > 0
    THEN LET normalise(raw) == Least2(Most2(0, FromEnd(raw, length)), length)
         IN  Run(IF s.start = Absent THEN 0 ELSE normalise(s.start), IF s.end = Absent THEN length ELSE normalise(s.end), s.step)
    ELSE LET from == IF s.start = Absent THEN length - 1 ELSE FromEnd(s.start, length)
             to == IF s.end = Absent THEN -1 ELSE FromEnd(s.end, length)
         IN  Run(Least2(from, length - 1), Most2(to, -1), s.step)

RECURSIVE Descend(_)
Descend(node) == LET all == Children(node) IN FlattenSeq([k \in DOMAIN all |-> <<all[k]>> \o Descend(all[k])])

\* The whole numbers that occur as texts.
Ints == <<"-2">> :> -2 @@ <<"-1">> :> -1 @@ <<"0">> :> 0 @@ <<"1">> :> 1 @@ <<"2">> :> 2
IsInt(text) == text \in DOMAIN Ints

\* What a filter's member chain leads to from a candidate.
FollowPart(found, part) ==
    LET v == found.value
        key == SelectSeq(IF v.type = "object" THEN v.fields ELSE <<>>, LAMBDA f : f.key = part)
        i == IF v.type = "array" /\ IsInt(part) THEN FromEnd(Ints[part], Len(v.items)) ELSE -1
    IN  IF ~found.exists THEN found
        ELSE IF key # <<>> THEN [exists |-> TRUE, value |-> key[1].value]
        ELSE IF v.type = "array" /\ i \in 0..(Len(v.items) - 1) THEN [exists |-> TRUE, value |-> v.items[i + 1]]
        ELSE [exists |-> FALSE, value |-> Null]
Follow(path, value) == FoldLeft(FollowPart, [exists |-> TRUE, value |-> value], path)

\* Numbers and texts are ordered among themselves; texts by the place of their only token in Alphabet.
Alphabet == <<"a", "b", "c">>
Rank(v) == IF v.type = "number" THEN v.number ELSE CHOOSE k \in DOMAIN Alphabet : v.text = <<Alphabet[k]>>
CompareValues(left, right, op) ==
    LET same == left.type = right.type  ordered == same /\ left.type \in {"number", "string"} IN
    CASE op = "==" -> same /\ left = right
      [] op = "!=" -> ~(same /\ left = right)
      [] op = "<" -> ordered /\ Rank(left) < Rank(right)
      [] op = "<=" -> ordered /\ Rank(left) <= Rank(right)
      [] op = ">" -> ordered /\ Rank(left) > Rank(right)
      [] op = ">=" -> ordered /\ Rank(left) >= Rank(right)
AbsentNever(filter, value) ==  \* mutant: what lacks the member satisfies no comparison
    LET found == Follow(filter.path, value) IN
    IF filter.op = "" THEN found.exists /\ found.value.type # "null" ELSE found.exists /\ CompareValues(found.value, filter.literal, filter.op)
Test(filter, value) ==
    LET found == Follow(filter.path, value) IN
    IF filter.op = "" THEN found.exists /\ found.value.type # "null"
    ELSE IF ~found.exists THEN filter.op = "!="
    ELSE CompareValues(found.value, filter.literal, filter.op)

Apply(s, node) ==
    LET all == Children(node)  array == node.value.type = "array" IN
    CASE s.kind = "child" -> SelectSeq(IF node.value.type = "object" THEN all ELSE <<>>, LAMBDA m : Last(m.path) = Key(s.name))
      [] s.kind = "wildcard" -> all
      [] s.kind = "index" -> LET i == FromEnd(s.index, Len(all)) IN IF array /\ i >= 0 /\ i < Len(all) THEN <<all[i + 1]>> ELSE <<>>
      [] s.kind = "slice" -> IF array THEN LET t == Taken(s, Len(all)) IN [k \in DOMAIN t |-> all[t[k] + 1]] ELSE <<>>
      [] s.kind = "recursive" -> <<node>> \o Descend(node)
      [] s.kind = "filter" -> SelectSeq(all, LAMBDA m : Test(s, m.value))
Evaluate(document, segments) ==
    FoldLeft(LAMBDA nodes, s : FlattenSeq([k \in DOMAIN nodes |-> Apply(s, nodes[k])]), <<Match(<<>>, document)>>, segments)

-----------------------------------------------------------------------------
(* Reading an expression.                                                  *)

Read(s) == [ok |-> TRUE, segment |-> s]
Delimiters == {".", "[", "]", "(", ")", "*", "?", "@", ",", ":", "'"}
Rest(e, i) == SubSeq(e, i, Len(e))
\* The name that starts at a token: what comes before the next delimiter.
ReadName(e, i) ==
    LET ends == {k \in i..Len(e) : e[k] \in Delimiters} IN SubSeq(e, i, IF ends = {} THEN Len(e) ELSE Min(ends) - 1)
\* The bracket that closes the one at a position, quoted ones aside; 0 when there is none.
MatchingBracket(e, open) ==
    LET step(s, k) ==
            CASE s.close > 0 -> s
              [] e[k] = "'" -> [s EXCEPT !.quoted = ~@]
              [] s.quoted -> s
              [] e[k] = "[" -> [s EXCEPT !.depth = @ + 1]
              [] e[k] = "]" -> [s EXCEPT !.depth = @ - 1, !.close = IF s.depth = 1 THEN k ELSE 0]
              [] OTHER -> s
    IN  FoldLeft(step, [depth |-> 0, quoted |-> FALSE, close |-> 0], [n \in 1..(Len(e) - open + 1) |-> open + n - 1]).close

Quoted(t) == Len(t) >= 2 /\ t[1] = "'" /\ Last(t) = "'"
Inner(t) == SubSeq(t, 2, Len(t) - 1)
\* The parts of a text between the given token.
SplitAt(t, c) == FoldLeft(LAMBDA parts, x : IF x = c THEN Append(parts, <<>>) ELSE [parts EXCEPT ![Len(parts)] = Append(@, x)], <<<<>>>>, t)
ParseSlice(body) ==
    LET parts == SplitAt(body, ":")
        bound(k, default) == IF k > Len(parts) \/ parts[k] = <<>> THEN default ELSE Ints[parts[k]]
    IN  IF Len(parts) > 3 \/ \E k \in DOMAIN parts : parts[k] # <<>> /\ ~IsInt(parts[k]) THEN Refused
        ELSE IF bound(3, 1) = 0 THEN Refused ELSE Read(Slice(bound(1, Absent), bound(2, Absent), bound(3, 1)))

\* Reading goes on from where the last piece ended, until a piece is refused.
Piece(found, next) == [ok |-> TRUE, found |-> found, next |-> next]
GoOn(read, piece) == IF piece.ok THEN [piece EXCEPT !.found = read.found \o @] ELSE Refused
ReadAll(readPiece(_, _), e, start) ==
    LET step(read, i) == IF ~read.ok THEN read ELSE IF i < read.next THEN read ELSE GoOn(read, readPiece(e, i))
    IN  FoldLeft(step, Piece(<<>>, start), [i \in DOMAIN e |-> i])

\* The member chain of a filter: names and brackets after "@".
Member(name, next) == IF name = <<>> THEN Refused ELSE Piece(<<name>>, next)
Unquoted(t) == IF Quoted(t) THEN Inner(t) ELSE t
InBrackets(e, i, close) == IF close = 0 THEN Refused ELSE Member(Unquoted(SubSeq(e, i + 1, close - 1)), close + 1)
FilterPart(e, i) ==
    CASE e[i] = "." -> LET name == ReadName(e, i + 1) IN Member(name, i + 1 + Len(name))
      [] e[i] = "[" -> InBrackets(e, i, MatchingBracket(e, i))
      [] OTHER -> Refused
ParseFilterPath(e) == IF e = <<>> THEN Refused ELSE IF e[1] # "@" THEN Refused ELSE ReadAll(FilterPart, e, 2)
ParseLiteral(e) ==
    CASE e = <<"true">> -> [ok |-> TRUE, value |-> Bool(TRUE)]
      [] e = <<"false">> -> [ok |-> TRUE, value |-> Bool(FALSE)]
      [] e = <<"null">> -> [ok |-> TRUE, value |-> Null]
      [] Quoted(e) -> [ok |-> TRUE, value |-> Text(Inner(e))]
      [] IsInt(e) -> [ok |-> TRUE, value |-> Number(Ints[e])]
      [] OTHER -> Refused
Operators == <<"==", "!=", "<=", ">=", "<", ">">>
Unsupported == {"&&", "||", "=~"}
ReadFilter(member, op, literal) ==
    IF member.ok /\ literal.ok THEN Read(Filter(member.found, op, literal.value)) ELSE Refused
ParseCondition(inner, present) ==
    LET calls == \E k \in 2..Len(inner) : inner[k] = "(" /\ inner[k - 1] \notin Delimiters \cup Range(Operators)
        at == IF present = <<>> THEN Len(inner) + 1 ELSE Min({k \in DOMAIN inner : inner[k] = present[1]})
    IN  IF inner = <<>> THEN Refused
        ELSE IF Range(inner) \cap Unsupported # {} \/ inner[1] = "!" \/ calls \/ (present = <<>> /\ "=" \in Range(inner)) THEN Refused
        ELSE ReadFilter(ParseFilterPath(SubSeq(inner, 1, at - 1)), IF present = <<>> THEN "" ELSE present[1],
                        IF present = <<>> THEN [ok |-> TRUE, value |-> Null] ELSE ParseLiteral(Rest(inner, at + 1)))
Unwrapped(t) == IF Len(t) >= 2 /\ t[1] = "(" /\ Last(t) = ")" THEN Inner(t) ELSE t
ParseFilter(body) ==
    LET inner == Unwrapped(Tail(body)) IN ParseCondition(inner, SelectSeq(Operators, LAMBDA op : op \in Range(inner)))

ParseBracket(body) ==
    IF body = <<>> THEN Refused
    ELSE IF body = <<"*">> THEN Read(Wildcard)
    ELSE IF body[1] = "?" THEN ParseFilter(body)
    ELSE IF body[1] = "(" THEN Refused
    ELSE IF Quoted(body) THEN (IF "'" \in Range(Inner(body)) THEN Refused ELSE Read(Child(Inner(body))))
    ELSE IF "," \in Range(body) THEN Refused
    ELSE IF ":" \in Range(body) THEN ParseSlice(body)
    ELSE IF IsInt(body) THEN Read(Index(Ints[body])) ELSE Refused

\* The segments at a position; ".." stands for a segment of its own before a name, "*" or a bracket.
Bracketed(read, close) == IF read.ok THEN Piece(<<read.segment>>, close + 1) ELSE Refused
AfterBracket(e, i, close) == IF close = 0 THEN Refused ELSE Bracketed(ParseBracket(SubSeq(e, i + 1, close - 1)), close)
Named(before, name, next) == IF name = <<>> THEN Refused ELSE Piece(Append(before, Child(name)), next + Len(name))
AfterDot(e, twice, next) ==
    LET before == IF twice THEN <<Recursive>> ELSE <<>> IN
    IF next > Len(e) THEN Refused
    ELSE IF twice /\ e[next] = "[" THEN Piece(before, next)
    ELSE IF e[next] = "*" THEN Piece(Append(before, Wildcard), next + 1)
    ELSE Named(before, ReadName(e, next), next)
Segments(e, i) ==
    LET twice == i < Len(e) /\ e[i + 1] = "." IN
    CASE e[i] = "." -> AfterDot(e, twice, IF twice THEN i + 2 ELSE i + 1)
      [] e[i] = "[" -> AfterBracket(e, i, MatchingBracket(e, i))
      [] OTHER -> Refused
ParseExpression(e) ==
    IF e = <<>> THEN Refused
    ELSE IF e[1] \in {"$", ".", "["} THEN ReadAll(Segments, IF e[1] = "$" THEN e ELSE <<"$">> \o e, 2) ELSE Refused

\* The document was read as JSON before; the answer is the matches, or what is wrong with the expression.
Answer(document, parsed) == IF parsed.ok THEN [ok |-> TRUE, matches |-> Evaluate(document, parsed.found)] ELSE Refused
Execute(document, e) == Answer(document, ParseExpression(e))
\* The path of a match as it is shown.
Shown(path) == <<"$">> \o FlattenSeq([k \in DOMAIN path |-> IF "key" \in DOMAIN path[k] THEN <<"[", "'">> \o path[k].key \o <<"'", "]">>
                                                             ELSE <<"[">> \o (CHOOSE t \in DOMAIN Ints : Ints[t] = path[k].index) \o <<"]">>])
=============================================================================
