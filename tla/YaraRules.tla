----------------------------- MODULE YaraRules -----------------------------
(***************************************************************************)
(* The external YARA rules of pkg/rules/yara_loader.go: a line parser, and *)
(* the matching of a buffer against the rules it made.  A word, or the     *)
(* name of a pattern, is a sequence of its pieces, a buffer a sequence of  *)
(* bytes (letters here, with "0" for the zero of UTF-16).                  *)
(***************************************************************************)
EXTENDS Naturals, FiniteSets, Sequences, SequencesExt

CONSTANTS
    YaraFiles,  \* the rule files a run may find, each a sequence of rules as meant
    Buffers,    \* the contents a run may scan
    ScanCap     \* yaraScanCap: 512 KB in the code

VARIABLES
    yaraMeant,  \* the rules the file was written to hold
    yaraLine,   \* i of parseYaraFile
    yaraRules,  \* the rules compiled
    yaraErrs,   \* how many errors were returned
    yaraBuffer, \* what was scanned
    yaraHits    \* the names of the rules that fired

vars == <<yaraMeant, yaraLine, yaraRules, yaraErrs, yaraBuffer, yaraHits>>

Unscanned == <<"unscanned">>

-----------------------------------------------------------------------------
(* A rule as its author writes it, in one of the layouts he may choose.    *)

Words(names, sep) == FlattenSeq([i \in DOMAIN names |->
                                    IF i = 1 THEN <<names[i]>> ELSE <<sep, names[i]>>])

ConditionText(c) ==
    CASE c.op = "all"   -> <<<<"all">>, <<"of">>, <<"them">>>>
      [] c.op = "any"   -> <<<<"any">>, <<"of">>, <<"them">>>>
      [] c.op = "count" -> <<<<c.n>>, <<"of">>, <<"them">>>>
      [] c.op = "group" -> <<<<"any">>, <<"of">>, <<"(", "$">> \o c.prefix \o <<"*", ")">>>>
      [] c.op = "or"    ->
            FlattenSeq([i \in DOMAIN c.clauses |->
                (IF i = 1 THEN <<>> ELSE <<<<"or">>>>) \o Words(c.clauses[i], <<"and">>)])

RuleText(r) ==
    (IF r.layout = "brace_below" THEN <<[k |-> "rule", name |-> r.name, brace |-> FALSE], [k |-> "open"]>>
                                 ELSE <<[k |-> "rule", name |-> r.name, brace |-> TRUE]>>)
    \o <<[k |-> "section", name |-> "strings", words |-> <<>>]>>
    \o [i \in DOMAIN r.strings |-> [k |-> "string", pattern |-> r.strings[i]]]
    \o <<[k |-> "blank"]>>
    \o (IF r.layout = "one_line"
        THEN <<[k |-> "section", name |-> "condition", words |-> ConditionText(r.condition)]>>
        ELSE <<[k |-> "section", name |-> "condition", words |-> <<>>],
               [k |-> "words", words |-> ConditionText(r.condition)]>>)
    \o (IF r.layout = "unclosed" THEN <<>> ELSE <<[k |-> "close"]>>)

FileText == FlattenSeq([i \in DOMAIN yaraMeant |-> RuleText(yaraMeant[i])])

-----------------------------------------------------------------------------
(* The parser.                                                             *)

Within(words, text) == text \in SubSeqs(words)

\* tokeniseBoolExpr, which drops the parentheses around a word.
Tokens(words) == SelectSeq(words, LAMBDA w : w \notin {<<"(">>, <<")">>})

Number == [x \in {"1", "2", "3"} |-> CASE x = "1" -> 1 [] x = "2" -> 2 [] x = "3" -> 3]

\* The forms are looked for anywhere in the text, in this order, and whatever
\* stands beside the one found is not looked at.
ParseConditionExpr(words) ==
    LET groups == {i \in DOMAIN words : /\ i > 2 /\ Len(words[i]) > 3
                                        /\ SubSeq(words, i - 2, i - 1) = <<<<"any">>, <<"of">>>>
                                        /\ SubSeq(words[i], 1, 2) = <<"(", "$">>}
        counts == {i \in DOMAIN words : /\ i > 1 /\ words[i] = <<"of">>
                                        /\ Len(words[i - 1]) = 1 /\ words[i - 1][1] \in DOMAIN Number}
        First(S) == CHOOSE i \in S : \A j \in S : i <= j
    IN  CASE Within(words, <<<<"all">>, <<"of">>, <<"them">>>>) -> [mode |-> "all"]
          [] groups # {} /\ ~Within(words, <<<<"all">>, <<"of">>, <<"them">>>>) ->
                LET w == words[First(groups)]
                IN  [mode |-> "group", prefix |-> <<"$">> \o SubSeq(w, 3, Len(w) - 2)]
          [] OTHER ->
                IF Within(words, <<<<"any">>, <<"of">>, <<"them">>>>) THEN [mode |-> "any"]
                ELSE IF counts # {} THEN [mode |-> "count", min |-> Number[words[First(counts) - 1][1]]]
                ELSE IF /\ \E i \in DOMAIN words : words[i] \in {<<"and">>, <<"or">>, <<"not">>}
                        /\ \E i \in DOMAIN words : Head(words[i]) = "$"
                     THEN [mode |-> "bool", tokens |-> Tokens(words)]
                     ELSE [mode |-> "any"]

\* A block runs from the first "{" to the first line that is a "}", whatever
\* lies between: a string that does not parse is left out without a word.
Opening(ls, start) ==
    LET braces == {i \in start..Len(ls) : \/ ls[i].k = "open"
                                          \/ ls[i].k = "rule" /\ ls[i].brace}
    IN  IF braces = {} THEN Len(ls) ELSE CHOOSE i \in braces : \A j \in braces : i <= j

Closings(ls, open) == {i \in (open + 1)..Len(ls) : ls[i].k = "close"}

Section(ls, open, i) ==
    LET headers == {j \in (open + 1)..i : ls[j].k = "section"}
    IN  IF headers = {} THEN "" ELSE ls[CHOOSE j \in headers : \A k \in headers : k <= j].name

LineWords(l) == CASE l.k \in {"section", "words"} -> l.words
                  [] l.k = "rule" -> <<<<"rule">>, <<l.name>>>>
                  [] OTHER -> <<>>

ParseRuleBlock(ls, start, close) ==
    LET open == Opening(ls, start)
        body(s) == SelectSeq([i \in 1..(close - 1) |-> i],
                             LAMBDA i : i > open /\ Section(ls, open, i) = s)
        strings == SelectSeq(body("strings"),
                             LAMBDA i : ls[i].k = "string" /\ ls[i].pattern.kind # "bad")
        conds == body("condition")
    IN  [name      |-> ls[start].name,
         patterns  |-> [i \in DOMAIN strings |-> ls[strings[i]].pattern],
         condition |-> ParseConditionExpr(FlattenSeq([i \in DOMAIN conds |-> LineWords(ls[conds[i]])]))]

-----------------------------------------------------------------------------
(* Matching.                                                               *)

Lower(b) == IF b = "A" THEN "a" ELSE b
LowerAll(s) == [i \in DOMAIN s |-> Lower(s[i])]
ToUTF16LE(s) == FlattenSeq([i \in DOMAIN s |-> <<s[i], "0">>])
Capped(buf) == SubSeq(buf, 1, IF Len(buf) < ScanCap THEN Len(buf) ELSE ScanCap)

\* "?" is a masked byte, and stands for any.
MatchHexWithMask(buf, bytes) ==
    \E i \in 0..(Len(buf) - Len(bytes)) :
        \A j \in DOMAIN bytes : bytes[j] = "?" \/ buf[i + j] = bytes[j]

\* A regular expression is the set of the literals it stands for.
MatchPattern(p, buf) ==
    CASE p.kind = "hex"     -> MatchHexWithMask(buf, p.bytes)
      [] p.kind = "regex"   -> \E s \in p.literals : s \in SubSeqs(buf)
      [] p.kind = "literal" ->
            \/ p.nocase /\ LowerAll(p.bytes) \in SubSeqs(LowerAll(buf))
            \/ ~p.nocase /\ p.bytes \in SubSeqs(buf)
            \/ p.wide /\ ToUTF16LE(p.bytes) \in SubSeqs(buf)

\* One entry for each name: the last pattern of that name decides.
MatchSet(patterns, buf) ==
    {id \in {patterns[i].id : i \in DOMAIN patterns} :
        \E i \in DOMAIN patterns : /\ patterns[i].id = id /\ MatchPattern(patterns[i], buf)
                                   /\ \A j \in DOMAIN patterns : patterns[j].id = id => j <= i}

RECURSIVE SplitTokens(_, _)
SplitTokens(ts, sep) ==
    LET seps == {i \in DOMAIN ts : ts[i] = sep}
    IN  IF seps = {} THEN <<ts>>
        ELSE LET i == CHOOSE i \in seps : \A j \in seps : i <= j
             IN  <<SubSeq(ts, 1, i - 1)>> \o SplitTokens(SubSeq(ts, i + 1, Len(ts)), sep)

\* Only the first word of a term counts, so a term that begins with "not" asks
\* for a pattern of that name.
TermHolds(term, matchSet) == term = <<>> \/ term[1] \in matchSet

\* Mutant: the text is cut at "and" first.
EvalBoolTokensSwapped(ts, matchSet) ==
    \A ands \in ToSet(SplitTokens(ts, <<"and">>)) :
        \E term \in ToSet(SplitTokens(ands, <<"or">>)) : TermHolds(term, matchSet)

EvalBoolTokens(ts, matchSet) ==
    \E clause \in ToSet(SplitTokens(ts, <<"or">>)) :
        \A term \in ToSet(SplitTokens(clause, <<"and">>)) : TermHolds(term, matchSet)

EvalCondition(c, patterns, matchSet) ==
    CASE c.mode = "all"   -> Cardinality(matchSet) = Len(patterns)
      [] c.mode = "count" -> Cardinality(matchSet) >= c.min
      [] c.mode = "bool"  -> EvalBoolTokens(c.tokens, matchSet)
      [] c.mode = "group" -> \E id \in matchSet : IsPrefix(c.prefix, id)
      [] c.mode = "any"   -> matchSet # {}

Triggered(r, buf) ==
    /\ r.patterns # <<>>
    /\ EvalCondition(r.condition, r.patterns, MatchSet(r.patterns, Capped(buf)))

-----------------------------------------------------------------------------
Init ==
    /\ yaraMeant \in YaraFiles
    /\ yaraLine = 1 /\ yaraRules = <<>> /\ yaraErrs = 0
    /\ yaraBuffer = Unscanned /\ yaraHits = {}

AtRule == yaraLine \in DOMAIN FileText /\ FileText[yaraLine].k = "rule"

SkipLine ==
    /\ yaraLine \in DOMAIN FileText /\ ~AtRule
    /\ yaraLine' = yaraLine + 1
    /\ UNCHANGED <<yaraMeant, yaraRules, yaraErrs, yaraBuffer, yaraHits>>

\* A block without its end is an error; the lines in it are then looked at again.
ReadRule ==
    /\ AtRule
    /\ LET closings == Closings(FileText, Opening(FileText, yaraLine))
       IN  \/ /\ closings = {}
              /\ yaraErrs' = yaraErrs + 1 /\ yaraLine' = yaraLine + 1
              /\ UNCHANGED yaraRules
           \/ \E close \in closings :
                /\ \A c \in closings : close <= c
                /\ yaraRules' = Append(yaraRules, ParseRuleBlock(FileText, yaraLine, close))
                /\ yaraLine' = close + 1
                /\ UNCHANGED yaraErrs
    /\ UNCHANGED <<yaraMeant, yaraBuffer, yaraHits>>

\* A scan changes nothing another one reads: one is enough (a bound).
Match ==
    /\ yaraLine > Len(FileText) /\ yaraBuffer = Unscanned
    /\ \E buf \in Buffers :
        /\ yaraBuffer' = buf
        /\ yaraHits' = {yaraRules[i].name : i \in {i \in DOMAIN yaraRules : Triggered(yaraRules[i], buf)}}
    /\ UNCHANGED <<yaraMeant, yaraLine, yaraRules, yaraErrs>>

Next == SkipLine \/ ReadRule \/ Match

Spec == Init /\ [][Next]_vars

-----------------------------------------------------------------------------
(* What a rule means.                                                      *)

Meant(r, buf) ==
    LET found == {s \in ToSet(r.strings) : s.kind # "bad" /\ MatchPattern(s, Capped(buf))}
        ids == {s.id : s \in found}
        c == r.condition
    IN  CASE c.op = "all"   -> found = {s \in ToSet(r.strings) : s.kind # "bad"}
          [] c.op = "any"   -> found # {}
          [] c.op = "count" -> Cardinality(found) >= Number[c.n]
          [] c.op = "group" -> \E id \in ids : IsPrefix(<<"$">> \o c.prefix, id)
          [] c.op = "or"    -> \E i \in DOMAIN c.clauses : \A j \in DOMAIN c.clauses[i] :
                                    c.clauses[i][j] \in ids

\* The rules that fire on a buffer are the closed ones of the file, with a
\* string, whose condition, of one of the forms the loader's header lists, holds
\* of it: a rule keeps its own strings and condition whatever follows it
\* (parseYaraFile, parseConditionExpr, evalCondition).
YaraAgrees ==
    yaraBuffer # Unscanned =>
        /\ yaraHits = {r.name : r \in {r \in ToSet(yaraMeant) :
                            /\ r.layout # "unclosed" /\ \E s \in ToSet(r.strings) : s.kind # "bad"
                            /\ Meant(r, yaraBuffer)}}
        /\ yaraErrs = Cardinality({r \in ToSet(yaraMeant) : r.layout = "unclosed"})
=============================================================================
