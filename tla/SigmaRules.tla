----------------------------- MODULE SigmaRules -----------------------------
(***************************************************************************)
(* The external Sigma rules of pkg/rules/sigma_loader.go: the files of a   *)
(* directory are compiled, indexed by event ID and evaluated against an    *)
(* event.  A word of a condition, the name of a block or a value is a      *)
(* sequence of its pieces, so that <<"selection", "*">> is the pattern     *)
(* that starts with <<"selection">>; case is left out.  A directory is a   *)
(* sequence of entries; a rule file holds the condition as the tree its    *)
(* author meant, which Text writes down and Parse reads back.              *)
(***************************************************************************)
EXTENDS Naturals, FiniteSets, Sequences, SequencesExt

CONSTANTS
    SigmaDirs,    \* the directories a run may find
    SigmaEvents,  \* the events a run may evaluate
    MaxExprDepth  \* 64 in the code

VARIABLES
    sigmaDir,     \* the entries of the directory
    sigmaRead,    \* how many of them have been read
    sigmaRules,   \* es.rules
    sigmaErrs,    \* the entries an error was returned for
    sigmaIndex,   \* es.unscoped and es.indexByEventType
    sigmaEvent,   \* the event evaluated last
    sigmaHits     \* the rules it hit

vars == <<sigmaDir, sigmaRead, sigmaRules, sigmaErrs, sigmaIndex, sigmaEvent, sigmaHits>>

None == [op |-> "none"]

-----------------------------------------------------------------------------
(* A condition as its author writes it.                                    *)

RECURSIVE Text(_)
Text(c) ==
    LET In(x, ops) == IF x.op \in ops THEN <<<<"(">>>> \o Text(x) \o <<<<")">>>> ELSE Text(x)
    IN  CASE c.op = "blank" -> <<>>
          [] c.op = "name"  -> <<c.name>>
          [] c.op = "of"    -> <<<<c.count>>, <<"of">>, c.target>>
          [] c.op = "not"   -> <<<<"not">>>> \o In(c.left, {"and", "or"})
          [] c.op = "and"   -> In(c.left, {"or"}) \o <<<<"and">>>> \o In(c.right, {"and", "or"})
          [] c.op = "or"    -> Text(c.left) \o <<<<"or">>>> \o In(c.right, {"or"})

-----------------------------------------------------------------------------
(* The parser: every operator returns the tree and the next position.      *)

At(ts, pos) == IF pos \in DOMAIN ts THEN ts[pos] ELSE <<>>
Result(e, pos) == [tree |-> e, pos |-> pos]
Wildcard(prefix, min) == [op |-> "wildcard", prefix |-> prefix, min |-> min]
Name(n) == [op |-> "name", name |-> n]

Under(prefix, names) == {n \in names : IsPrefix(prefix, n)}

BuildAnyOf == Wildcard(<<"selection">>, 1)

BuildAllOf(names) ==
    LET chosen == Under(<<"selection">>, names)
    IN  IF chosen # {} THEN Wildcard(<<"selection">>, Cardinality(chosen))
                       ELSE Wildcard(<<>>, Cardinality(names))

Count == [x \in {"1", "2", "any"} |-> IF x = "2" THEN 2 ELSE 1]
Quantifier == {<<x>> : x \in DOMAIN Count} \cup {<<"all">>}

\* A number before "them" or before a plain name is not looked at.
ParseQuantifier(ts, pos, names) ==
    LET all == ts[pos] = <<"all">>
        target == ts[pos + 2]
        e == CASE target = <<"them">> -> IF all THEN BuildAllOf(names) ELSE BuildAnyOf
               [] target = <<"keywords">> -> [op |-> "keywords"]
               [] Last(target) = "*" ->
                    Wildcard(Front(target), IF all THEN Cardinality(Under(Front(target), names))
                                                   ELSE Count[ts[pos][1]])
               [] OTHER -> Name(target)
    IN  Result(e, pos + 3)

RECURSIVE ParseChain(_, _, _, _)
RECURSIVE ChainFrom(_, _, _, _)

ParseAtom(ts, pos, names) ==
    CASE pos > Len(ts) -> Result(Name(<<>>), pos)
      [] At(ts, pos) = <<"(">> ->
            LET inner == ParseChain("or", ts, pos + 1, names)
            IN  IF At(ts, inner.pos) = <<")">> THEN Result(inner.tree, inner.pos + 1) ELSE inner
      [] At(ts, pos) \in Quantifier /\ pos + 2 <= Len(ts) /\ At(ts, pos + 1) = <<"of">> ->
            ParseQuantifier(ts, pos, names)
      [] At(ts, pos) = <<"keywords">> -> Result([op |-> "keywords"], pos + 1)
      [] OTHER -> Result(Name(ts[pos]), pos + 1)

RECURSIVE ParseNot(_, _, _)
ParseNot(ts, pos, names) ==
    IF At(ts, pos) = <<"not">>
    THEN LET inner == ParseNot(ts, pos + 1, names)
         IN  Result([op |-> "not", left |-> inner.tree], inner.pos)
    ELSE ParseAtom(ts, pos, names)

\* Mutant: "and" binds no tighter than "or".
OperandFlat(op, ts, pos, names) == ParseNot(ts, pos, names)

\* parseOrExpr over parseAndExpr over parseNotExpr, each a left-associative
\* chain of the one below.
Operand(op, ts, pos, names) ==
    IF op = "or" THEN ParseChain("and", ts, pos, names) ELSE ParseNot(ts, pos, names)

ParseChain(op, ts, pos, names) == ChainFrom(op, Operand(op, ts, pos, names), ts, names)

ChainFrom(op, so_far, ts, names) ==
    IF At(ts, so_far.pos) = <<op>>
    THEN LET next == Operand(op, ts, so_far.pos + 1, names)
         IN  ChainFrom(op, Result([op |-> op, left |-> so_far.tree, right |-> next.tree], next.pos),
                       ts, names)
    ELSE so_far

ParseCondExpr(ts, names) == IF ts = <<>> THEN BuildAnyOf ELSE ParseChain("or", ts, 1, names).tree

\* keywordsAll: any "all of" in the text sets it, then each quantifier over
\* keywords as it is parsed.
KeywordsAll(ts, keywords) ==
    LET overKeywords == {i \in DOMAIN ts : /\ ts[i] \in Quantifier /\ At(ts, i + 1) = <<"of">>
                                           /\ At(ts, i + 2) = <<"keywords">>}
    IN  IF overKeywords # {}
        THEN \E i \in overKeywords : ts[i] = <<"all">> /\ \A j \in overKeywords : j <= i
        ELSE keywords # {} /\ \E i \in DOMAIN ts : ts[i] = <<"all">> /\ At(ts, i + 1) = <<"of">>

-----------------------------------------------------------------------------
(* Compilation of a rule file.                                             *)

\* A value is [lead, core, trail]: the core between the two wildcards.
WithModifier(vs, mod) ==
    CASE mod = "contains"   -> {IF v.lead THEN v ELSE [v EXCEPT !.lead = TRUE, !.trail = TRUE] : v \in vs}
      [] mod = "startswith" -> {[v EXCEPT !.trail = TRUE] : v \in vs}
      [] mod = "endswith"   -> {[v EXCEPT !.lead = TRUE] : v \in vs}
      [] OTHER -> vs

\* A regular expression is the literal it looks for; "cidr" is an error, for
\* which the caller leaves the field out.
CompileFieldMatcher(spec) ==
    LET re == \E i \in DOMAIN spec.mods : spec.mods[i] = "re"
        vs == FoldLeft(WithModifier, spec.values, spec.mods)
    IN  [field   |-> spec.field,
         values  |-> IF re THEN {} ELSE vs,
         regexes |-> IF re THEN {v.core : v \in spec.values} ELSE {},
         all     |-> \E i \in DOMAIN spec.mods : spec.mods[i] = "all"]

Supported(spec) == \A i \in DOMAIN spec.mods : spec.mods[i] # "cidr"

\* A list of values is looked for in the field "_any", which no event has; a
\* block that is neither a map nor a list is dropped.
CompileSelector(block) ==
    IF block.kind = "map"
    THEN {CompileFieldMatcher(s) : s \in {s \in block.fields : Supported(s)}}
    ELSE {[field |-> "_any", values |-> block.values, regexes |-> {}, all |-> FALSE]}

\* Some rows of logsourceEventIDMap and logsourceCategoryMap: an ID with a
\* category and a type, several IDs, several categories, a category alone.
LogsourceIDs == [process_creation |-> {1}, wmi_event |-> {11, 5860}, network |-> {},
                 dns_query |-> {22}, security |-> {4688}, none |-> {}]
LogsourceCategories ==
    [process_creation |-> {"process", "process_create"}, wmi_event |-> {"persistence", "wmi"},
     network |-> {"network"}, dns_query |-> {"network", "net_dns"},
     security |-> {"process", "api_call"}, none |-> {}]

\* logsource.service is not looked at.
ApplyLogsource(f) ==
    [ids        |-> LogsourceIDs[f.category],
     categories |-> IF f.product = "windows" /\ LogsourceCategories[f.category] = {}
                    THEN {"process", "api_call", "registry"} ELSE LogsourceCategories[f.category]]

Compile(f, n) ==
    LET names == {b \in DOMAIN f.blocks : f.blocks[b].kind # "scalar"}
        ts == Text(f.condition)
    IN  [title |-> n, scope |-> ApplyLogsource(f), keywords |-> f.keywords,
         selectors |-> [b \in names |-> CompileSelector(f.blocks[b])],
         condExpr |-> ParseCondExpr(ts, names), keywordsAll |-> KeywordsAll(ts, f.keywords)]

-----------------------------------------------------------------------------
(* Evaluation.                                                             *)

Occurs(core, v) == core = <<>> \/ core \in SubSeqs(v)

WildcardMatch(v, p) ==
    CASE p.lead /\ p.trail   -> Occurs(p.core, v)
      [] p.lead /\ ~p.trail  -> IsSuffix(p.core, v)
      [] ~p.lead /\ p.trail  -> IsPrefix(p.core, v)
      [] ~p.lead /\ ~p.trail -> Occurs(p.core, v)

\* Some of the Sigma names of fields, with the program's.
Alias == [commandline |-> "cmdline", image |-> "image_path", targetfilename |-> "path"]

ExtractField(field, ev) ==
    CASE field \in DOMAIN ev.data -> ev.data[field]
      [] field \notin DOMAIN ev.data /\ field \in DOMAIN Alias /\ Alias[field] \in DOMAIN ev.data ->
            ev.data[Alias[field]]
      [] field \notin DOMAIN ev.data /\ field = "category" -> <<ev.category>>
      [] OTHER -> <<>>

FieldMatcherMatches(fm, ev) ==
    LET v == ExtractField(fm.field, ev)
    IN  /\ v # <<>>
        /\ \/ \E core \in fm.regexes : Occurs(core, v)
           \/ fm.all  /\ fm.values # {} /\ \A p \in fm.values : WildcardMatch(v, p)
           \/ ~fm.all /\ \E p \in fm.values : WildcardMatch(v, p)

SelectorMatchesEvent(sel, ev) == sel # {} /\ \A fm \in sel : FieldMatcherMatches(fm, ev)

EvalKeywords(r, ev) ==
    LET found == {k \in r.keywords : \E d \in DOMAIN ev.data : Occurs(k, ev.data[d])}
    IN  IF r.keywordsAll THEN found = r.keywords ELSE found # {}

RECURSIVE EvalExprDepth(_, _, _, _)
EvalExprDepth(e, r, ev, depth) ==
    LET Sub(x) == EvalExprDepth(x, r, ev, depth + 1)
        Sel(n) == SelectorMatchesEvent(r.selectors[n], ev)
    IN  /\ depth <= MaxExprDepth
        /\ CASE e.op = "name"     -> e.name \in DOMAIN r.selectors /\ Sel(e.name)
             [] e.op = "keywords" -> EvalKeywords(r, ev)
             [] e.op = "wildcard" ->
                  Cardinality({n \in Under(e.prefix, DOMAIN r.selectors) : Sel(n)}) >= e.min
             [] e.op = "and" -> Sub(e.left) /\ Sub(e.right)
             [] e.op = "or"  -> Sub(e.left) \/ Sub(e.right)
             [] e.op = "not" -> ~Sub(e.left)

MatchesScope(r, ev) ==
    \/ r.scope.ids = {} /\ r.scope.categories = {}
    \/ ev.id \in r.scope.ids
    \/ {ev.category, ev.type} \cap r.scope.categories # {}

Candidates(ev) ==
    LET indexed == sigmaIndex.unscoped \cup
                   (IF ev.id \in DOMAIN sigmaIndex.byID THEN sigmaIndex.byID[ev.id] ELSE {})
    IN  indexed \cup {i \in DOMAIN sigmaRules : MatchesScope(sigmaRules[i], ev)}

-----------------------------------------------------------------------------
Init ==
    /\ sigmaDir \in SigmaDirs
    /\ sigmaRead = 0 /\ sigmaRules = <<>> /\ sigmaErrs = {}
    /\ sigmaIndex = None /\ sigmaEvent = None /\ sigmaHits = {}

\* One entry of the directory.  A file that cannot be read or parsed is an
\* error that stops nothing; one without a title or a detection is no rule.
LoadEntry ==
    /\ sigmaIndex = None /\ sigmaRead < Len(sigmaDir)
    /\ sigmaRead' = sigmaRead + 1
    /\ LET f == sigmaDir[sigmaRead']
       IN  /\ sigmaErrs' = IF f.kind \in {"unreadable", "malformed"}
                           THEN sigmaErrs \cup {sigmaRead'} ELSE sigmaErrs
           /\ sigmaRules' = IF f.kind = "rule"
                            THEN Append(sigmaRules, Compile(f, sigmaRead')) ELSE sigmaRules
    /\ UNCHANGED <<sigmaDir, sigmaIndex, sigmaEvent, sigmaHits>>

BuildIndex ==
    /\ sigmaIndex = None /\ sigmaRead = Len(sigmaDir)
    /\ sigmaIndex' =
        LET ids == UNION {sigmaRules[i].scope.ids : i \in DOMAIN sigmaRules}
        IN  [op |-> "index",
             unscoped |-> {i \in DOMAIN sigmaRules : sigmaRules[i].scope = [ids |-> {}, categories |-> {}]},
             byID |-> [id \in ids |-> {i \in DOMAIN sigmaRules : id \in sigmaRules[i].scope.ids}]]
    /\ UNCHANGED <<sigmaDir, sigmaRead, sigmaRules, sigmaErrs, sigmaEvent, sigmaHits>>

\* An evaluation changes nothing another one reads: one is enough (a bound).
Evaluate ==
    /\ sigmaIndex # None /\ sigmaEvent = None
    /\ \E ev \in SigmaEvents :
        /\ sigmaEvent' = ev
        /\ sigmaHits' = {sigmaRules[i].title : i \in
                            {i \in Candidates(ev) : EvalExprDepth(sigmaRules[i].condExpr, sigmaRules[i], ev, 0)}}
    /\ UNCHANGED <<sigmaDir, sigmaRead, sigmaRules, sigmaErrs, sigmaIndex>>

Next == LoadEntry \/ BuildIndex \/ Evaluate

Spec == Init /\ [][Next]_vars

-----------------------------------------------------------------------------
(* What a rule means: the reference, over the tree its author meant.       *)
(* "them" is all the selectors.                                            *)

\* The value lies in the field where the modifiers or its wildcards put it.
Lies(v, spec, p) ==
    LET mods == ToSet(spec.mods)
        atStart == "startswith" \in mods \/ (mods = {} /\ p.trail /\ ~p.lead)
        atEnd   == "endswith" \in mods \/ (mods = {} /\ p.lead /\ ~p.trail)
    IN  \E i \in 1..(Len(v) + 1) :
            LET j == i + Len(p.core) - 1
            IN  /\ j <= Len(v) /\ SubSeq(v, i, j) = p.core
                /\ atStart => i = 1
                /\ atEnd => j = Len(v)

FieldHolds(spec, ev) ==
    \E d \in DOMAIN ev.data :
        /\ d = spec.field \/ (spec.field \in DOMAIN Alias /\ d = Alias[spec.field])
        /\ IF "all" \in ToSet(spec.mods) THEN \A p \in spec.values : Lies(ev.data[d], spec, p)
                                         ELSE \E p \in spec.values : Lies(ev.data[d], spec, p)

RECURSIVE Holds(_, _, _)
Holds(c, f, ev) ==
    LET blocks  == {b \in DOMAIN f.blocks : f.blocks[b].kind = "map"}
        true    == {b \in blocks : \A s \in f.blocks[b].fields : FieldHolds(s, ev)}
        words   == {k \in f.keywords : \E d \in DOMAIN ev.data : Occurs(k, ev.data[d])}
        OfThose(named, holding) ==
            IF c.count = "all" THEN named \subseteq holding
                               ELSE Cardinality(named \cap holding) >= Count[c.count]
    IN  CASE c.op = "blank" -> Under(<<"selection">>, true) # {}
          [] c.op = "name" /\ c.name # <<"keywords">> -> c.name \in true
          [] c.op = "name" /\ c.name = <<"keywords">> -> words # {}
          [] c.op = "of" /\ c.target = <<"keywords">> -> OfThose(f.keywords, words)
          [] c.op = "of" /\ c.target = <<"them">> -> OfThose(blocks, true)
          [] c.op = "of" /\ c.target \notin {<<"keywords">>, <<"them">>} ->
                OfThose(Under(Front(c.target), blocks), true)
          [] c.op = "not" -> ~Holds(c.left, f, ev)
          [] c.op = "and" -> Holds(c.left, f, ev) /\ Holds(c.right, f, ev)
          [] c.op = "or"  -> Holds(c.left, f, ev) \/ Holds(c.right, f, ev)

InScope(f, ev) ==
    LET ids == LogsourceIDs[f.category]
        categories == LogsourceCategories[f.category]
    IN  CASE categories # {} \/ f.product # "windows" ->
                \/ ids = {} /\ categories = {}
                \/ ev.id \in ids \/ ev.category \in categories \/ ev.type \in categories
          [] OTHER -> ev.category \in {"process", "api_call", "registry"}

\* An event hits exactly the well-formed rules of the directory that are in
\* its scope and whose condition, as the author meant it, holds of it: neither
\* a bad neighbour, nor the index, nor the parser's precedence loses or adds one
\* (LoadSigmaRules, Evaluate, parseCondExpr).
SigmaAgrees ==
    sigmaEvent # None =>
        sigmaHits = {n \in DOMAIN sigmaDir :
                        /\ sigmaDir[n].kind = "rule"
                        /\ InScope(sigmaDir[n], sigmaEvent)
                        /\ Holds(sigmaDir[n].condition, sigmaDir[n], sigmaEvent)}
=============================================================================
