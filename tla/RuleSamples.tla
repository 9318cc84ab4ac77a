---------------------------- MODULE RuleSamples ----------------------------
(* Rule files, events and buffers for the runs over SigmaRules, YaraRules. *)
EXTENDS Naturals, Sequences, SequencesExt

-----------------------------------------------------------------------------
(* Sigma.  Conditions over two selections, a filter and two keywords.      *)
Sel  == <<"selection">>
SelX == <<"selection", "x">>
Filt == <<"filter">>
Star == <<"selection", "*">>
Words == <<"keywords">>

NameOf(n) == [op |-> "name", name |-> n]
OfThe(q, t) == [op |-> "of", count |-> q, target |-> t]
Not(x) == [op |-> "not", left |-> x]
Both(op, x, y) == [op |-> op, left |-> x, right |-> y]
Op == {"and", "or"}

Three == {NameOf(Sel), OfThe("all", Star), OfThe("1", Words)}
Few == Three \cup {NameOf(Filt)}
Many == Few \cup {NameOf(SelX), NameOf(<<"typo">>), NameOf(Words), OfThe("1", Star), OfThe("2", Star),
                  OfThe("any", Star), OfThe("all", Words)}
Pairs == {Both(o, x, y) : o \in Op, x \in Few, y \in Few}
SigmaConditions ==
    {[op |-> "blank"]} \cup Many \cup Pairs \cup {Not(x) : x \in Many \cup Pairs}
    \cup {Both(o, Not(x), y) : o \in Op, x \in Few, y \in Few}
    \cup {Both(o, x, Not(y)) : o \in Op, x \in Few, y \in Few}
    \cup {Both(o, Both(p, x, NameOf(Filt)), y) : o \in Op, p \in Op, x \in Three, y \in Three}
    \cup {Both(o, x, Both(p, NameOf(Filt), y)) : o \in Op, p \in Op, x \in Three, y \in Three}

Plain(word) == [lead |-> FALSE, core |-> <<word>>, trail |-> FALSE]
FieldSpec(field, mods, values) == [field |-> field, mods |-> mods, values |-> values]
Mapping(fields) == [kind |-> "map", fields |-> fields]
SigmaFile(cond, blocks, keywords, category, product) ==
    [kind |-> "rule", condition |-> cond, blocks |-> blocks, keywords |-> keywords,
     category |-> category, product |-> product]
OneBlock(fields, category, product) ==
    SigmaFile(NameOf(Sel), [n \in {Sel} |-> Mapping(fields)], {}, category, product)

ThreeBlocks == [n \in {Sel, SelX, Filt} |-> Mapping({FieldSpec(n[Len(n)], <<>>, {Plain("a")})})]
ConditionRules == {SigmaFile(c, ThreeBlocks, {<<"k">>, <<"l">>}, "none", "none") : c \in SigmaConditions}

\* "them" where every block is a selection by its name and, for "all of them",
\* where none is.  Among others the program counts the selections alone.
Blocks(fields) == [n \in {<<f>> : f \in fields} |-> Mapping({FieldSpec(n[1], <<>>, {Plain("a")})})]
TwoSelections == [n \in {Sel, SelX} |-> ThreeBlocks[n]]
Them == {OfThe(q, <<"them">>) : q \in {"1", "any", "all"}}
ThemConditions == Them \cup {Not(x) : x \in Them} \cup {Both(o, x, NameOf(SelX)) : o \in Op, x \in Them}
ThemRules ==
    {SigmaFile(c, TwoSelections, {}, "none", "none") : c \in ThemConditions}
    \cup {SigmaFile(c, Blocks({"x", "filter"}), {}, "none", "none") :
            c \in {OfThe("all", <<"them">>), Not(OfThe("all", <<"them">>))}}

\* One field or two: where its values must lie.
WrittenValues == {[lead |-> l, core |-> <<"a", "b">>, trail |-> t] : l \in BOOLEAN, t \in BOOLEAN}
Modifiers == {<<"contains">>, <<"startswith">>, <<"endswith">>, <<"re">>, <<"contains", "all">>}
FieldSpecs ==
    {FieldSpec("commandline", <<>>, {w}) : w \in WrittenValues}
    \cup {FieldSpec("commandline", m, {Plain("a"), [Plain("a") EXCEPT !.core = <<"b", "a">>]}) : m \in Modifiers}
FieldRules ==
    {OneBlock({s}, "none", "none") : s \in FieldSpecs}
    \cup {OneBlock({s, FieldSpec("image", <<"endswith">>, {Plain("b")})}, "none", "none") : s \in FieldSpecs}

\* Scopes, and directories with entries that are no rules.
ScopeRule(category, product) == OneBlock({FieldSpec("selection", <<>>, {Plain("a")})}, category, product)
ScopeRules == {ScopeRule(c, p) :
    c \in {"process_creation", "wmi_event", "network", "dns_query", "security", "none"},
    p \in {"windows", "none"}}
Others == {[kind |-> k] : k \in {"dir", "other", "unreadable", "malformed", "untitled"}}

TestSigmaDirs ==
    {<<r>> : r \in ConditionRules \cup ThemRules \cup FieldRules}
    \cup {<<r, o, ScopeRule("network", "none")>> : r \in ScopeRules, o \in Others}

Event(id, category, type, data) == [id |-> id, category |-> category, type |-> type, data |-> data]
TestSigmaEvents ==
    {Event(1, "process", "process_create", [f \in fs \cup {"text"} |-> IF f = "text" THEN ws ELSE <<"a">>]) :
        fs \in SUBSET {"selection", "x", "filter"}, ws \in {<<"z">>, <<"k">>, <<"k", "l">>}}
    \cup {Event(0, "network", "net_connect", [f \in {"cmdline", "image_path"} |-> IF f = "cmdline" THEN v ELSE w]) :
            v \in SeqOf({"a", "b"}, 3), w \in {<<"b">>, <<"b", "a">>}}
    \cup {Event(id, c, "process_create", [f \in {"selection"} |-> <<"a">>]) :
            id \in {0, 1, 22, 4688, 5860, 7}, c \in {"process", "network", "registry", "persistence"}}

-----------------------------------------------------------------------------
(* YARA.  Every kind of pattern, every form of condition, three layouts.   *)
Literal(id, bytes, nocase, wide) ==
    [id |-> id, kind |-> "literal", bytes |-> bytes, nocase |-> nocase, wide |-> wide]
A1  == Literal(<<"$", "a", "1">>, <<"a", "b">>, FALSE, FALSE)
A2  == Literal(<<"$", "a", "2">>, <<"A">>, TRUE, TRUE)
Hex == [id |-> <<"$", "h">>, kind |-> "hex", bytes |-> <<"b", "?", "b">>]
Reg == [id |-> <<"$", "r">>, kind |-> "regex", literals |-> {<<"b", "b">>, <<"A", "A">>}]
Bad == [id |-> <<"$", "bad">>, kind |-> "bad"]

Clauses == {<<p.id>> : p \in {A1, A2, Hex}} \cup {<<A1.id, Hex.id>>, <<A2.id, Hex.id>>, <<A1.id, A2.id, Hex.id>>}
YaraConditions ==
    {[op |-> "all"], [op |-> "any"], [op |-> "group", prefix |-> <<"a">>]}
    \cup {[op |-> "count", n |-> n] : n \in {"1", "2", "3"}}
    \cup {[op |-> "or", clauses |-> <<x, y>>] : x \in Clauses, y \in Clauses}
    \cup {[op |-> "or", clauses |-> <<x>>] : x \in {c \in Clauses : Len(c) > 1}}

YaraRule(name, strings, condition, layout) ==
    [name |-> name, strings |-> strings, condition |-> condition, layout |-> layout]
TestYaraFiles ==
    {<<YaraRule("r1", <<A1, A2, Bad, Hex>>, c, l), YaraRule("r2", <<Reg>>, [op |-> "any"], k)>> :
        c \in YaraConditions, l \in {"plain", "one_line", "brace_below"}, k \in {"plain", "unclosed"}}
    \cup {<<YaraRule("r3", <<Bad>>, [op |-> "all"], "plain"), YaraRule("r1", <<Reg>>, [op |-> "any"], "plain")>>}
TestBuffers ==
    UNION {[1..n -> {"a", "A", "b"}] : n \in 1..4}
    \cup {<<"A", "0">>, <<"0", "A", "0", "b", "b">>, <<"a", "a", "a", "a", "b", "b", "b">>}
=============================================================================
