----------------------------- MODULE MCRuleTools -----------------------------
(* Rule bases for RuleTools: rules with up to two contents and one pcre, of  *)
(* patterns that differ in what each tool asks of them.                      *)
EXTENDS RuleTools

Pattern(text, neg, mod, rxpc, hs, long) ==
    [text |-> text, neg |-> neg, mod |-> mod, rxpc |-> rxpc, hs |-> hs, long |-> long]

Good    == Pattern("good", FALSE, TRUE, TRUE, TRUE, TRUE)
Short   == Pattern("short", FALSE, TRUE, TRUE, TRUE, FALSE)
Not     == Pattern("not", TRUE, TRUE, TRUE, TRUE, TRUE)
Refused == Pattern("refused", FALSE, TRUE, FALSE, TRUE, TRUE)
Pcre    == Pattern("pcre", FALSE, TRUE, TRUE, TRUE, TRUE)
Plain   == Pattern("plain", FALSE, FALSE, TRUE, TRUE, TRUE)
Deep    == Pattern("deep", FALSE, TRUE, TRUE, FALSE, TRUE)

RuleOf(n, contents, pcres) == [sid |-> n, content |-> contents, pcre |-> pcres]

ContentLists == {<<>>, <<Good>>, <<Short>>, <<Not>>, <<Refused>>,
                 <<Good, Refused>>, <<Refused, Refused>>, <<Good, Not>>, <<Refused, Good>>}
PcreLists == {<<>>, <<Pcre>>, <<Plain>>, <<Deep>>}

\* Two rules of any kind, and three with one pattern each.
MCRuleBases ==
    {<<RuleOf(1, c1, p1), RuleOf(2, c2, p2)>> : c1, c2 \in ContentLists, p1, p2 \in PcreLists}
    \cup {<<RuleOf(1, c1, <<>>), RuleOf(2, <<>>, p2), RuleOf(3, c3, p3)>> :
              c1, c3 \in {<<Good>>, <<Short>>, <<Refused>>}, p2, p3 \in {<<Pcre>>, <<Deep>>}}

\* Options of a rule in sequence, with their places.
Placed(names) == [i \in DOMAIN names |-> [name |-> names[i][1], neg |-> names[i][2], at |-> i]]

Named(name) == <<name, FALSE>>
\* A content or pcre with a buffer in front of it and modifiers behind it.
Clauses(buffers, modifiers) ==
    {b \o <<k>> \o m : b \in buffers, k \in {<<"content", FALSE>>, <<"content", TRUE>>, Named("pcre")},
                       m \in modifiers}
Alone(names) == {<<Named(n)>> : n \in names}

Nocase == <<Named("nocase")>>
TwoOf == Clauses({<<>>} \cup Alone({"http.uri", "http.method", "dns_query"}),
                 {<<>>, Nocase, <<Named("isdataat")>>, Nocase \o <<Named("offset")>>})
         \cup Alone({"flowbits", "byte_test", "reference", "tls_sni", "tls.cert"})
ThreeOf == Clauses({<<>>} \cup Alone({"http.uri", "dns_query"}), {<<>>, Nocase})
           \cup Alone({"flowbits", "byte_test"})

Heads == {<<Named("msg")>>, <<Named("msg"), Named("flow")>>}

\* Rules of up to two clauses of any kind, and of three of the most usual ones; a rule
\* ends with its sid.
MCRawRules ==
    {Placed(h \o a \o b \o <<Named("sid")>>) : h \in Heads, a \in TwoOf, b \in TwoOf \cup {<<>>}}
    \cup {Placed(h \o a \o b \o c \o <<Named("sid")>>) :
              h \in {<<Named("msg"), Named("flow")>>}, a, b, c \in ThreeOf}

MCRatios == {<<10>>, <<5, 5>>, <<1, 9>>, <<3, 3>>, <<3, 3, 4>>}
=============================================================================
