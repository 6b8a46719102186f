------------------------------ MODULE DocaRules ------------------------------
(***************************************************************************)
(* The tools that make a rule base fit for DOCA: clean_and_fix takes out   *)
(* of every rule what DOCA does not support, negated contents and pcres    *)
(* with all that belongs to them first of all, and filter_rule gives up    *)
(* the rules that still have something unsupported                         *)
(* (src/data/rule_sampler.py, the actions cleanfix and filter).            *)
(*                                                                         *)
(* The options of a rule form a list in which the meaning of one depends   *)
(* on its place: a modifier belongs to the content in front of it, a       *)
(* buffer is what the content behind it is looked for in.  The tools walk  *)
(* over the list with indices in both directions.                          *)
(*                                                                         *)
(* An option is its name, whether its value is negated, and its place in   *)
(* the source.  One name stands for those that are treated alike; values,  *)
(* the list of directions of flow and the ports of the header are left     *)
(* out.  A loop is applied to a set of states, of one element or, after an *)
(* IndexError, of none; so are the results.                                *)
(***************************************************************************)
EXTENDS Naturals, Sequences, Selections

Keywords    == {"content", "pcre"}                 \* content_kw
Unsupported == {"reference", "isdataat"}           \* metadata, classtype, target, bsize
Modifiers   == {"nocase", "offset", "isdataat", "byte_test", "pcre"}   \* content_modifiers
HttpBuffers == {"http.uri", "http.method"}
AllowedHttp == {"http.uri"}                        \* allowed_http_options
DnsBuffers  == {"dns.query"}

\* The modifiers that belong to a content and are not taken out of every rule.
ContentModifiers == Modifiers \ (Unsupported \cup {"pcre"})

\* The options of a rule: behind a buffer of http and behind the sid a modifier has a
\* keyword of its own.
IsRule(opts) ==
    /\ opts \in Seq([name : STRING, neg : BOOLEAN, at : Nat])
    /\ \A i \in DOMAIN opts : opts[i].at = i
    /\ \A i, j \in DOMAIN opts :
          i < j /\ opts[i].name \in HttpBuffers \cup {"sid"} /\ opts[j].name \in ContentModifiers
              => \E k \in i..j : opts[k].name \in Keywords

\* filter_options
Without(opts, names) == Select(opts, {i \in DOMAIN opts : opts[i].name \notin names})

\* replace_option
Renamed(opts, from, to) ==
    [i \in DOMAIN opts |-> IF opts[i].name = from THEN [opts[i] EXCEPT !.name = to] ELSE opts[i]]

IsContent(o) == o.name = "content"
Unwanted(o)  == (o.name = "content" /\ o.neg) \/ o.name = "pcre"

\* The element at a negative index of Python, and the list without it.
FromEnd(s, back) == s[Len(s) - back + 1]
DelFromEnd(s, back) == Select(s, DOMAIN s \ {Len(s) - back + 1})

\* One prefix of prefix_content_modifier_before.
DelPrefixed(st, buffers) ==
    IF st.back > Len(st.kept) THEN {}
    ELSE IF FromEnd(st.kept, st.back).name \in buffers
         THEN {[st EXCEPT !.kept = DelFromEnd(@, st.back)]} ELSE {st}

\* The loop goes back over what has been kept, from the end to the last content, and
\* takes out the buffers it meets.  The element is looked at before the bound of the
\* loop, and the index grows although the list has become shorter.
BackStep(st) ==
    IF st.stop THEN {st}
    ELSE IF st.back > Len(st.kept) THEN {}
    ELSE IF IsContent(FromEnd(st.kept, st.back)) \/ st.back > Len(st.kept) - 1
         THEN {[st EXCEPT !.stop = TRUE]}
         ELSE {[s EXCEPT !.back = @ + 1] :
                 s \in UNION {DelPrefixed(t, DnsBuffers) : t \in DelPrefixed(st, HttpBuffers)}}

TakeBack(kept) ==
    LET turns == Len(kept) + 1
        walk[n \in 0..turns] ==
            IF n = 0 THEN {[stop |-> FALSE, back |-> 1, kept |-> kept]}
            ELSE UNION {BackStep(st) : st \in walk[n - 1]}
    IN {st.kept : st \in walk[turns]}

\* What ends the way forward over the options of an unwanted content.
Stops(o) == o.name \in {"sid", "content", "pcre"} \cup HttpBuffers

\* A mutant: the options behind an unwanted content are kept.
NextOwn(opts, idx) == IF idx < Len(opts) THEN idx + 1 ELSE 0

\* The index of the option to go on with; 0 when the list ends before.
NextKept(opts, idx) == Earliest({i \in DOMAIN opts : i > idx /\ Stops(opts[i])})

\* The loop over the options of a rule.
TakeStep(opts, st) ==
    IF st.idx > Len(opts) THEN {st}
    ELSE IF ~Unwanted(opts[st.idx])
         THEN {[kept |-> Append(st.kept, opts[st.idx]), idx |-> st.idx + 1]}
         ELSE {[kept |-> kept, idx |-> NextKept(opts, st.idx)] :
                 kept \in {k \in TakeBack(st.kept) : NextKept(opts, st.idx) # 0}}

TakeOut(opts) ==
    LET walk[n \in 0..Len(opts)] ==
            IF n = 0 THEN {[kept |-> <<>>, idx |-> 1]}
            ELSE UNION {TakeStep(opts, st) : st \in walk[n - 1]}
    IN {st.kept : st \in walk[Len(opts)]}

\* clean_dangling_modifiers: the modifiers in front of the first content; an option is
\* popped by its name, wherever it is.
Dangling(opts) ==
    {opts[i].name : i \in {j \in DOMAIN opts : \A k \in 1..j : ~IsContent(opts[k])}} \cap Modifiers

\* Behind the loop of clean_and_fix: old names, http options, the rest.
Fixed(opts) ==
    LET named == Renamed(Renamed(opts, "dns_query", "dns.query"), "tls_sni", "tls.sni")
        legal == Without(named, HttpBuffers \ AllowedHttp)
    IN Without(legal, Dangling(legal))

\* clean_and_fix, of one rule
CleanAndFix(opts) == {Fixed(taken) : taken \in TakeOut(Without(opts, Unsupported))}

\* The options filter_rule gives a rule up for; the names of tls other than sni, too.
Forbidden == {"offset", "flowbits", "byte_test", "tls.cert"}
BadHeaders == {"grouped", "smtp"}

\* filter_rule
Accepted(opts, header) ==
    /\ \E i \in DOMAIN opts : IsContent(opts[i]) /\ ~opts[i].neg
    /\ \A i \in DOMAIN opts : opts[i].name \notin Forbidden
    /\ header \notin BadHeaders
=============================================================================
