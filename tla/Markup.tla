------------------------------- MODULE Markup -------------------------------
(***************************************************************************)
(* The functions of liboul/util.c on markup: HTML to XHTML and plain text, *)
(* stripping, and links for addresses in a text.  Each walks over its      *)
(* input once with a few flags and a stack.                                *)
(*                                                                         *)
(* The input is a sequence of tokens: tags with what the code looks at in  *)
(* them, entities, single characters, and the prefixes that start a link.  *)
(***************************************************************************)
EXTENDS Integers, SequencesExt

CONSTANTS
    HtmlToken,      \* tokens of HTML, of those below
    TextToken,      \* tokens of text that is searched for links
    MaxTokens       \* bound on the tokens of one input

VARIABLES
    input,          \* the tokens so far
    alphabet        \* "html" or "text"

markupVars == <<input, alphabet>>

None == "none"

-----------------------------------------------------------------------------
(* oul_markup_html_to_xhtml.  A state: the output, as marks and text; the   *)
(* plain text; the stack of open tags, the innermost first; and for links   *)
(* the last URL and the text since.                                         *)

\* What ALLOW_TAG_ALT and the special cases make of an opening tag.
Becomes == [div |-> "div", i |-> "em", b |-> "span"]
Closing == [cdiv |-> "div", ci |-> "i", cb |-> "b", cfont |-> "font", cbody |-> "body",
            ca |-> "a", cunknown |-> "unknown"]
Hrefs == [a_x |-> <<"x">>, a_http |-> <<"http", "x">>]

Opened(s, src, dest) ==
    [s EXCEPT !.tags = <<[src |-> src, dest |-> dest, ignore |-> FALSE]>> \o @,
              !.xhtml = Append(@, <<"open", dest>>)]
Written(s, x, p) == [s EXCEPT !.xhtml = @ \o x, !.plain = @ \o p]

Character(s, c, shown) ==
    [Written(s, << <<"text", c>> >>, <<shown>>)
        EXCEPT !.cdata = IF @ = <<None>> THEN @ ELSE Append(@, c)]

Less(s) == Character(Written(s, << <<"text", "<">> >>, <<"<">>), "space", "space")
OpenBreak(s) == Written(s, << <<"empty", "br">> >>, <<"newline">>)
OpenImage(s) == Written(s, << <<"empty", "img">> >>, <<"alt">>)
OpenLink(s, t) ==
    IF t = "a" THEN Opened(s, "a", "a")
    ELSE [Opened(s, "a", "a") EXCEPT !.url = Hrefs[t], !.cdata = <<>>]
\* A font without a style is put on the stack to be ignored.
OpenFont(s, styled) ==
    IF styled THEN Opened(s, "font", "span")
    ELSE [s EXCEPT !.tags = <<[src |-> "font", dest |-> "span", ignore |-> TRUE]>> \o @]
OpenBody(s) == Opened(s, "body", "span")

OpenTag(s, t) ==
    CASE t \in DOMAIN Becomes -> Opened(s, t, Becomes[t])
      [] t = "div_self" -> Written(s, << <<"empty", "div">> >>, <<>>)
      [] t = "br" -> OpenBreak(s)
      [] t = "img" -> OpenImage(s)
      [] t \in {"a"} \cup DOMAIN Hrefs -> OpenLink(s, t)
      [] t \in {"font", "font_color"} -> OpenFont(s, t = "font_color")
      [] t = "body_bg" -> OpenBody(s)
      \* A tag that is not one of these, or that never ends; here "<" and a space.
      [] OTHER -> Less(s)

\* One tag of those a closing tag ends; a link adds its address to the plain text.
Popped(s) ==
    LET pt == Head(s.tags)
        shown == s.cdata # <<None>> /\ s.url # <<>> /\ s.cdata # s.url
    IN [s EXCEPT !.tags = Tail(@), !.xhtml = Append(@, <<"close", pt.dest>>),
                 !.plain = IF pt.src = "a" /\ shown THEN Append(@, "url") ELSE @,
                 !.cdata = IF pt.src = "a" THEN <<None>> ELSE @]

\* A closing tag ends all down to the one it names; an unexpected one is dropped.
CloseTag(s, name) ==
    LET at == SelectInSeq(s.tags, LAMBDA pt : pt.src = name)
    IN FoldLeft(LAMBDA acc, k : Popped(acc), s, [k \in 1..at |-> k])

ToXhtml(s, t) ==
    CASE t \in DOMAIN Closing -> CloseTag(s, Closing[t])
      [] t = "amp;" -> Character(s, "&amp;", "&")
      [] t \in {"x", "space"} -> Character(s, t, t)
      [] OTHER -> OpenTag(s, t)

Converted(html) ==
    LET s == FoldLeft(ToXhtml, [xhtml |-> <<>>, plain |-> <<>>, tags |-> <<>>,
                                url |-> <<>>, cdata |-> <<None>>], html)
        open == SelectSeq(s.tags, LAMBDA pt : ~pt.ignore)
    IN [s EXCEPT !.xhtml = @ \o [i \in DOMAIN open |-> <<"close", open[i].dest>>]]

-----------------------------------------------------------------------------
(* oul_markup_strip_html, which writes over the string it reads: i counts    *)
(* the bytes read, out holds those written.                                  *)

Width == [x |-> 1, space |-> 1, lt |-> 2, td |-> 4, ctd |-> 5, a |-> 3, a_x |-> 10, a_http |-> 17,
          ca |-> 4, br |-> 4, div |-> 5, cdiv |-> 6, script |-> 8, cscript |-> 9]
WidthOf(t) == CASE t = "amp;" -> 5 [] t \in DOMAIN Width -> Width[t] [] OTHER -> 3

ByteLen(out) == FoldLeft(LAMBDA n, c : n + (IF c = "http" THEN 7 ELSE 1), 0, out)
Put(s, cs) == [s EXCEPT !.out = @ \o cs]

\* Mutant: the address is kept when it was written.
EndLink_KeepsHref(s) ==
    LET text == SubSeq(s.out, s.href_st + 1, Len(s.out))
    IN IF s.href = <<>> \/ text = s.href THEN s ELSE Put(s, <<"space", "(">> \o s.href \o <<")">>)

\* </a>: the address in parentheses, unless the text of the link is the address.
EndLink(s) ==
    LET text == SubSeq(s.out, s.href_st + 1, Len(s.out))
        same == text = s.href \/ (Len(s.href) = 2 /\ text = Tail(s.href))
    IN IF s.href = <<>> \/ same THEN s
       ELSE [Put(s, <<"space", "(">> \o s.href \o <<")">>) EXCEPT !.href = <<>>]

StripTag(s, t) ==
    LET tab == IF t = "td" /\ s.closing_td THEN Put(s, <<"tab">>) ELSE s
        seen == [tab EXCEPT !.visible = t # "ctd",
                            !.closing_td = t = "ctd" \/ (t = "td" /\ s.closing_td)]
    IN CASE t \in DOMAIN Hrefs -> [seen EXCEPT !.href = Hrefs[t], !.href_st = Len(seen.out)]
         [] t = "ca" -> EndLink(seen)
         [] t \in {"br", "div"} -> Put(seen, <<"newline">>)
         [] t = "lt" -> Put([seen EXCEPT !.visible = TRUE], <<"<", "space">>)
         [] t = "script" -> [seen EXCEPT !.cdata = TRUE]
         [] OTHER -> seen

\* One token; in a script nothing counts but its end.
StripOne(s, t) ==
    IF s.cdata THEN [s EXCEPT !.cdata = t # "cscript"]
    ELSE CASE t = "amp;" -> Put([s EXCEPT !.visible = TRUE], <<"&">>)
           [] t = "x" -> Put([s EXCEPT !.visible = TRUE], <<"x">>)
           [] t = "space" -> IF s.visible THEN Put(s, <<"space">>) ELSE s
           [] OTHER -> StripTag(s, t)

Stripping(html) == FoldLeft(StripOne, [out |-> <<>>, visible |-> TRUE, closing_td |-> FALSE,
                                       cdata |-> FALSE, href |-> <<>>, href_st |-> 0], html)
BytesRead(html) == FoldLeft(LAMBDA n, t : n + WidthOf(t), 0, html)

-----------------------------------------------------------------------------
(* oul_markup_linkify.  A word stands for letters enough to be a domain.     *)
(* anchor and canchor are <A ...> and </A>; tag is any other tag.            *)

End == "end"
At(text, i) == IF i \in DOMAIN text THEN text[i] ELSE End
\* badchar and badentity
Bad(t) == t \in {"space", ",", "anchor", "canchor", "tag", "lt;", End}
\* What starts a link: whether a comma inside goes on with it, whether it has to be
\* at the beginning of the text or behind a bad character, and whether a parenthesis
\* that is open ends it.
Kind(comma, first, paren) == [comma |-> comma, first |-> first, paren |-> paren]
Prefix == [http |-> Kind(TRUE, FALSE, TRUE), www |-> Kind(TRUE, TRUE, TRUE),
           ftp |-> Kind(FALSE, FALSE, TRUE), ftp_dot |-> Kind(FALSE, TRUE, TRUE),
           mailto |-> Kind(FALSE, FALSE, FALSE), xmpp |-> Kind(TRUE, TRUE, TRUE)]
\* An entity before the link does not count: its last character is looked at.
StartsLink(text, c) ==
    /\ text[c] \in DOMAIN Prefix
    /\ Prefix[text[c]].first => c = 1 \/ text[c - 1] \in {"space", ",", "anchor", "canchor", "tag"}
    /\ text[c] \in {"www", "ftp_dot"} => At(text, c + 1) # "."

\* Where the link from c ends: at a bad character, but before a full stop or a closing
\* parenthesis there when one is open.
LinkEnd(text, c, paren) ==
    LET stops(t) == Bad(At(text, t)) /\ ~(Prefix[text[c]].comma /\ At(text, t) = ","
                                          /\ At(text, t + 1) # "space")
        bad == CHOOSE t \in (c + 1)..(Len(text) + 1) :
                    stops(t) /\ \A u \in (c + 1)..(t - 1) : ~stops(u)
        stop == IF text[bad - 1] = "." THEN bad - 1 ELSE bad
    IN IF bad = c + 1 THEN c
       ELSE IF Prefix[text[c]].paren /\ At(text, stop - 1) = ")" /\ paren > 0 THEN stop - 1 ELSE stop

\* oul_email_is_valid of these words around an @.
ValidEmail(name, domain) ==
    /\ name # <<>> /\ \A i \in DOMAIN name : name[i] \in {"w", ".", "www"}
    /\ domain # <<>> /\ \A i \in DOMAIN domain : domain[i] \in {"w", ".", "www"}
    /\ \A i \in DOMAIN domain : domain[i] = "." => i > 1 /\ domain[i - 1] \notin {".", "www"}

\* A link to an address that is not valid is none.
IsLink(text, c, e) ==
    /\ e # c
    /\ text[c] = "mailto" =>
           LET at == SelectInSeq(SubSeq(text, c + 1, e - 1), LAMBDA t : t = "@")
           IN at > 0 /\ ValidEmail(SubSeq(text, c + 1, c + at - 1), SubSeq(text, c + at + 1, e - 1))

Illegal == {"(", ")", "@", "space", "anchor", "canchor", "tag", "lt;", "http", "ftp", "mailto", "xmpp", End}

\* An @ takes back what it follows and looks ahead for the domain; full stops at the
\* end are left.
Email(s, text) ==
    LET c == s.c
        before == {p \in 1..(c - 1) : Bad(text[p]) \/ text[p] = "("}
        p == IF before = {} THEN 0 ELSE CHOOSE q \in before : \A r \in before : r <= q
        name == SubSeq(text, p + 1, c - 1)
        behind == {t \in (c + 1)..(Len(text) + 1) : Bad(At(text, t)) \/ At(text, t) = ")"}
        bad == CHOOSE t \in behind : \A u \in behind : t <= u
        e == CHOOSE e \in (c + 1)..bad : /\ \A k \in e..(bad - 1) : text[k] = "."
                                         /\ text[e - 1] # "."
        address == SubSeq(text, p + 1, e - 1)
        kept == IF p = 0 THEN <<>> ELSE SubSeq(s.ret, 1, Len(s.ret) - Len(name))
    IN IF c = 1 \/ At(text, c - 1) \in Illegal \/ At(text, c + 1) \in Illegal THEN s
       ELSE [s EXCEPT !.c = e, !.ret = kept \o
                (IF ValidEmail(name, SubSeq(text, c + 1, e - 1)) THEN << <<"link", address>> >>
                 ELSE [i \in DOMAIN address |-> <<"raw", address[i]>>])]

Raw(s, text) == [s EXCEPT !.ret = Append(@, <<"raw", text[s.c]>>), !.c = @ + 1]
Ended(s, text) == s.c > Len(text)

\* An anchor is copied up to where it ends, the rest of that with it.
CopyAnchor(s, text) ==
    LET ends == {k \in s.c..Len(text) : text[k] = "canchor"}
        e == IF ends = {} THEN Len(text) + 1 ELSE CHOOSE k \in ends : \A l \in ends : k <= l
    IN [s EXCEPT !.ret = @ \o [k \in 1..(e - s.c) |-> <<"raw", text[s.c + k - 1]>>], !.c = e]

\* Once through the loop.
LinkifyOne(text, s) ==
    LET a == IF text[s.c] = "(" THEN [Raw(s, text) EXCEPT !.paren = @ + 1] ELSE s
        t == At(text, a.c)
        e == LinkEnd(text, a.c, a.paren)
        b == CASE t = "anchor" -> CopyAnchor(a, text)
               [] t \in DOMAIN Prefix /\ StartsLink(text, a.c) /\ IsLink(text, a.c, e) ->
                    [a EXCEPT !.ret = Append(@, <<"link", SubSeq(text, a.c, e - 1)>>), !.c = e]
               [] t = "@" -> Email(a, text)
               [] OTHER -> a
        d == IF At(text, b.c) = ")" THEN [Raw(b, text) EXCEPT !.paren = @ - 1] ELSE b
    IN IF Ended(d, text) THEN d ELSE Raw(d, text)

Linkified(text) ==
    FoldLeft(LAMBDA s, k : IF Ended(s, text) THEN s ELSE LinkifyOne(text, s),
             [c |-> 1, ret |-> <<>>, paren |-> 0], text).ret

-----------------------------------------------------------------------------
MarkupInit == input = <<>> /\ alphabet \in {"html", "text"}

MarkupNext ==
    /\ Len(input) < MaxTokens
    /\ \E t \in IF alphabet = "html" THEN HtmlToken ELSE TextToken : input' = Append(input, t)
    /\ UNCHANGED alphabet

MarkupSpec == MarkupInit /\ [][MarkupNext]_markupVars

-----------------------------------------------------------------------------
\* Every closing mark ends the innermost open one, and all are closed.
Nested(marks) ==
    LET open == FoldLeft(LAMBDA acc, m :
                    CASE m[1] = "open" -> Append(acc, m[2])
                      [] m[1] = "close" /\ acc # <<>> /\ Last(acc) = m[2] -> Front(acc)
                      [] m[1] = "close" -> Append(acc, "mismatch")
                      [] OTHER -> acc, <<>>, marks)
    IN open = <<>>
Letters(s) == SelectSeq(s, LAMBDA c : c \in {"x", "space", "<"})
\* Every font without a style is still open at the end.
FontsStayOpen(html) == Len(SelectSeq(html, LAMBDA t : t = "font"))
                        = Len(SelectSeq(Converted(html).tags, LAMBDA pt : pt.ignore))

(* Whatever is opened, closed out of order, closed twice or left open in the *)
(* HTML, the XHTML is well nested and has the text of the plain version, as    *)
(* long as no <font> without a style is closed: util.c:1133 closes its span     *)
(* although none was opened.                                                   *)
XhtmlIsNested ==
    alphabet = "html" /\ FontsStayOpen(input) =>
        LET r == Converted(input)
            text == SelectSeq(r.xhtml, LAMBDA m : m[1] = "text")
        IN Nested(r.xhtml) /\ Letters([i \in DOMAIN text |-> text[i][2]]) = Letters(r.plain)

(* Stripping writes the text over the string it reads and never past the     *)
(* place it has read up to, with the addresses of links and the tabs of tables  *)
(* it adds (util.c:1665).                                                      *)
StripStaysBehind ==
    alphabet = "html" => ByteLen(Stripping(input).out) <= BytesRead(input)

(* Turning addresses into links adds tags and changes nothing else: without  *)
(* the tags the text is the one it was, also where an @ takes back what was    *)
(* already put out (util.c:2023).                                              *)
LinkifyKeepsText ==
    alphabet = "text" =>
        LET ret == Linkified(input)
        IN FlattenSeq([i \in DOMAIN ret |-> IF ret[i][1] = "link" THEN ret[i][2]
                                            ELSE <<ret[i][2]>>]) = input

\* What the user reads is the same before and after each conversion of
\* util.c, and what is written in place stays inside what was read.
TextSurvives == XhtmlIsNested /\ StripStaysBehind /\ LinkifyKeepsText
=============================================================================
