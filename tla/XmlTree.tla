------------------------------ MODULE XmlTree ------------------------------
(***************************************************************************)
(* XML trees: liboul/xmlnode.c, in which status.xml and the descriptions   *)
(* of devices are read and written.  A node has the first and the last of  *)
(* its children and each child the next one; attributes and text are       *)
(* children too.                                                           *)
(*                                                                         *)
(* Text is a sequence of characters, of which "&" and what makes an entity *)
(* of it matter; namespaces are left out.  A file may end early: then the  *)
(* parser of libxml reports an error at its end.                           *)
(***************************************************************************)
EXTENDS Naturals, FiniteSets, SequencesExt

CONSTANTS
    Node,           \* addresses of xmlnode: positive numbers
    Tag,            \* names of elements
    Attr,           \* names of attributes
    Text            \* values of attributes and text

ASSUME XmlAssumption == Node \subseteq Nat \ {0}

VARIABLES
    nodes,          \* Node -> xmlnode, or FreeNode
    trees,          \* the roots users hold
    lost,           \* nodes nobody has a pointer to any more
    file            \* the last tree written, as markup, with what it was

xmlVars == <<nodes, trees, lost, file>>

Null == 0
NoName == "none"
FreeNode == [type |-> "free", name |-> NoName, data |-> <<>>, parent |-> Null,
             child |-> Null, lastchild |-> Null, next |-> Null]
NewNode(type, name, data) == [FreeNode EXCEPT !.type = type, !.name = name, !.data = data]
Live(m) == {n \in DOMAIN m : m[n] # FreeNode}
Unused(m) == DOMAIN m \ Live(m)
FreshNode(m) == CHOOSE n \in Unused(m) : TRUE
NoFile == [markup |-> <<>>, tree |-> <<>>]

\* The nodes from n on, along next.
ListFrom(m, n) ==
    LET from[k \in DOMAIN m \cup {Null}] == IF k = Null THEN <<>> ELSE <<k>> \o from[m[k].next]
    IN from[n]
Children(m, n) == ListFrom(m, m[n].child)
ChildrenOf(m, n, type) == SelectSeq(Children(m, n), LAMBDA k : m[k].type = type)

\* The nodes of the tree below n.
Subtree(m, n) ==
    LET below[k \in DOMAIN m] == {k} \cup UNION {below[c] : c \in ToSet(Children(m, k))}
    IN below[n]

-----------------------------------------------------------------------------
(* Linking.                                                                *)

\* Mutant: the last child is not moved on.
InsertChild_KeepsLast(m, p, c) ==
    LET linked == [m EXCEPT ![c].parent = p]
    IN IF m[p].lastchild = Null
       THEN [linked EXCEPT ![p].child = c, ![p].lastchild = c]
       ELSE [linked EXCEPT ![m[p].lastchild].next = c]

\* xmlnode_insert_child
InsertChild(m, p, c) ==
    LET linked == [m EXCEPT ![c].parent = p]
    IN IF m[p].lastchild = Null
       THEN [linked EXCEPT ![p].child = c, ![p].lastchild = c]
       ELSE [linked EXCEPT ![m[p].lastchild].next = c, ![p].lastchild = c]

\* A node of its own becomes the last child of p: xmlnode_new_child,
\* xmlnode_insert_data and the end of xmlnode_set_attrib.
Added(m, p, node) == LET n == FreshNode(m) IN InsertChild([m EXCEPT ![n] = node], p, n)

\* The part of xmlnode_free that takes the node out of its tree.
Unlinked(m, n) ==
    LET p == m[n].parent
        before == {k \in ToSet(Children(m, p)) : m[k].next = n}
        prev == CHOOSE k \in before : TRUE
    IN IF p = Null THEN m
       ELSE IF m[p].child = n
       THEN [m EXCEPT ![p].child = m[n].next,
                      ![p].lastchild = IF @ = n THEN m[n].next ELSE @]
       ELSE IF before = {} THEN m
       ELSE [m EXCEPT ![prev].next = m[n].next, ![p].lastchild = IF @ = n THEN prev ELSE @]

\* xmlnode_free
Free(m, n) == LET gone == Subtree(m, n)
              IN [k \in DOMAIN m |-> IF k \in gone THEN FreeNode ELSE Unlinked(m, n)[k]]

Attribute(m, n, a) == {k \in ToSet(ChildrenOf(m, n, "attrib")) : m[k].name = a}

\* xmlnode_remove_attrib, which links around the attribute by itself: in a tree that
\* is linked right that is what xmlnode_free does.
Before(siblings, k) ==
    LET at == CHOOSE i \in DOMAIN siblings : siblings[i] = k
    IN IF at = 1 THEN Null ELSE siblings[at - 1]
LinkAround(m, n, k, sibling) ==
    LET around == IF sibling = Null THEN [m EXCEPT ![n].child = m[k].next]
                                    ELSE [m EXCEPT ![sibling].next = m[k].next]
    IN [around EXCEPT ![n].lastchild = IF @ = k THEN sibling ELSE @]
RemoveAttributeIn(m, n, found) ==
    IF found = <<>> THEN m
    ELSE Free(LinkAround(m, n, found[1], Before(Children(m, n), found[1])), found[1])
RemoveAttrib(m, n, a) ==
    RemoveAttributeIn(m, n, SelectSeq(ChildrenOf(m, n, "attrib"), LAMBDA k : m[k].name = a))

\* xmlnode_set_attrib
SetAttrib(m, n, a, v) == Added(RemoveAttrib(m, n, a), n, NewNode("attrib", a, v))

\* xmlnode_copy: the same nodes at new addresses, linked in the same way.
Copy(m, src) ==
    LET old == Subtree(m, src)
        to == CHOOSE f \in [old -> Unused(m)] : \A a, b \in old : a # b => f[a] # f[b]
        new(k) == IF k \in old THEN to[k] ELSE Null
        copy(k) == [m[k] EXCEPT !.parent = new(@), !.child = new(@),
                                !.lastchild = new(@), !.next = new(@)]
        copies == [n \in {to[k] : k \in old} |-> copy(CHOOSE k \in old : to[k] = n)]
    IN [mem |-> [n \in DOMAIN m |-> IF n = to[src] THEN [copies[n] EXCEPT !.next = Null]
                                ELSE IF n \in DOMAIN copies THEN copies[n] ELSE m[n]],
        root |-> to[src]]

-----------------------------------------------------------------------------
(* Writing and reading.                                                    *)

Space == <<"space">>

\* g_markup_escape_text
Escaped(text) == FlattenSeq([i \in DOMAIN text |->
                    IF text[i] = "&" THEN <<"&", "amp;">> ELSE <<text[i]>>])

\* xmlnode_to_str_helper: with formatting, an element without text has its children on
\* lines of their own.
ToStr(m, root) ==
    LET str[n \in DOMAIN m, formatting \in BOOLEAN] ==
            LET attrs == ChildrenOf(m, n, "attrib")
                inner == SelectSeq(Children(m, n), LAMBDA k : m[k].type # "attrib")
                pretty == formatting /\ \A k \in ToSet(inner) : m[k].type = "tag"
                open == <<"open", m[n].name,
                          [i \in DOMAIN attrs |-> <<m[attrs[i]].name, Escaped(m[attrs[i]].data)>>]>>
                piece(k) == IF m[k].type = "tag" THEN str[k, pretty]
                            ELSE << <<"text", Escaped(m[k].data)>> >>
            IN <<open>> \o (IF pretty /\ inner # <<>> THEN <<Space>> ELSE <<>>)
                 \o FlattenSeq([i \in DOMAIN inner |-> piece(inner[i])])
                 \o << <<"close", m[n].name>> >> \o (IF formatting THEN <<Space>> ELSE <<>>)
    IN str[root, TRUE]

\* The i-th character ends an entity.
Entity(text, i) == i > 1 /\ text[i] \in {"amp;", "#38;"} /\ text[i - 1] = "&"
\* The characters of a text with its entities decoded.
Decoded(text) ==
    FoldLeft(LAMBDA acc, i : IF Entity(text, i) THEN acc ELSE Append(acc, text[i]),
             <<>>, [i \in DOMAIN text |-> i])

\* libxml hands an attribute over with its ampersands as references.
LibxmlAttribute(text) == [i \in DOMAIN text |-> IF Entity(text, i) THEN "#38;" ELSE text[i]]

\* oul_unescape_html, once over the text.
Unescape(text) == Decoded(text)

\* xmlnode_parser_element_start_libxml
ElementStart(s, name, attrs) ==
    LET n == FreshNode(s.mem)
        node == NewNode("tag", name, <<>>)
        made == IF s.current = Null THEN [s.mem EXCEPT ![n] = node]
                                    ELSE Added(s.mem, s.current, node)
        set(m, a) == SetAttrib(m, n, a[1], Unescape(LibxmlAttribute(a[2])))
    IN [s EXCEPT !.mem = FoldLeft(set, made, attrs), !.current = n]

\* xmlnode_parser_element_end_libxml: the root stays the current node.
ElementEnd(s, name) ==
    LET c == s.mem[s.current]
    IN IF c.parent # Null /\ c.name = name THEN [s EXCEPT !.current = c.parent] ELSE s

\* xmlnode_parser_element_text_libxml, for one call.
ElementText(s, text) == [s EXCEPT !.mem = Added(@, s.current, NewNode("data", NoName, text))]

\* The callbacks libxml makes for one token: an entity comes in a call of its own, as
\* the character it stands for, and text outside the root in none.
ParseToken(s, t) ==
    CASE t[1] = "open" -> [ElementStart(s, t[2], t[3]) EXCEPT !.depth = @ + 1]
      [] t[1] = "close" -> [ElementEnd(s, t[2]) EXCEPT !.depth = @ - 1]
      [] t[1] = "text" -> FoldLeft(LAMBDA u, c : ElementText(u, <<c>>), s, Decoded(t[2]))
      [] OTHER -> IF s.depth > 0 THEN ElementText(s, Space) ELSE s

\* xmlnode_from_str of markup.  When the parser reported an error (a file that ends
\* early) the subtree it was in is freed, and what is above it is left.
FromParser(m, s, freed) ==
    IF s.depth = 0 /\ s.current # Null
    THEN [mem |-> s.mem, root |-> s.current, left |-> {}]
    ELSE [mem |-> freed, root |-> Null, left |-> Live(freed) \ Live(m)]
ParserEnded(m, s) == FromParser(m, s, IF s.current = Null THEN s.mem ELSE Free(s.mem, s.current))
FromStr(m, markup) == ParserEnded(m, FoldLeft(ParseToken, [mem |-> m, current |-> Null, depth |-> 0], markup))

\* xmlnode_get_data
GetData(m, n) == LET data == ChildrenOf(m, n, "data")
                 IN FlattenSeq([i \in DOMAIN data |-> m[data[i]].data])

\* xmlnode_get_next_twin
NextTwin(m, n) ==
    LET after == SelectSeq(ListFrom(m, m[n].next),
                           LAMBDA k : m[k].type = "tag" /\ m[k].name = m[n].name)
    IN IF after = <<>> THEN Null ELSE Head(after)

\* xmlnode_get_child, with a name of one part
GetChild(m, n, name) ==
    LET named == SelectSeq(ChildrenOf(m, n, "tag"), LAMBDA k : m[k].name = name)
    IN IF named = <<>> THEN Null ELSE Head(named)

-----------------------------------------------------------------------------
\* What a tree says: names, attributes, text without the spaces of the layout, and
\* elements.
TreeOf(m, root) ==
    LET view[n \in DOMAIN m] ==
            LET tags == ChildrenOf(m, n, "tag")
                attrs == ToSet(ChildrenOf(m, n, "attrib"))
            IN [name |-> m[n].name, attrs |-> {<<m[k].name, m[k].data>> : k \in attrs},
                data |-> SelectSeq(GetData(m, n), LAMBDA c : c # "space"),
                tags |-> [i \in DOMAIN tags |-> view[tags[i]]]]
    IN view[root]

Owned == Live(nodes) \ lost
Elements == {n \in Owned : nodes[n].type = "tag"}
\* Bounds: the addresses, and that a tree is changed before the first file is written;
\* after it files are read and trees freed.
Room(n) == Cardinality(Unused(nodes)) >= n
Building == file = NoFile

NewTree(name) == /\ Building /\ Room(1)
                 /\ nodes' = [nodes EXCEPT ![FreshNode(nodes)] = NewNode("tag", name, <<>>)]
                 /\ trees' = trees \cup {FreshNode(nodes)}
                 /\ UNCHANGED <<lost, file>>

Changes(m) == Building /\ nodes' = m /\ UNCHANGED <<trees, lost, file>>

NewChild(n, name) == Room(1) /\ n \in Elements /\ Changes(Added(nodes, n, NewNode("tag", name, <<>>)))
InsertData(n, text) ==
    Room(1) /\ n \in Elements /\ text # <<>> /\ Changes(Added(nodes, n, NewNode("data", NoName, text)))
SetAttribute(n, a, v) ==
    /\ n \in Elements /\ (Room(1) \/ Attribute(nodes, n, a) # {})
    /\ Changes(SetAttrib(nodes, n, a, v))
RemoveAttribute(n, a) == n \in Elements /\ Changes(RemoveAttrib(nodes, n, a))

\* A tree is hung into another one.
Graft(p, root) ==
    /\ Building /\ root \in trees /\ p \in Elements \ Subtree(nodes, root)
    /\ nodes' = InsertChild(nodes, p, root) /\ trees' = trees \ {root}
    /\ UNCHANGED <<lost, file>>

FreeTree(n) == /\ n \in Owned /\ nodes' = Free(nodes, n) /\ trees' = trees \ {n}
               /\ UNCHANGED <<lost, file>>

CopyTree(n) ==
    /\ Building /\ n \in Elements /\ Room(Cardinality(Subtree(nodes, n)))
    /\ \E copy \in {Copy(nodes, n)} : nodes' = copy.mem /\ trees' = trees \cup {copy.root}
    /\ UNCHANGED <<lost, file>>

\* xmlnode_to_formatted_str
WriteFile(n) ==
    /\ n \in trees
    /\ file' = [markup |-> ToStr(nodes, n), tree |-> <<TreeOf(nodes, n)>>]
    /\ UNCHANGED <<nodes, trees, lost>>

\* The nodes it takes to read markup, at most.
Needed(markup) == FoldLeft(LAMBDA n, t : n + CASE t[1] = "open" -> 1 + Len(t[3])
                                               [] t[1] = "text" -> Len(t[2])
                                               [] t[1] = "close" -> 0
                                               [] OTHER -> 1, 0, markup)

\* The file is read, up to its end or up to where it was cut.
ReadFile(end) ==
    /\ file # NoFile /\ Room(Needed(SubSeq(file.markup, 1, end)))
    /\ \E r \in {FromStr(nodes, SubSeq(file.markup, 1, end))} :
        /\ nodes' = r.mem /\ lost' = lost \cup r.left
        /\ trees' = trees \cup ({r.root} \ {Null})
    /\ UNCHANGED file

XmlInit == /\ nodes = [n \in Node |-> FreeNode] /\ trees = {} /\ lost = {} /\ file = NoFile

XmlNext ==
    \/ \E name \in Tag : NewTree(name) \/ \E n \in Node : NewChild(n, name)
    \/ \E n \in Node :
        \/ \E v \in Text : InsertData(n, v) \/ \E a \in Attr : SetAttribute(n, a, v)
        \/ \E a \in Attr : RemoveAttribute(n, a)
        \/ \E p \in Node : Graft(p, n)
        \/ FreeTree(n) \/ CopyTree(n) \/ WriteFile(n)
    \/ \E end \in 0..Len(file.markup) : ReadFile(end)

XmlSpec == XmlInit /\ [][XmlNext]_xmlVars

-----------------------------------------------------------------------------
(* Trees stay linked: the children of a node, from the first along next, are *)
(* the nodes that have it as their parent, the last of them is lastchild, and  *)
(* every node is below exactly one root, whatever was inserted, removed,       *)
(* copied, read or freed (xmlnode_insert_child, xmlnode_remove_attrib,         *)
(* xmlnode_free).  The elements of one name are what get_child and then        *)
(* get_next_twin find.                                                         *)
TreesAreLinked ==
    /\ \A n \in Live(nodes) :
        LET below == Children(nodes, n)
        IN /\ ToSet(below) = {k \in Live(nodes) : nodes[k].parent = n}
           /\ nodes[n].lastchild = IF below = <<>> THEN Null ELSE Last(below)
           /\ Cardinality(ToSet(ChildrenOf(nodes, n, "attrib")))
                = Cardinality({nodes[k].name : k \in ToSet(ChildrenOf(nodes, n, "attrib"))})
           /\ \A name \in Tag :
                LET found[k \in Node \cup {Null}] ==
                        IF k = Null THEN {} ELSE {k} \cup found[NextTwin(nodes, k)]
                IN found[GetChild(nodes, n, name)]
                    = {k \in ToSet(ChildrenOf(nodes, n, "tag")) : nodes[k].name = name}
    /\ Owned = UNION {Subtree(nodes, r) : r \in trees}
    /\ \A r \in trees : nodes[r].parent = Null

ReadsAs(r, tree) == r.root # Null /\ <<TreeOf(r.mem, r.root)>> = tree

(* What is written reads back as the same tree, with text and attributes that *)
(* hold ampersands and what looks like an entity, and with the layout added.   *)
WrittenReadsBack ==
    file # NoFile => ReadsAs(FromStr([n \in 1..Needed(file.markup) |-> FreeNode], file.markup), file.tree)

\* A tree keeps its shape in memory and through a file (xmlnode.c).
TreesSurvive == TreesAreLinked /\ WrittenReadsBack
=============================================================================
