------------------------------ MODULE PrefTree ------------------------------
(***************************************************************************)
(* The tree of preferences of liboul/prefs.c: nodes linked by parent,      *)
(* first child and sibling, a table from full names to nodes, callbacks at *)
(* each node, and prefs.xml as the text of the tree.                       *)
(*                                                                         *)
(* A change calls the callbacks of the preference, then those of its       *)
(* parents up to the root.  A callback may set preferences itself, also    *)
(* the one that is changing, and connect and disconnect callbacks, but not *)
(* one that is being called: do_callbacks goes on from its list node.      *)
(*                                                                         *)
(* Paths are file names, which are converted to UTF-8 for the file and     *)
(* back.  Either conversion may fail: NULL then takes the place of the     *)
(* path.  A session may run with another encoding of file names than the   *)
(* one before it.                                                          *)
(***************************************************************************)
EXTENDS Naturals, FiniteSets, SequencesExt

CONSTANTS
    PrefPath,       \* full names, as sequences of names; the root is <<>>
    PrefChange,     \* what the program sets and adds: <<path, kind, value>>
    PrefHandle,     \* owners of callbacks
    PrefMayConnect, \* paths for which callbacks are connected
    PrefForeign,    \* file names that an encoding of file names may not have
    MaxCallbacks,   \* bound on the callbacks connected at one time
    MaxWalks        \* bound on the notifications nested in each other

Lists == {"stringlist", "pathlist"}
PathKinds == {"path", "pathlist"}
PrefKinds == {"none", "bool", "string", "path"} \cup Lists

ASSUME PrefTreeAssumption ==
    /\ PrefPath \subseteq Seq(STRING)
    /\ \A p \in PrefPath : p # <<>> => Front(p) \in PrefPath
    /\ <<>> \in PrefPath /\ <<"oul">> \in PrefPath
    /\ PrefMayConnect \subseteq PrefPath
    /\ \A c \in PrefChange : c[1] \in PrefPath \ {<<>>} /\ c[2] \in PrefKinds
    /\ MaxCallbacks \in Nat \ {0} /\ MaxWalks \in Nat

VARIABLES
    prefTree,       \* prefs and prefs_hash: path -> OulPref or NoPref
    prefCalls,      \* notifications under way, the innermost last
    prefOwed        \* callbacks, with the preference, not told its present value

prefTreeVars == <<prefTree, prefCalls, prefOwed>>

NullText == "null"      \* a NULL string
BadText == "not utf8"   \* nor a file name that can be converted to it

NoPref == [kind |-> "absent", value |-> <<>>, children |-> <<>>, callbacks |-> <<>>]
NewPref(kind, value) == [NoPref EXCEPT !.kind = kind, !.value = value]
Known(tree, p) == tree[p] # NoPref

\* oul_prefs_init without reading: the root and "/oul".
BareTree == [p \in PrefPath |->
    CASE p = <<>> -> [NewPref("none", <<>>) EXCEPT !.children = <<"oul">>]
      [] p = <<"oul">> -> NewPref("none", <<>>)
      [] OTHER -> NoPref]

-----------------------------------------------------------------------------
(* Adding and setting.                                                     *)

\* add_pref: below a parent that is known, and once.
AddTo(tree, p, kind, value) ==
    IF ~Known(tree, Front(p)) \/ Last(p) \in ToSet(tree[Front(p)].children) THEN tree
    ELSE [tree EXCEPT ![p] = NewPref(kind, value), ![Front(p)].children = Append(@, Last(p))]

\* Text that is not UTF-8 is refused by strings and left out of lists of strings.
Accepted(kind, value) == ~(kind = "string" /\ value = <<BadText>>)
Stored(kind, value) == IF kind = "stringlist" THEN SelectSeq(value, LAMBDA t : t # BadText) ELSE value

\* oul_prefs_set_string also sets paths.
Fits(kind, node) == node.kind = kind \/ (kind = "string" /\ node.kind = "path")

\* oul_prefs_add_* and oul_prefs_set_*
SetIn(tree, p, kind, value) ==
    IF ~Accepted(kind, value) THEN tree
    ELSE IF ~Known(tree, p) THEN AddTo(tree, p, kind, Stored(kind, value))
    ELSE IF Fits(kind, tree[p]) THEN [tree EXCEPT ![p].value = Stored(kind, value)] ELSE tree

\* A list is taken for changed even when it is equal.
IsChange(tree, p, kind, value) ==
    /\ kind # "none" /\ Accepted(kind, value) /\ Known(tree, p) /\ Fits(kind, tree[p])
    /\ kind \in Lists \/ tree[p].value # value

\* oul_prefs_get_*: nothing of an unknown preference and of one of another kind.
PrefValue(tree, p, kind) == IF tree[p].kind = kind THEN <<tree[p].value>> ELSE <<>>

-----------------------------------------------------------------------------
(* Writing and reading.                                                    *)

\* pref_to_xmlnode, and prefs_to_xmlnode for the root, which has no type.  xmlnode_set_attrib
\* sets nothing when g_filename_to_utf8 has returned NULL.
AsText(text) == IF text = NullText THEN "" ELSE text
ToAttribute(kind, text) == IF kind \in PathKinds /\ text = BadText THEN <<>> ELSE <<AsText(text)>>
PrefMarkup(tree) ==
    LET texts(p) == [i \in DOMAIN tree[p].value |-> ToAttribute(tree[p].kind, tree[p].value[i])]
        list(p) == tree[p].kind \in Lists
        node(p) == [element |-> "pref", name |-> IF p = <<>> THEN "/" ELSE Last(p), type |-> tree[p].kind,
                    value |-> IF list(p) THEN <<>> ELSE FlattenSeq(texts(p))]
        items(p) == IF list(p) THEN [i \in DOMAIN texts(p) |->
                                        [element |-> "item", value |-> texts(p)[i]]] ELSE <<>>
        text[p \in PrefPath] ==
            <<node(p)>> \o items(p)
            \o FlattenSeq([i \in DOMAIN tree[p].children |-> text[Append(p, tree[p].children[i])]])
            \o <<[element |-> "/pref"]>>
    IN text[<<>>]

\* The value in an attribute, which is NULL when there is none, or when g_filename_from_utf8
\* returns NULL: a file name this session's encoding does not have.
FromAttribute(s, kind, value) ==
    IF kind \in PathKinds /\ (value = <<>> \/ ToSet(value) \cap s.foreign # {}) THEN <<NullText>> ELSE value

\* Mutant: items are put in front
ReadElement_Prepends(s, t) ==
    CASE t.element = "item" ->
            IF s.tree[s.stack].kind \in Lists
            THEN [s EXCEPT !.tree[s.stack].value = FromAttribute(s, s.tree[s.stack].kind, t.value) \o @] ELSE s
      [] t.element = "pref" /\ t.name # "/" ->
            [s EXCEPT !.tree = SetIn(@, Append(s.stack, t.name), t.type,
                                       IF t.type \in Lists THEN <<>> ELSE FromAttribute(s, t.type, t.value)),
                      !.stack = Append(@, t.name)]
      [] t.element = "/pref" /\ s.stack # <<>> -> [s EXCEPT !.stack = Front(@)]
      [] OTHER -> s
\* prefs_start_element_handler and prefs_end_element_handler with prefs_stack: an item
\* goes to the preference on top, and the root is not put on the stack.
ReadElement(s, t) ==
    CASE t.element = "item" ->
            IF s.tree[s.stack].kind \in Lists
            THEN [s EXCEPT !.tree[s.stack].value = @ \o FromAttribute(s, s.tree[s.stack].kind, t.value)] ELSE s
      [] t.element = "pref" /\ t.name # "/" ->
            [s EXCEPT !.tree = SetIn(@, Append(s.stack, t.name), t.type,
                                       IF t.type \in Lists THEN <<>> ELSE FromAttribute(s, t.type, t.value)),
                      !.stack = Append(@, t.name)]
      [] t.element = "/pref" /\ s.stack # <<>> -> [s EXCEPT !.stack = Front(@)]
      [] OTHER -> s

\* oul_prefs_load into the tree a session starts with, whose encoding does not have the
\* file names in foreign
ReadPrefs(markup, foreign) ==
    FoldLeft(ReadElement, [tree |-> BareTree, stack |-> <<>>, foreign |-> foreign], markup).tree

-----------------------------------------------------------------------------
(* Callbacks.                                                              *)

Above(p) == {SubSeq(p, 1, n) : n \in 0..Len(p)}
CallbackIds(tree, p) == {cb.id : cb \in ToSet(tree[p].callbacks)}
AllCallbacks(tree) == UNION {CallbackIds(tree, p) : p \in PrefPath}
NobodyCalled == prefCalls = <<>>
BeingCalled == {w.id : w \in ToSet(prefCalls)}

\* The list node after the one with this id, or the first one of the nearest parent
\* that has callbacks: <<path, id>>, or <<>> behind the root.
FirstFrom(tree, p) ==
    LET having == {q \in Above(p) : tree[q].callbacks # <<>>}
    IN IF having = {} THEN <<>>
       ELSE LET q == CHOOSE q \in having : \A o \in having : Len(o) <= Len(q)
            IN <<q, Head(tree[q].callbacks).id>>
AfterCallback(tree, p, id) ==
    LET cbs == tree[p].callbacks
        k == CHOOSE k \in DOMAIN cbs : cbs[k].id = id
    IN IF k < Len(cbs) THEN <<p, cbs[k + 1].id>>
       ELSE IF p = <<>> THEN <<>> ELSE FirstFrom(tree, Front(p))

\* Mutant: the value is read before the first callback is called
Handed_AsItWas(w, tree) == w.value
\* The value a callback is handed: the one the preference has by now.
Handed(w, tree) == tree[w.pref].value

\* The walk calls the callback at node, or ends.
Calls(walks, w, tree, node, owed) ==
    IF node = <<>>
    THEN prefCalls' = walks /\ prefOwed' = owed
    ELSE /\ prefCalls' = Append(walks, [w EXCEPT !.at = node[1], !.id = node[2]])
         /\ prefOwed' = IF Handed(w, tree) = tree[w.pref].value
                        THEN owed \ {<<node[2], w.pref>>} ELSE owed \cup {<<node[2], w.pref>>}

\* do_callbacks, from the preference upwards
DoCallbacks(tree, p) ==
    /\ Len(prefCalls) < MaxWalks
    /\ Calls(prefCalls, [pref |-> p, value |-> tree[p].value, at |-> <<>>, id |-> 0], tree,
             FirstFrom(tree, p),
             prefOwed \cup {<<id, p>> : id \in UNION {CallbackIds(tree, q) : q \in Above(p)}})

SetOrAdd(p, kind, value) ==
    /\ prefTree' = SetIn(prefTree, p, kind, value)
    /\ IF IsChange(prefTree, p, kind, value)
       THEN DoCallbacks(prefTree', p)
       ELSE prefTree' # prefTree /\ UNCHANGED <<prefCalls, prefOwed>>

\* A callback returns.
CallbackReturns ==
    /\ ~NobodyCalled
    /\ LET w == Last(prefCalls)
       IN Calls(Front(prefCalls), w, prefTree, AfterCallback(prefTree, w.at, w.id), prefOwed)
    /\ UNCHANGED prefTree

\* The ids of cb_id are used again here once their callback is gone.
CallbackId == 1..MaxCallbacks
FreeIds == CallbackId \ AllCallbacks(prefTree)

\* oul_prefs_connect_callback: nothing is connected to an unknown preference.
ConnectCallback(p, handle) ==
    /\ Known(prefTree, p)
    /\ FreeIds # {}
    /\ prefTree' = [prefTree EXCEPT ![p].callbacks = Append(@, [id |-> Min(FreeIds), handle |-> handle])]
    /\ UNCHANGED <<prefCalls, prefOwed>>

\* The callbacks that stay, in their order.
Staying(list, ids) == {i \in DOMAIN list : list[i].id \notin ids}
PlaceLeft(list, ids, i) == Cardinality({j \in Staying(list, ids) : j <= i})
Remaining(list, ids) ==
    [k \in 1..Cardinality(Staying(list, ids)) |->
        list[CHOOSE i \in Staying(list, ids) : PlaceLeft(list, ids, i) = k]]
\* The tree without these callbacks.
WithoutCallbacks(tree, ids) ==
    [p \in PrefPath |-> [tree[p] EXCEPT !.callbacks = Remaining(@, ids)]]
CallbacksOf(handle) ==
    {cb.id : cb \in UNION {{cb \in ToSet(prefTree[p].callbacks) : cb.handle = handle} : p \in PrefPath}}

Disconnects(tree) ==
    /\ tree # prefTree
    /\ BeingCalled \subseteq AllCallbacks(tree)
    /\ prefTree' = tree
    /\ prefOwed' = {o \in prefOwed : o[1] \in AllCallbacks(tree)}
    /\ UNCHANGED prefCalls

\* oul_prefs_disconnect_callback with disco_callback_helper
DisconnectCallback(id) == Disconnects(WithoutCallbacks(prefTree, {id}))

\* oul_prefs_disconnect_by_handle with disco_callback_helper_handle
DisconnectHandle(handle) == Disconnects(WithoutCallbacks(prefTree, CallbacksOf(handle)))

-----------------------------------------------------------------------------
\* The next session after one whose preferences were saved at the end: prefs_save_cb is
\* connected to the root, then the file is read.  That a save may fail is the business of
\* the module Preferences.
WithSaving(tree) == [tree EXCEPT ![<<>>].callbacks = <<[id |-> 1, handle |-> "prefs"]>>]
RestartPrefs ==
    /\ NobodyCalled
    /\ \E foreign \in {{}, PrefForeign} :
           prefTree' = WithSaving(ReadPrefs(PrefMarkup(prefTree), foreign))
    /\ prefOwed' = {} /\ UNCHANGED prefCalls

PrefTreeInit ==
    /\ prefTree = WithSaving(BareTree) /\ prefCalls = <<>> /\ prefOwed = {}

DuringSession ==
    \/ \E c \in PrefChange : SetOrAdd(c[1], c[2], c[3])
    \/ CallbackReturns
    \/ \E h \in PrefHandle : DisconnectHandle(h) \/ \E p \in PrefMayConnect : ConnectCallback(p, h)
    \/ \E id \in CallbackId : DisconnectCallback(id)

PrefTreeNext == DuringSession \/ RestartPrefs

PrefTreeSpec == PrefTreeInit /\ [][PrefTreeNext]_prefTreeVars

-----------------------------------------------------------------------------
CallbackData == [id : CallbackId, handle : PrefHandle \cup {"prefs"}]

\* A preference, or none.
IsPref(n) ==
    /\ n = [kind |-> n.kind, value |-> n.value, children |-> n.children, callbacks |-> n.callbacks]
    /\ n.children \in Seq(STRING) /\ n.callbacks \in Seq(CallbackData)
    /\ n = NoPref \/ n.kind \in PrefKinds

\* The tree and the table agree: a preference is known by its full name exactly when it
\* is a child of its parent, once.
TableAgrees(tree) ==
    \A p \in PrefPath \ {<<>>} :
        /\ Known(tree, p) <=> Last(p) \in ToSet(tree[Front(p)].children)
        /\ IsInjective(tree[p].children)

\* Every node is a preference or none, and the names of the tree agree with its table.
TreeIsSound(tree) ==
    /\ tree = [p \in PrefPath |-> tree[p]]
    /\ \A p \in PrefPath : IsPref(tree[p])
    /\ TableAgrees(tree)

\* When a change and everything callbacks made of it is over, every callback of the
\* preference and of its parents was last told the value it has, although callbacks set
\* it again, connect and disconnect meanwhile (do_callbacks).
EverybodyKnows == NobodyCalled => prefOwed = {}

\* Preferences are known by one name and told to everybody (do_callbacks).
PrefsAreTold == TreeIsSound(prefTree) /\ EverybodyKnows

\* What a session may read: any tree whose names agree and to which nothing is connected.
MayBeRead(tree) ==
    TreeIsSound(tree) /\ Known(tree, <<>>) /\ \A p \in PrefPath : tree[p].callbacks = <<>>

\* What a text is in the next session: a file name that does not convert to UTF-8 is lost,
\* and a NULL text is an empty one.
Saved(kind, text) == IF kind \in PathKinds /\ text = BadText THEN NullText ELSE AsText(text)

\* The file says what the tree says: written and read, preferences have the same names,
\* order and values, but for NULL texts and for file names that cannot be converted, and
\* names and tree agree again, also when the encoding of file names is another one.
FileMeansTree ==
    NobodyCalled =>
        /\ \A foreign \in {{}, PrefForeign} : MayBeRead(ReadPrefs(PrefMarkup(prefTree), foreign))
        /\ \E read \in {ReadPrefs(PrefMarkup(prefTree), {})} :
            \A p \in PrefPath :
                /\ read[p].children = prefTree[p].children
                /\ \A kind \in {read[p].kind, prefTree[p].kind} : \E is \in {PrefValue(prefTree, p, kind)} :
                        PrefValue(read, p, kind) =
                            [i \in DOMAIN is |-> [j \in DOMAIN is[i] |-> Saved(kind, is[i][j])]]
=============================================================================
