------------------------------ MODULE Plugins ------------------------------
(***************************************************************************)
(* Loading and unloading plugins, liboul/plugin.c.                         *)
(*                                                                         *)
(* oul_plugin_load loads the plugins it depends on first and notes itself  *)
(* in their dependent_plugins lists; oul_plugin_unload unloads the         *)
(* dependents first.  Both recurse, and the lists they walk change under   *)
(* them, so a call is a stack of frames and a step is one turn of a loop   *)
(* or the part behind the loops.  The elements of dependent_plugins have   *)
(* an identity of their own: <<plugin, serial>> is one GList element.      *)
(***************************************************************************)
EXTENDS Naturals, Sequences, SequencesExt, FiniteSets

CONSTANTS
    Plugin,         \* the plugins found by probing
    Depends,        \* Depends[p]: info->dependencies
    Rank,           \* order of the plugins' names, for loaded_plugins
    Failing,        \* which plugins' functions may return FALSE, one record
                    \* [load |-> set, unload |-> set] for each case
    MaxElements     \* bound: no loading begins while a list has this many elements

ASSUME PluginsAssumption ==
    /\ Depends \in [Plugin -> Seq(Plugin)]
    /\ Rank \in [Plugin -> Nat]
    /\ Failing \subseteq [load : SUBSET Plugin, unload : SUBSET Plugin]
    /\ MaxElements \in Nat \ {0}

VARIABLES
    known,          \* the list plugins: probed and not destroyed
    loaded,         \* the list loaded_plugins
    flag,           \* flag[p]: plugin->loaded
    error,          \* error[p]: plugin->error, "none" is NULL
    dependents,     \* dependents[p]: dependent_plugins
    stack,          \* the calls under way, the innermost first
    ret,            \* what the last call returned: "true", "false", "none"
    mayfail         \* the member of Failing that is the case

vars == <<known, loaded, flag, error, dependents, stack, ret, mayfail>>

Nodes(p) == ToSet(dependents[p])
NoNode == <<>>

Frame(op, p) == [op |-> op, plugin |-> p, todo |-> <<>>, at |-> NoNode]

Returns(r) == stack' = Tail(stack) /\ ret' = r /\ UNCHANGED mayfail
Return(r) == Returns(r) /\ UNCHANGED <<known, loaded, flag, error, dependents>>

\* Replace the innermost frame by top, and call below it.
Call(top, callee) ==
    /\ stack' = <<callee, top>> \o Tail(stack)
    /\ ret' = "none"
    /\ UNCHANGED <<known, loaded, flag, error, dependents, mayfail>>

Becomes(top) ==
    /\ stack' = <<top>> \o Tail(stack)
    /\ ret' = "none"
    /\ UNCHANGED <<known, loaded, flag, error, dependents, mayfail>>

Top == Head(stack)
InOp(op) == stack # <<>> /\ Top.op = op

-----------------------------------------------------------------------------
(* oul_plugin_load *)

\* Loaded already; an error left; or the first pass: a dependency is not known.
LoadEnter ==
    LET p       == Top.plugin
        missing == ToSet(Depends[p]) \ known
    IN  /\ InOp("load")
        /\ \/ flag[p] /\ Return("true")
           \/ ~flag[p] /\ (error[p] = "set" \/ missing # {}) /\ Return("false")
           \/ /\ ~flag[p] /\ error[p] = "none" /\ missing = {}
              /\ Becomes([Frame("load_deps", p) EXCEPT !.todo = Depends[p]])

\* Mutant: the result of loading a dependency is not looked at
LoadDependency_Ignores ==
    LET rest == [Top EXCEPT !.todo = Tail(@)]
    IN  /\ InOp("load_deps") /\ Top.todo # <<>>
        /\ IF flag[Head(Top.todo)] \/ ret = "false" THEN Becomes(rest)
           ELSE Call(Top, Frame("load", Head(Top.todo)))

\* Second pass: one dependency, loaded unless it is.
LoadDependency ==
    LET d    == Head(Top.todo)
        rest == [Top EXCEPT !.todo = Tail(@)]
    IN  /\ InOp("load_deps") /\ Top.todo # <<>>
        /\ \/ ret = "false" /\ Return("false")
           \/ /\ ret # "false"
              /\ IF flag[d] THEN Becomes(rest) ELSE Call(Top, Frame("load", d))

\* A number that makes a new element of the list of p differ from every other.
Serial(p, q) == CHOOSE n \in 1..(Len(dependents[p]) + Len(stack) + 1) :
                    /\ <<q, n>> \notin Nodes(p)
                    /\ \A i \in DOMAIN stack : stack[i].at # <<q, n>>

\* Third pass: p is noted in the list of each of its dependencies.
Noted(p) ==
    [d \in Plugin |-> IF d \in ToSet(Depends[p])
                      THEN <<<<p, Serial(d, p)>>>> \o dependents[d] ELSE dependents[d]]

\* The third pass and the plugin's own load function; then loaded_plugins, the
\* flag and the "plugin-load" signal.
LoadSelf ==
    LET p == Top.plugin
    IN  /\ InOp("load_deps")
        /\ Top.todo = <<>>
        /\ dependents' = Noted(p)
        /\ \/ /\ loaded' = loaded \cup {p}
              /\ flag' = [flag EXCEPT ![p] = TRUE]
              /\ Returns("true")
           \/ /\ p \in mayfail.load
              /\ UNCHANGED <<loaded, flag>>
              /\ Returns("false")
        /\ UNCHANGED <<known, error>>

-----------------------------------------------------------------------------
(* oul_plugin_unload *)

First(p) == IF dependents[p] = <<>> THEN NoNode ELSE dependents[p][1]

\* l->next; the element must still be linked when this is read
After(p, node) ==
    LET i == CHOOSE j \in DOMAIN dependents[p] : dependents[p][j] = node
    IN  IF i < Len(dependents[p]) THEN dependents[p][i + 1] ELSE NoNode

UnloadEnter ==
    LET p == Top.plugin
    IN  /\ InOp("unload")
        /\ IF flag[p]
           THEN Becomes([Frame("unload_deps", p) EXCEPT !.at = First(p)])
           ELSE Return("false")

\* Mutant: the loop does not advance
UnloadDependent_Again ==
    LET q == Top.at[1]
    IN  /\ InOp("unload_deps") /\ Top.at # NoNode /\ ret # "false"
        /\ Top.at \in Nodes(Top.plugin)
        /\ IF q \in known /\ flag[q] THEN Call(Top, Frame("unload", q)) ELSE Becomes(Top)

\* Mutant: l->next is read after the call instead of before
UnloadDependent_Late ==
    LET p == Top.plugin
        q == Top.at[1]
    IN  /\ InOp("unload_deps") /\ Top.at # NoNode /\ ret # "false"
        /\ Top.at \in Nodes(p)
        /\ IF q \in known /\ flag[q]
           THEN Call(Top, Frame("unload", q))
           ELSE Becomes([Top EXCEPT !.at = After(p, @)])

\* One dependent: ll = l->next is taken first, then the dependent unloaded.  The
\* frame keeps ll while the call runs.  The name of a dependent that was destroyed went
\* with its module: reading it is undefined, and only that it is not found is modelled.
UnloadDependent ==
    LET p    == Top.plugin
        q    == Top.at[1]
        next == [Top EXCEPT !.at = After(p, Top.at)]
    IN  /\ InOp("unload_deps") /\ Top.at # NoNode /\ ret # "false"
        /\ Top.at \in Nodes(p)
        /\ IF q \in known /\ flag[q]
           THEN Call(next, Frame("unload", q))
           ELSE Becomes(next)

\* A dependent refused: the unloading is given up.
UnloadRefused ==
    /\ InOp("unload_deps") /\ ret = "false"
    /\ error' = [error EXCEPT ![Top.plugin] = "set"]
    /\ Returns("false")
    /\ UNCHANGED <<known, loaded, flag, dependents>>

\* g_list_remove: the first element whose data is q
Without(list, q) ==
    LET mine == { i \in DOMAIN list : list[i][1] = q }
    IN  IF mine = {} THEN list
        ELSE RemoveAt(list, CHOOSE i \in mine : \A j \in mine : i <= j)

Forgotten(p) ==
    [d \in Plugin |-> IF d \in ToSet(Depends[p]) \cap known
                      THEN Without(dependents[d], p) ELSE dependents[d]]

\* p is taken off the lists of its dependencies, then its unload function is
\* asked; when it refuses p stays loaded.
UnloadSelf ==
    LET p == Top.plugin
    IN  /\ InOp("unload_deps") /\ Top.at = NoNode /\ ret # "false"
        /\ dependents' = Forgotten(p)
        /\ \/ /\ loaded' = loaded \ {p}
              /\ flag' = [flag EXCEPT ![p] = FALSE]
              /\ error' = [error EXCEPT ![p] = "none"]
              /\ Returns("true")
           \/ /\ p \in mayfail.unload
              /\ UNCHANGED <<loaded, flag, error>>
              /\ Returns("false")
        /\ UNCHANGED known

-----------------------------------------------------------------------------
(* The callers *)

\* oul_plugin_reload
Reload ==
    /\ InOp("reload")
    /\ Call(Frame("reload2", Top.plugin), Frame("unload", Top.plugin))

Reloaded ==
    /\ InOp("reload2")
    /\ \/ ret = "true" /\ Becomes(Frame("load", Top.plugin))
       \/ ret = "false" /\ Return("false")

\* oul_plugin_destroy: the result of unloading is not looked at.
Destroy ==
    /\ InOp("destroy")
    /\ IF flag[Top.plugin]
       THEN Call(Frame("destroy2", Top.plugin), Frame("unload", Top.plugin))
       ELSE Becomes(Frame("destroy2", Top.plugin))

Destroyed ==
    /\ InOp("destroy2")
    /\ known' = known \ {Top.plugin}
    /\ Returns("none")
    /\ UNCHANGED <<loaded, flag, error, dependents>>

FirstLoaded == CHOOSE p \in loaded : \A q \in loaded : Rank[p] <= Rank[q]

\* oul_plugins_unload_all
UnloadAll ==
    /\ InOp("unload_all")
    /\ IF loaded = {} THEN Return("none")
       ELSE Call(Top, Frame("unload", FirstLoaded))

\* The bound: stale elements are only added by loading.
Room == \A d \in Plugin : Len(dependents[d]) < MaxElements

\* The clients: the plugin dialog, startup, and quitting.
Begin ==
    /\ stack = <<>>
    /\ \/ \E p \in known : Room /\ stack' = <<Frame("load", p)>>
       \/ \E p \in known : flag[p] /\ stack' = <<Frame("unload", p)>>
       \/ \E p \in known : Room /\ flag[p] /\ stack' = <<Frame("reload", p)>>
       \/ \E p \in known : stack' = <<Frame("destroy", p)>>
       \/ \E p \in known : stack' = <<Frame("unload_all", p)>>
    /\ ret' = "none"
    /\ UNCHANGED <<known, loaded, flag, error, dependents, mayfail>>

-----------------------------------------------------------------------------
Init ==
    /\ known = Plugin
    /\ loaded = {}
    /\ flag = [p \in Plugin |-> FALSE]
    /\ error = [p \in Plugin |-> "none"]
    /\ dependents = [p \in Plugin |-> <<>>]
    /\ stack = <<>>
    /\ ret = "none"
    /\ mayfail \in Failing

Step ==
    \/ LoadEnter \/ LoadDependency \/ LoadSelf
    \/ UnloadEnter \/ UnloadDependent \/ UnloadRefused \/ UnloadSelf
    \/ Reload \/ Reloaded \/ Destroy \/ Destroyed \/ UnloadAll

Next == Begin \/ Step

Spec == Init /\ [][Next]_vars

\* A call runs on: nothing interrupts it.
FairSpec == Spec /\ WF_vars(Step)

-----------------------------------------------------------------------------
(* Properties. *)

Ops == {"load", "load_deps", "unload", "unload_deps", "reload", "reload2",
        "destroy", "destroy2", "unload_all"}

Idle == stack = <<>>

\* The plugins that unload when they are asked to.
Willing == Plugin \ mayfail.unload

\* Every list holds plugins, every frame an operation on one; loaded_plugins, the
\* flag of each plugin and the list of known plugins agree: nothing that was
\* destroyed is on the list of loaded plugins, unless it refused to unload.
TypeOK ==
    /\ known \subseteq Plugin /\ loaded \subseteq Plugin
    /\ flag \in [Plugin -> BOOLEAN] /\ error \in [Plugin -> {"none", "set"}]
    /\ \A p \in Plugin : \A n \in Nodes(p) : n[1] \in Plugin
    /\ \A i \in DOMAIN stack : stack[i].op \in Ops /\ stack[i].plugin \in Plugin
    /\ ret \in {"true", "false", "none"}
    /\ \A p \in Plugin : flag[p] <=> p \in loaded
    /\ Idle => loaded \cap Willing \subseteq known

\* Between two calls a loaded plugin can rely on its dependencies: they are
\* loaded (oul_plugin_load loads them first, oul_plugin_unload unloads all
\* plugins that depend on the one it unloads).  Not so one that refused once.
DependenciesLoaded ==
    Idle => \A p \in loaded \cap Willing : ToSet(Depends[p]) \subseteq loaded

\* Between two calls every loaded plugin is noted with each plugin it depends on:
\* the dialog shows this list, and unloading follows it.
DependentsNoted ==
    Idle => \A q \in loaded \cap Willing : \A p \in ToSet(Depends[q]) :
              \E n \in Nodes(p) : n[1] = q

\* What is loaded and what is noted fit together between two calls.
PluginsAreConsistent == TypeOK /\ DependenciesLoaded /\ DependentsNoted

\* The element that oul_plugin_unload saved as the next one is still on the list
\* when the loop gets to it, although the calls in between change the list
\* (plugin.c says that it is stored because the list is modified in the loop).
NextStillLinked ==
    (InOp("unload_deps") /\ Top.at # NoNode /\ ret # "false")
        => Top.at \in Nodes(Top.plugin)

\* Every call returns: with acyclic dependencies loading and unloading end, and
\* so does oul_plugins_unload_all, which repeats until nothing is loaded, when
\* every plugin is willing.
Outermost == stack[Len(stack)].op
CallsReturn ==
    (stack # <<>> /\ (Outermost = "unload_all" => Willing = Plugin)) ~> Idle
=============================================================================
