---------------------------- MODULE MCKeyDispatch ---------------------------
(* A small instance of KeyDispatch for TLC: two focused nodes under a root, *)
(* and bindings that overlap, shadow and disable each other.                *)
EXTENDS KeyDispatch

CONSTANTS inner, outer

Root == {"workspace"}
ContextsOfFocus ==
    [f \in {inner, outer, None} |->
        IF f = inner THEN <<Root, {"editor"}>> ELSE <<Root>>]

Workspace == <<"id", "workspace">>
Editor == <<"id", "editor">>
EditorInWorkspace == <<"child", Workspace, Editor>>

PredicatesInUse == {Workspace, Editor, EditorInWorkspace}

Binding(keys, action, predicate) ==
    [keystrokes |-> keys, action |-> action, unbinds |-> "", predicate |-> predicate,
     user |-> TRUE]

SmallBindings ==
    {Binding(<<"a", "b">>, "X", EditorInWorkspace),
     Binding(<<"a">>, "Y", Workspace),
     Binding(<<"a", "b", "a">>, "X", NoPredicate),
     Binding(<<"a", "b">>, "NoAction", Workspace),
     Binding(<<"a", "b">>, "NoAction", Editor),
     [Binding(<<"a">>, "NoAction", Editor) EXCEPT !.user = FALSE],
     [Binding(<<"a", "b">>, "Unbind", NoPredicate) EXCEPT !.unbinds = "X"]}

ASSUME DisablingIsPositive

=============================================================================
