------------------------------- MODULE Keymap -------------------------------
(* Key bindings (crates/gpui/src/keymap.rs, keymap/binding.rs and           *)
(* keymap/context.rs) as pure operators over a keymap, the sequence of      *)
(* bindings in the order in which they were added.                          *)
(*                                                                          *)
(* A binding is a record [keystrokes, action, unbinds, predicate, user]:    *)
(* its action is a name, NoAction or Unbind (then "unbinds" is the action   *)
(* it names), and "user" is false when its meta index marks it as part of   *)
(* the base keymap.  A context is the set of identifiers of one node of the *)
(* dispatch path, a context stack a sequence of them from the root to the   *)
(* focused node.  Predicates are NoPredicate or <<"id", i>>, <<"not", p>>,  *)
(* <<"and", p, q>>, <<"or", p, q>> and <<"child", p, q>> (p > q); the       *)
(* comparisons key == value and key != value are atoms like identifiers.    *)
EXTENDS Naturals, SequencesExt, FiniteSetsExt

CONSTANTS
    NoPredicate,    \* the binding applies in every context
    Predicates,     \* the predicates in use, with all their parts
    MaxHeight       \* bound on the nesting of predicates

Parts(p) == IF p[1] = "id" THEN {} ELSE {p[i] : i \in 2..Len(p)}

\* Predicates are finite trees.
ASSUME PredicateAssumption ==
    /\ NoPredicate \notin Predicates /\ MaxHeight \in Nat
    /\ \A p \in Predicates :
          /\ p[1] \in {"id", "not", "and", "or", "child"}
          /\ p[1] = "not" => Len(p) = 2
          /\ p[1] \in {"and", "or", "child"} => Len(p) = 3
    /\ \E h \in [Predicates -> 0..MaxHeight] :
          \A p \in Predicates : \A q \in Parts(p) : q \in Predicates /\ h[q] < h[p]

IsStack(s) == Len(s) \in Nat /\ DOMAIN s = 1..Len(s)

\* The arguments of eval_inner are slices of one context stack with a common
\* start: contexts ends at hi, all_contexts at top.
Slices(stack) == [lo: 1..Len(stack), hi: 1..Len(stack), top: 1..Len(stack)]

\* eval_inner, for every predicate and slice.  The last context of the slice
\* decides an identifier, "not" looks at every prefix of all contexts, and p > q
\* at the first prefix that matches p, q being evaluated on the rest alone.
eval_inner(stack) ==
    LET holds[x \in Predicates \X Slices(stack)] ==
          LET p == x[1]
              s == x[2]
              to(i) == [s EXCEPT !.hi = i]
              parents == {i \in s.lo..(s.hi - 1) : holds[<<p[2], to(i)>>]}
              rest == [lo |-> Min(parents) + 1, hi |-> s.hi, top |-> s.hi]
          IN  /\ s.lo <= s.hi
              /\ \/ p[1] = "id" /\ p[2] \in stack[s.hi]
                 \/ p[1] = "not" /\ \A i \in s.lo..s.top : ~holds[<<p[2], to(i)>>]
                 \/ p[1] = "and" /\ holds[<<p[2], s>>] /\ holds[<<p[3], s>>]
                 \/ p[1] = "or" /\ (holds[<<p[2], s>>] \/ holds[<<p[3], s>>])
                 \/ p[1] = "child" /\ parents # {} /\ holds[<<p[3], rest>>]
    IN  holds

\* The depths at which a predicate matches; depth_of returns the deepest.
MatchingDepths(p, contexts) ==
    {d \in DOMAIN contexts :
        eval_inner(contexts)[<<p, [lo |-> 1, hi |-> d, top |-> Len(contexts)]>>]}

\* The pairs of a predicate and another one that it is found to be a superset
\* of; of p > q the given part is compared.
Supersets(part) ==
    LET superset[x \in Predicates \X Predicates] ==
          LET p == x[1]
              other == x[2]
          IN  \/ p = other
              \/ p[1] = "or" /\ (superset[<<p[2], other>>] \/ superset[<<p[3], other>>])
              \/ p[1] # "or" /\ other[1] = "child" /\ superset[<<p, other[part]>>]
              \/ /\ p[1] # "or" /\ other[1] = "and"
                 /\ superset[<<p, other[2]>>] \/ superset[<<p, other[3]>>]
    IN  superset

\* Mutant: the parent of p > q is compared.
is_superset_Parent(p, other) == Supersets(2)[<<p, other>>]

\* is_superset: every context stack that matches other matches p.
is_superset(p, other) == Supersets(3)[<<p, other>>]

-----------------------------------------------------------------------------
is_no_action(b) == b.action = "NoAction"
is_unbind(b) == b.action = "Unbind"
IsDisabling(b) == is_no_action(b) \/ is_unbind(b)

\* binding_enabled: the depths at which a binding applies, of which the
\* deepest counts; none if it is not enabled.
binding_depths(b, contexts) ==
    IF b.predicate = NoPredicate THEN {Len(contexts)}
    ELSE MatchingDepths(b.predicate, contexts)

\* match_keystrokes: a complete match, or one that needs more keystrokes.
MatchesCompletely(b, input) == b.keystrokes = input
MatchesPending(b, input) ==
    Len(b.keystrokes) > Len(input) /\ IsPrefix(input, b.keystrokes)

binding_is_unbound(disabled, b) ==
    /\ disabled.keystrokes = b.keystrokes
    /\ is_unbind(disabled) /\ disabled.unbinds = b.action

disabled_binding_matches_context(disabled, b) ==
    \/ disabled.predicate = NoPredicate
    \/ /\ b.predicate # NoPredicate
       /\ is_superset(disabled.predicate, b.predicate)

\* Binding i comes before binding j: deeper in the tree, or added later.
Precedes(depths, i, j) ==
    \/ Max(depths[i]) > Max(depths[j])
    \/ Max(depths[i]) = Max(depths[j]) /\ i > j

\* Mutant: a NoAction of the base keymap ends the loop, too.
VisitMatched_BaseStops(keymap, acc, i) ==
    LET b == keymap[i] IN
    IF acc.stopped THEN acc
    ELSE IF is_no_action(b) THEN [acc EXCEPT !.stopped = TRUE]
    ELSE IF is_unbind(b) THEN [acc EXCEPT !.unbound = @ \union {i}]
    ELSE IF \E u \in acc.unbound : binding_is_unbound(keymap[u], b) THEN acc
    ELSE [acc EXCEPT !.bindings = Append(@, i)]

\* One round of the loop over the matched bindings, in order of precedence.
VisitMatched(keymap, acc, i) ==
    LET b == keymap[i] IN
    IF acc.stopped THEN acc
    ELSE IF is_no_action(b) THEN [acc EXCEPT !.stopped = b.user]
    ELSE IF is_unbind(b) THEN [acc EXCEPT !.unbound = @ \union {i}]
    ELSE IF \E u \in acc.unbound : binding_is_unbound(keymap[u], b) THEN acc
    ELSE [acc EXCEPT !.bindings = Append(@, i)]

\* One round of the loop over the pending bindings, in the order in which
\* they were added: the keystrokes that may still be completed.
VisitPending(keymap, acc, i) ==
    LET keys == keymap[i].keystrokes
    IN  IF IsDisabling(keymap[i]) THEN acc \ {keys} ELSE acc \union {keys}

\* matched_bindings.sort_by.
Sorted(matched, depths) ==
    CHOOSE s \in [1..Cardinality(matched) -> matched] :
        \A m, n \in DOMAIN s : m < n => Precedes(depths, s[m], s[n])

\* The loop over the matched bindings: what it has found after n rounds.
Visited(keymap, order) ==
    LET after[n \in 0..Len(order)] ==
          IF n = 0 THEN [bindings |-> <<>>, unbound |-> {}, stopped |-> FALSE]
          ELSE VisitMatched(keymap, after[n - 1], order[n])
    IN  after

\* The enabled bindings are those with a depth.
MatchedBindings(keymap, input, depths) ==
    LET matched == {i \in DOMAIN keymap : /\ depths[i] # {}
                                          /\ MatchesCompletely(keymap[i], input)}
    IN  Visited(keymap, Sorted(matched, depths))[Cardinality(matched)].bindings

PendingKeys(keymap, input, depths, bindings) ==
    LET pending == {i \in DOMAIN keymap : /\ depths[i] # {}
                                          /\ MatchesPending(keymap[i], input)
                                          /\ bindings # <<>> => bindings[1] <= i}
    IN  FoldLeft(LAMBDA acc, i : VisitPending(keymap, acc, i), {},
                 SetToSortSeq(pending, <))

WithPending(keymap, input, depths, bindings) ==
    [bindings |-> bindings,
     pending |-> PendingKeys(keymap, input, depths, bindings) # {}]

WithMatched(keymap, input, depths) ==
    WithPending(keymap, input, depths, MatchedBindings(keymap, input, depths))

\* bindings_for_input: the indices of the matching bindings, highest
\* precedence first, and whether a longer input might match.
bindings_for_input(keymap, input, contexts) ==
    WithMatched(keymap, input,
                [i \in DOMAIN keymap |-> binding_depths(keymap[i], contexts)])

\* Keymap::bindings_for_action: the bindings shown for an action, without
\* those that a later disabling binding hides.
bindings_for_action(keymap, action) ==
    {i \in DOMAIN keymap :
        /\ keymap[i].action = action
        /\ \A d \in (i + 1)..Len(keymap) :
              ~ /\ IsDisabling(keymap[d])
                /\ keymap[d].keystrokes = keymap[i].keystrokes
                /\ disabled_binding_matches_context(keymap[d], keymap[i])
                /\ is_no_action(keymap[d]) \/ binding_is_unbound(keymap[d], keymap[i])}

=============================================================================
