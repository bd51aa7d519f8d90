-------------------------- MODULE AsyncInterestTree --------------------------
(***************************************************************************)
(* rtps::AsyncInterestTree: two linked lists of writers that share the     *)
(* writers' own links.  Every writer has two of them, next_[0] and         *)
(* next_[1]; hidden_pos_ says which one the hidden list goes through, and  *)
(* the active list goes through the other.  The state is a record and      *)
(* every method an operator on it.  register_interest, unregister_interest *)
(* and swap run with mMutexHidden locked and wait for nothing while they   *)
(* hold it, so each is one step.                                           *)
(***************************************************************************)
EXTENDS Naturals, Sequences

CONSTANTS
    Writers,             \* writers of the participant
    NULL                 \* the null pointer

ASSUME TreeAssumption == NULL \notin Writers

Pointer == Writers \cup {NULL}

TreeState ==
    [active_front : Pointer, hidden_front : Pointer, active_pos : 0 .. 1, hidden_pos : 0 .. 1,
     next : [Writers -> [0 .. 1 -> Pointer]]]

empty ==
    [active_front |-> NULL, hidden_front |-> NULL, active_pos |-> 0, hidden_pos |-> 1,
     next |-> [w \in Writers |-> [pos \in 0 .. 1 |-> NULL]]]

\* The writers of the list that starts at front and goes through next_[pos].
RECURSIVE List(_, _, _)
List(tree, front, pos) ==
    IF front = NULL THEN <<>> ELSE <<front>> \o List(tree, tree.next[front][pos], pos)

Hidden(tree) == List(tree, tree.hidden_front, tree.hidden_pos)

Active(tree) == List(tree, tree.active_front, tree.active_pos)

Listed(w, list) == \E k \in DOMAIN list : list[k] = w

register_interest(tree, w) ==
    LET list == Hidden(tree)
    IN  CASE Listed(w, list) -> tree
          [] ~Listed(w, list) /\ list = <<>> -> [tree EXCEPT !.hidden_front = w]
          [] ~Listed(w, list) /\ list # <<>> ->
                [tree EXCEPT !.next[list[Len(list)]][tree.hidden_pos] = w]

\* The writer after w in the list takes the place of w.
UnlinkAfter(tree, w, list, pos) ==
    LET k == CHOOSE k \in DOMAIN list : list[k] = w
    IN  [tree EXCEPT !.next = IF k = 1
                              THEN [@ EXCEPT ![w][pos] = NULL]
                              ELSE [@ EXCEPT ![list[k - 1]][pos] = tree.next[w][pos],
                                             ![w][pos] = NULL]]

UnlinkActive(tree, w) ==
    IF Listed(w, Active(tree))
    THEN [UnlinkAfter(tree, w, Active(tree), tree.active_pos) EXCEPT
            !.active_front = IF @ = w THEN tree.next[w][tree.active_pos] ELSE @]
    ELSE tree

UnlinkHidden(tree, w) ==
    IF Listed(w, Hidden(tree))
    THEN [UnlinkAfter(tree, w, Hidden(tree), tree.hidden_pos) EXCEPT
            !.hidden_front = IF @ = w THEN tree.next[w][tree.hidden_pos] ELSE @]
    ELSE tree

unregister_interest(tree, w) == UnlinkHidden(UnlinkActive(tree, w), w)

IsEmpty(tree) == tree.active_front = NULL /\ tree.hidden_front = NULL

swap(tree) ==
    [tree EXCEPT !.active_front = tree.hidden_front,
                 !.hidden_front = NULL,
                 !.active_pos = (@ + 1) % 2,
                 !.hidden_pos = (@ + 1) % 2]

\* Faulty: the link of the served writer is not cleared.
next_active_nts_KeepsLink(tree) ==
    IF tree.active_front = NULL THEN tree
    ELSE [tree EXCEPT !.active_front = tree.next[tree.active_front][tree.active_pos]]

next_active_nts(tree) ==
    IF tree.active_front = NULL THEN tree
    ELSE [tree EXCEPT !.active_front = tree.next[tree.active_front][tree.active_pos],
                      !.next[tree.active_front][tree.active_pos] = NULL]
=============================================================================
