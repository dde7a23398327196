--------------------------- MODULE IntrusiveList ---------------------------
(***************************************************************************)
(* The doubly linked lists of list.h, as the code under src/ uses them: an *)
(* object is linked through a node it embeds, so that it is in the list at *)
(* most once, and list_empty(&node) tells whether it is in the list.       *)
(***************************************************************************)
EXTENDS SequencesExt

\* list_del_init: unlinks the object wherever it is; nothing happens when it
\* is in no list.
Delisted(list, e) == RemoveFirst(list, e)

\* list_del_init of every object of S: those that stay keep their order.
DelistedAll(list, S) ==
  LET stays == {i \in DOMAIN list : list[i] \notin S}
      rank(i) == Cardinality({j \in stays : j <= i})
  IN [n \in 1..Cardinality(stays) |-> list[CHOOSE i \in stays : rank(i) = n]]

\* if(list_empty(&node)) list_add_tail(&node, &list): an object that is in
\* the list keeps its place.
EnlistedTail(list, e) == IF e \in Range(list) THEN list ELSE Append(list, e)
=============================================================================
