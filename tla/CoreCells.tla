------------------------------ MODULE CoreCells ------------------------------
(***************************************************************************)
(* The cells of CoreMark's list, core_list_join.c, down to the pointers.   *)
(* The heap is a record: next and info of a list_head, data16 and idx of   *)
(* the list_data an info points to.  A cell and a data block are numbered  *)
(* by their place in the arrays they are carved from, from 1; NULL is 0.   *)
(***************************************************************************)
EXTENDS Integers

NULL == 0

HeapOf(Cells, Datum) ==
  [next : [Cells -> Cells \cup {NULL}], info : [Cells -> Cells],
   data16 : [Cells -> Datum], idx : [Cells -> Datum]]

(* The next free cell and data block go in behind insert_point.  The test  *)
(* is on the one after it, so the last of the `size` is never used.         *)
core_list_insert_new(h, used, insert_point, data, size) ==
  IF used + 1 >= size
  THEN [h |-> h, used |-> used]
  ELSE [h |-> [next   |-> [h.next EXCEPT ![used + 1] = h.next[insert_point],
                                         ![insert_point] = used + 1],
               info   |-> [h.info EXCEPT ![used + 1] = used + 1],
               data16 |-> [h.data16 EXCEPT ![used + 1] = data.data16],
               idx    |-> [h.idx EXCEPT ![used + 1] = data.idx]],
        used |-> used + 1]

(* The data of `item` and of the cell behind it change places, and that    *)
(* cell goes.                                                              *)
core_list_remove(h, item) ==
  LET ret == h.next[item]
  IN  [h |-> [h EXCEPT !.info = [@ EXCEPT ![item] = h.info[ret], ![ret] = h.info[item]],
                       !.next = [@ EXCEPT ![item] = h.next[ret], ![ret] = NULL]],
       removed |-> ret]

core_list_undo_remove(h, item_removed, item_modified) ==
  [h EXCEPT !.info = [@ EXCEPT ![item_removed] = h.info[item_modified],
                               ![item_modified] = h.info[item_removed]],
            !.next = [@ EXCEPT ![item_removed] = h.next[item_modified],
                               ![item_modified] = item_removed]]

(* `cache next item at the head of the list`: the cell behind `found` is   *)
(* taken out and put in behind the head.                                   *)
CacheNext(h, list, found) ==
  LET finder == h.next[found]
      cut == [h.next EXCEPT ![found] = h.next[finder]]
  IN  IF finder = NULL THEN h
      ELSE [h EXCEPT !.next = [[cut EXCEPT ![finder] = cut[list]] EXCEPT ![list] = finder]]

===============================================================================
