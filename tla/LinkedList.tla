----------------------------- MODULE LinkedList -----------------------------
(***************************************************************************)
(* The intrusive circular lists of include/ndlcom/list.h, as the bridge    *)
(* and the nodes use them: a list is the sequence of its entries without   *)
(* the sentinel, ListHead is the sentinel, and an entry that is on no list *)
(* is linked to itself (INIT_LIST_HEAD, list_del_init).  A loop over a     *)
(* list is a record whose fields pos and temp are its two loop variables.  *)
(***************************************************************************)
EXTENDS Integers, Sequences

CONSTANT ListHead

(***************************************************************************)
(* The entries that can be reached from the sentinel.                      *)
(***************************************************************************)
Linked(list) == {list[k] : k \in 1 .. Len(list)}

Place(list, e) == CHOOSE k \in 1 .. Len(list) : list[k] = e

IsList(list, S) ==
  /\ list \in Seq(S)
  /\ \A j, k \in 1 .. Len(list) : list[j] = list[k] => j = k

(***************************************************************************)
(* list_add: a new entry goes to the front.                                *)
(***************************************************************************)
ListAdd(list, e) == <<e>> \o list

(***************************************************************************)
(* list_del_init: unlink e and link it to itself.  For an entry that is on *)
(* no list this changes nothing.                                           *)
(***************************************************************************)
ListDelInit(list, e) ==
  IF e \in Linked(list)
  THEN [k \in 1 .. Len(list) - 1 |-> IF k < Place(list, e) THEN list[k] ELSE list[k + 1]]
  ELSE list

(***************************************************************************)
(* The ->next pointer of e: an unlinked entry points to itself.            *)
(***************************************************************************)
ListNext(list, e) ==
  LET i == IF e = ListHead THEN 0 ELSE Place(list, e)
  IN  IF e # ListHead /\ e \notin Linked(list) THEN e
      ELSE IF i < Len(list) THEN list[i + 1] ELSE ListHead

(***************************************************************************)
(* list_empty(&e->list): e is its own successor.                           *)
(***************************************************************************)
ListEmpty(list, e) ==
  IF e = ListHead THEN list = <<>> ELSE e \notin Linked(list)

(***************************************************************************)
(* list_for_each_entry_safe: its start, and its increment.                 *)
(***************************************************************************)
SafeLoopPos(list) == ListNext(list, ListHead)

SafeLoopTemp(list) == ListNext(list, SafeLoopPos(list))

SafeLoopNext(list, f) == [f EXCEPT !.pos = f.temp, !.temp = ListNext(list, f.temp)]

(***************************************************************************)
(* CHECK_LIST_IN_LOOP(pos, temp) and the increment it continues with.  The *)
(* first branch (pos was unlinked) sets pos, which the increment overwrites*)
(* with temp; the second (only temp was unlinked) makes the increment      *)
(* visit pos once more.                                                    *)
(***************************************************************************)
TempAfterCheck(list, f) ==
  IF ~ListEmpty(list, f.pos) /\ ListEmpty(list, f.temp) THEN f.pos ELSE f.temp

(***************************************************************************)
(* Mutations: no repair of the loop variables; a loop that gives up once an*)
(* entry was removed.                                                      *)
(***************************************************************************)
UncheckedLoop(list, f) == SafeLoopNext(list, f)

AbandonedLoop(list, f) ==
  SafeLoopNext(list, IF ListEmpty(list, f.pos) \/ ListEmpty(list, f.temp)
                     THEN [f EXCEPT !.temp = ListHead] ELSE f)

CheckListInLoop(list, f) == SafeLoopNext(list, [f EXCEPT !.temp = TempAfterCheck(list, f)])
=============================================================================
