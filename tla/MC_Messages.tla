----------------------------- MODULE MC_Messages -----------------------------
(* A session with updates of every kind of rectangle. *)
EXTENDS Messages

Rect(kind, n) == [kind |-> kind, n |-> n, list |-> {}]
Supports(list) == [kind |-> "messages", n |-> 0, list |-> list]

MCUpdates ==
  {<<>>, <<Rect("last", 0)>>,
   <<Rect("pixels", 0), Rect("led", 1)>>,
   <<Rect("led", 0), Rect("newSize", 0), Rect("last", 0)>>,
   <<Rect("identity", 2), Rect("position", 0)>>,
   <<Rect("identity", 0), Rect("encodings", 4)>>,
   <<Supports({"Xvp"}), Rect("screens", 2)>>,
   <<Rect("screens", 0), Supports({})>>}
=============================================================================
