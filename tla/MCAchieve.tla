----------------------------- MODULE MCAchieve ------------------------------
(* Instances of Achieve for TLC: two faces of a page. The editable field 1 *)
(* can be filled or opened, the list 2 has two options left to choose.     *)
EXTENDS Achieve

CONSTANTS here, there

RowOf(n, k, o) == [node |-> n, kind |-> k, option |-> o]

Form == <<RowOf(1, "fill", 0), RowOf(1, "click", 0), RowOf(0, "wait", 0)>>
List == <<RowOf(2, "select", 1), RowOf(2, "select", 2), RowOf(0, "scroll", 1)>>

Faces == {Form, List}
=============================================================================
