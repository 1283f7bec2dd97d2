------------------------------ MODULE MCAssistant ------------------------------
(***************************************************************************)
(* The assistant on one turn: two orders of a supplier, one without a      *)
(* number, and the calls that list, create, batch, update and query.       *)
(***************************************************************************)
EXTENDS Assistant

CONSTANTS s1, buyer, manager

MCPerResponse == <<2, 1>>
MCPartners == {s1}
MCRoles == {buyer, manager}
Row(code, partner) == [code |-> code, partner |-> partner]
Asked(tool, rows, page) == [tool |-> tool, rows |-> rows, page |-> page]
Orders == <<Row("1", s1), Row("2", s1)>>

MCCalls == {
  Asked("po_list", <<>>, 1), Asked("po_list", <<>>, 2), Asked("po_list", <<>>, 3),
  Asked("po_batch_create", Orders, 0), Asked("po_create", <<Row(Blank, s1)>>, 0),
  Asked("material_batch_create", Orders, 0), Asked("material_update", Orders, 0),
  Asked("logistics_batch_query", Orders, 0),
  Asked("material_create", <<Row("1", s1)>>, 0)}
=============================================================================
