----------------------------- MODULE MCRouting ------------------------------
(***************************************************************************)
(* Values for model-checking Routing with TLC.                             *)
(***************************************************************************)
EXTENDS Routing, TLC

CONSTANT f1

Decl(name, type, template) ==
  [name |-> name, type |-> type, template |-> template,
   stream |-> IsJetStream(type), consumer |-> type = "JETSTREAM_TASK", streaming |-> FALSE]

orders == TextToken("orders")
create == TextToken("create")
undo   == TextToken("rollback")

Get      == Decl("Get", "REQUEST_REPLY", <<orders, FieldToken("id")>>)
Create   == Decl("Create", "REQUEST_REPLY", <<orders, create>>)
GetItem  == Decl("GetItem", "REQUEST_REPLY", <<orders, FieldToken("id"), FieldToken("item")>>)
Created  == Decl("Created", "PUBLISH", <<TextToken("x"), FieldToken("id")>>)
Watch    == Decl("Watch", "PUBLISH", <<orders, TextToken(">")>>)
Version  == Decl("Version", "REQUEST_REPLY", <<orders, PartToken("v", "id")>>)
Unmarked == Decl("Unmarked", "REQUEST_REPLY", <<TextToken("x"), FieldToken("note")>>)

Reserve  == Decl("Reserve", "JETSTREAM_TASK", <<orders, FieldToken("id")>>)
Charge   == Decl("Charge", "JETSTREAM_TASK", <<orders, create, FieldToken("id")>>)
Ship     == Decl("Ship", "JETSTREAM_TASK", <<TextToken("ship"), FieldToken("id"), FieldToken("item")>>)
Audit    == Decl("Audit", "JETSTREAM_CONSUME", <<TextToken("ship"), FieldToken("id")>>)
Note     == Decl("Note", "JETSTREAM_PUBLISH", <<TextToken("ship"), create>>)
Loose    == [Ship EXCEPT !.consumer = FALSE]

AllDecls ==
  {Get, Create, GetItem, Created, Watch, Version, Unmarked, Reserve, Ship, Audit, Note, Loose}
NestedDecls == {Reserve, Charge}

FieldTable ==
  [f \in {"id", "item", "note"} |-> [scalar |-> TRUE, marked |-> f # "note"]]

ValueTable ==
  {[f \in {"id", "item"} |-> IF f = "id" THEN v ELSE w] :
     v \in {"create", "*", "", "a.b"}, w \in {"x"}}

PlainValues == {[f \in {"id", "item"} |-> v] : v \in {"create", "x", "rollback"}}

TokenTable ==
  {"orders", "create", "ship", "x", "rollback", "*", "a", "b", "vcreate", "vx", "vrollback"}

DottedTable == "a.b" :> <<"a", "b">>
=============================================================================
