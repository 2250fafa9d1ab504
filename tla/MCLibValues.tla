----------------------------- MODULE MCLibValues -----------------------------
(* A small instance of LibValues: files that begin with the units and a template, *)
(* up to the timing group of a pin.                                              *)
EXTENDS LibValues

Units     == <<Given("time_unit", 4), Given("capacitive_load_unit", 6)>>
Template2 == <<Named("lu_table_template", "t"), VariableOf(1, "IN_TRAN"), IndexOf(1, <<1, 2>>),
               VariableOf(2, "OUT_CAP_TOTAL"), IndexOf(2, <<1, 2>>), End>>
Swapped2  == <<Named("lu_table_template", "t"), VariableOf(1, "OUT_CAP_TOTAL"), IndexOf(1, <<1, 2>>),
               VariableOf(2, "IN_TRAN"), IndexOf(2, <<1, 2>>), End>>
Template1 == <<Named("lu_table_template", "t"), VariableOf(1, "OUT_CAP_TOTAL"), IndexOf(1, <<1, 2>>), End>>
ToPin     == <<Stmt("cell"), Stmt("pin")>>
ToTiming  == ToPin \o <<Stmt("timing"), Named("related_pin", "A"), Named("timing_type", "combinational")>>
MCPrelude == {<<>>} \cup {Units \o t \o ToTiming : t \in {Template1, Template2, Swapped2}}
             \cup {Template1 \o Units \o ToPin}
MCIndex   == {<<1, 2>>, <<1, 2, 3>>}
===============================================================================
