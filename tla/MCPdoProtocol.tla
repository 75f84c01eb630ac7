---------------------------- MODULE MCPdoProtocol ----------------------------
(* Both types, every choice of the optional values, no mapping, a shorter one
   than the drive's and a longer one. *)
EXTENDS PdoProtocol

Optional == {"unset", "yes", "no"}
AllConfigurations ==
  [type : {"RPDO", "TPDO"}, valid : Optional, rtr : Optional,
   set : SUBSET Parameters, mappings : {<<>>, <<"a">>, <<"a", "b", "c">>}]
=============================================================================
