---------------------------- MODULE MCHbaseRpc ----------------------------
(* One client and one server, every method, of the same version, an older *)
(* and a newer one.                                                       *)
EXTENDS HbaseRpc

MCVersions ==
    {[served |-> Methods, newer |-> FALSE], [served |-> Methods, newer |-> TRUE],
     [served |-> Methods \ {"getRowOrBefore", "getRegionInfo"}, newer |-> FALSE]}
=============================================================================
