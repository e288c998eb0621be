------------------------------ MODULE MCRpcCall ------------------------------
(* RpcCall on small instances.                                               *)
EXTENDS RpcCall

OneFault == {{f} : f \in Faults}
=============================================================================
