---------------------------- MODULE MCControlPlane ----------------------------
(* ControlPlane.tla for TLC: two backends and a name that is unknown.      *)
EXTENDS ControlPlane

order == <<"c-thttpd", "rust-thttpd">>
names == {"c-thttpd", "rust-thttpd", "unknown"}
weights == {0, 1}

(* A cutover, weights for one backend, a name nobody knows, rollbacks,     *)
(* a drain.                                                                *)
cutover == [b \in {"c-thttpd", "rust-thttpd"} |-> IF b = "c-thttpd" THEN 0 ELSE 1]
commands ==
    [kind : {"set_weight"},
     weights : {cutover, [b \in {"rust-thttpd"} |-> 0], [b \in {"unknown"} |-> 1]}]
    \union [kind : {"rollback"}, to : {"c-thttpd"}]
    \union [kind : {"drain", "snapshot"}]
=============================================================================
