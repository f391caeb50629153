--------------------------- MODULE MCControlPlane ---------------------------
EXTENDS ControlPlane

(* Every command is sent under a setup where its answer depends on the rest; *)
(* one setup sends two lines in one read.                                    *)
One(cmds) == {<<c>> : c \in cmds}

MCSetups ==
  {[services |-> s, watch |-> FALSE, mirror |-> FALSE,
    batches |-> One(Posting \cup {"shutdown"}) \cup {<<"shutdown", "restart">>}]
      : s \in BOOLEAN}
  \cup
  {[services |-> TRUE, watch |-> TRUE, mirror |-> FALSE,
    batches |-> One({"systemstatus", "ping", "blank", "exit"}) \cup {<<"exit", "ping">>}],
   [services |-> FALSE, watch |-> TRUE, mirror |-> TRUE, batches |-> One({"errors"})]}
=============================================================================
