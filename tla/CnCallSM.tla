------------------------------ MODULE CnCallSM ------------------------------
(***************************************************************************)
(* The call state machines of the connection oriented protocol             *)
(* (ncklib/transport/cn/cncclsm.c and cnsclsm.c).  A table gives, for a    *)
(* state, the events that are legal in it and what they lead to: the name  *)
(* of an action routine, or directly the next state.  Every event that is  *)
(* missing from the row of a state is ILLEGAL_TRANSITION in the source,    *)
(* whose action logs a fatal message and aborts the process.               *)
(***************************************************************************)

(* cncclsm.c: INIT is left at once by START_CALL, see StartCall of CnCall *)
ClientCallTable ==
  [ INIT       |-> [start |-> "allocate_assoc", end |-> "CFDNE"],
    ASSOC_ALLOC_WAIT |->
                   [end |-> "CFDNE", alloc_assoc_ack |-> "STUB_WAIT",
                    alloc_assoc_nak |-> "CFDNE"],
    STUB_WAIT  |-> [transmit |-> "transmit_req", end |-> "CFDNE",
                    last_transmit |-> "send_last_frag", local_err |-> "CFDNE"],
    REQUEST    |-> [transmit |-> "transmit_req", fault_dne |-> "raise_fault",
                    fault |-> "raise_fault", local_alert |-> "forward_alert",
                    end |-> "abort_send", last_transmit |-> "send_last_frag",
                    local_err |-> "abort_send", alert_timeout |-> "abort_send"],
    RESPONSE   |-> [recv |-> "handle_recv_frag", fault_dne |-> "raise_fault",
                    fault |-> "raise_fault", local_alert |-> "forward_alert",
                    end |-> "abort_send", local_err |-> "abort_send",
                    alert_timeout |-> "abort_send"],
    COMPLETED  |-> [local_alert |-> "COMPLETED", end |-> "COMPLETED"],
    CFDNE      |-> [transmit |-> "CFDNE", local_alert |-> "CFDNE",
                    end |-> "CFDNE", last_transmit |-> "CFDNE"],
    FAILED     |-> [transmit |-> "FAILED", local_alert |-> "FAILED",
                    end |-> "FAILED", last_transmit |-> "FAILED"] ]

(* cnsclsm.c *)
ServerCallTable ==
  [ INIT      |-> [recv |-> "handle_first_frag", end |-> "COMPLETED"],
    REQUEST   |-> [recv |-> "handle_frag", fault_dne |-> "send_call_fault",
                   fault |-> "send_call_fault", end |-> "call_end",
                   remote_alert |-> "process_alert_msg",
                   orphaned |-> "stop_orphan"],
    RESPONSE  |-> [send |-> "send_call_resp",
                   fault_dne |-> "abort_resp_send_fault",
                   fault |-> "abort_resp_send_fault", end |-> "call_end",
                   remote_alert |-> "process_alert_msg",
                   orphaned |-> "stop_orphan"],
    COMPLETED |-> [end |-> "COMPLETED", orphaned |-> "COMPLETED"] ]

ClientCallStates == DOMAIN ClientCallTable

(* RPC_C_SM_NO_NSTATE is what call_end leaves in the control block of a    *)
(* call that ends before its request is complete                           *)
ServerCallStates == DOMAIN ServerCallTable \cup {"NO_NSTATE"}

ClientLegal(s, e) == e \in DOMAIN ClientCallTable[s]
ServerLegal(s, e) == s # "NO_NSTATE" /\ e \in DOMAIN ServerCallTable[s]

(* rpc__cn_sm_eval_event looks the event up in the row of the state *)
ClientDoes(s, e, a) == ClientLegal(s, e) /\ ClientCallTable[s][e] = a
ServerDoes(s, e, a) == ServerLegal(s, e) /\ ServerCallTable[s][e] = a
=============================================================================
