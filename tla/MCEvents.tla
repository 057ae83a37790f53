------------------------------ MODULE MCEvents ------------------------------
(***************************************************************************)
(* One browser that resumes, one dashboard that does not, a driver that    *)
(* waits for gates and the end, and a caller of wait_pipeline_result.      *)
(***************************************************************************)
EXTENDS EventStream

MCClients  == {"browser", "dashboard"}
MCResuming == {"browser"}
MCDrivers  == {"driver"}
MCCallers  == {"caller"}
MCWanted   == [d \in MCDrivers |-> {"gate_opened", "run_final"}]
=============================================================================
