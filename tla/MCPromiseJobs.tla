---------------------------- MODULE MCPromiseJobs ----------------------------
(* A small instance of PromiseJobs for TLC.                                *)
EXTENDS PromiseJobs

MCHandlers == {<<"code", "none">>, <<"none", "code">>, <<"native", "native">>,
               <<"failing", "none">>}
=============================================================================
