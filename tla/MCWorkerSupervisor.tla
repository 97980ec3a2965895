-------------------------- MODULE MCWorkerSupervisor --------------------------
(* One Qianfan worker, the listener, and one WeChat worker.                 *)
EXTENDS WorkerSupervisor

CONSTANTS listener, reply

BothWorkers    == {listener, reply}
OneListener    == <<listener>>
OneWechat      == <<reply>>
AnyCommand     == {"start", "stop", "restart"}
=============================================================================
