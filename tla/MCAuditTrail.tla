---------------------------- MODULE MCAuditTrail ----------------------------
(* The event loop, which runs the worker's ticks and the middleware, beside    *)
(* two request threads.                                                        *)
EXTENDS AuditTrail

Thread(loop, first, second) ==
  [w \in Writers |-> CASE w = "loop" -> loop [] w = "first" -> first [] OTHER -> second]

AllKinds ==
  Thread({"tick", "recovery", "record"},
         {"stop", "delete", "login", "refresh"},
         {"update", "refresh", "logout"})
=============================================================================
