--------------------------- MODULE MCEventStream ---------------------------
(* Handlers of the event stream for the model checker: one handler of one  *)
(* type, one of another, and catch-all ones (two of them, so that one      *)
(* OnMessage can replace another).                                         *)
EXTENDS EventStream

MCEventTypes == {"payment.completed", "plan.changed"}

MCOneType == {"payment.completed"}

MCHandlerType ==
  [h \in Handlers |->
     CASE h = "onPaid" -> "payment.completed"
       [] h = "onPlan" -> "plan.changed"
       [] OTHER -> CatchAll]
=============================================================================
