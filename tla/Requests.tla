------------------------------ MODULE Requests ------------------------------
(* What the models of the services share.  A service keeps its state in    *)
(* tables; every statement sent with DatabaseService.query or one commits  *)
(* by itself, so that a request is a sequence of steps with other requests *)
(* in between, and what it read first is only its own memory afterwards.   *)
CONSTANTS Handlers,  \* requests the backend can serve at once
          None,      \* a null column
          CanDie     \* whether a request may end between two statements

ASSUME RequestsAssumption == CanDie \in BOOLEAN

VARIABLE request     \* per handler: the next statement and the local variables

Idle == [pc |-> "idle"]
RequestsInit == request = [h \in Handlers |-> Idle]

At(h, pc) == request[h].pc = pc
Goto(h, next) == request' = [request EXCEPT ![h] = next]
Return(h) == Goto(h, Idle)

(* A request moves to its next statement and keeps its local variables.    *)
Proceed(h, pc) == Goto(h, [request[h] EXCEPT !.pc = pc])

(* The process dies, or a statement throws and the exception leaves the    *)
(* handler.  Nothing takes the request up again; the handler is not used   *)
(* again either, which bounds how many requests end like this.             *)
Dies(h) == CanDie /\ ~At(h, "idle") /\ ~At(h, "dead") /\ Goto(h, [pc |-> "dead"])
=============================================================================
