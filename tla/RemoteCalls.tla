---------------------------- MODULE RemoteCalls ----------------------------
(***************************************************************************)
(* What Mile::Cirno::Client promises to the threads that call it, without  *)
(* a socket, a mutex or a message: the server carries out a call at most   *)
(* once, and a call returns what the server answered to that very call,    *)
(* or EIO once the connection is lost.                                     *)
(***************************************************************************)
EXTENDS Messages

VARIABLES pending,  \* the threads that are inside a call
          op,       \* the operation each of them has called
          calls,    \* how many calls were made
          call,     \* the number of the latest call of each thread
          reply,    \* the server's answer to it, << >> before that
          result,   \* what that call returned
          up        \* the connection still stands

vars == <<pending, op, calls, call, reply, result, up>>

NoResult == [call |-> 0, code |-> 0, data |-> << >>]

(* The answer as the caller is to see it.  Codes of the 9P2000.u error     *)
(* message that only some systems define are hidden behind EIO.            *)
Outcome(o, r) ==
    LET code == r.body[Len(r.body)].value
    IN  CASE r.type = o /\ o = "Read" -> [code |-> 0, data |-> Tail(r.body)]
          [] r.type = o /\ o # "Read" -> [code |-> 0, data |-> r.body]
          [] r.type = "LinuxError" -> [code |-> code, data |-> << >>]
          [] r.type = "Error" /\ code \in 1 .. ERANGE \ {EAGAIN}
                -> [code |-> code, data |-> << >>]
          [] OTHER -> [code |-> EIO, data |-> << >>]

Init == /\ pending = {}
        /\ op = [t \in Thread |-> "Version"]
        /\ calls = 0
        /\ call = [t \in Thread |-> 0]
        /\ reply = [t \in Thread |-> << >>]
        /\ result = [t \in Thread |-> NoResult]
        /\ up = TRUE

Invoke(t, o) ==
    /\ t \notin pending
    /\ calls < MaxCalls
    /\ pending' = pending \cup {t}
    /\ op' = [op EXCEPT ![t] = o]
    /\ calls' = calls + 1
    /\ call' = [call EXCEPT ![t] = calls + 1]
    /\ reply' = [reply EXCEPT ![t] = << >>]
    /\ UNCHANGED <<result, up>>

(* Only a call that is under way, and only one that was not answered yet.  *)
Execute(t) ==
    /\ up
    /\ t \in pending
    /\ reply[t] = << >>
    /\ \E r \in Replies(op[t], call[t]) : reply' = [reply EXCEPT ![t] = <<r>>]
    /\ UNCHANGED <<pending, op, calls, call, result, up>>

Return(t) ==
    /\ t \in pending
    /\ pending' = pending \ {t}
    /\ \E outcome \in
            {Outcome(op[t], reply[t][i]) : i \in DOMAIN reply[t]}
              \cup (IF up THEN {} ELSE {[code |-> EIO, data |-> << >>]}) :
          result' = [result EXCEPT ![t] = [call |-> call[t], code |-> outcome.code,
                                           data |-> outcome.data]]
    /\ UNCHANGED <<op, calls, call, reply, up>>

Lose == up /\ up' = FALSE /\ UNCHANGED <<pending, op, calls, call, reply, result>>

Next == \/ \E t \in Thread : (\E o \in Operation : Invoke(t, o)) \/ Execute(t) \/ Return(t)
        \/ Lose

Spec == Init /\ [][Next]_vars

============================================================================
