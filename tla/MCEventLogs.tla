----------------------------- MODULE MCEventLogs -----------------------------
(* A small instance of EventLogs: an account whose logons fail, that logs on
   from remote off hours, and that is created as an administrator.           *)
EXTENDS EventLogs

Bob(kind, off, remote, admin, says) ==
    [kind |-> kind, user |-> "bob", host |-> "pc", off |-> off, remote |-> remote,
     admin |-> admin, says |-> says, raw |-> FALSE]

BobsDay == {Bob("failure", FALSE, FALSE, FALSE, {"id", "type", "text"}),
            Bob("logon", TRUE, TRUE, FALSE, {"id", "type", "text"}),
            Bob("newuser", FALSE, FALSE, TRUE, {"id", "text"})}
LogCleared == <<[Bob("cleared", FALSE, FALSE, FALSE, {"id", "type", "text"}) EXCEPT !.user = "eve"]>>
=============================================================================
