---------------------------- MODULE MCEdgeClient ----------------------------
(* The situations in which TLC checks EdgeClient. *)
EXTENDS EdgeClient

Base == [mode |-> "embed", password |-> FALSE, keys |-> {1}, writes |-> 3, sockets |-> 3,
         mishaps |-> 2, faults |-> {"close"}, commands |-> 0, ttls |-> {0}, ticks |-> 0, compactAt |-> 9]

\* Breaks of the socket, answers of every kind, a full outbox, refusals, a subscription.
Embedded == <<
    Base,
    [Base EXCEPT !.password = TRUE, !.writes = 2, !.faults = {"close", "refuse"}],
    [Base EXCEPT !.writes = 2, !.faults = {"close", "subscribe", "push"}, !.commands = 1],
    [Base EXCEPT !.writes = 1, !.faults = {"huge", "crash"}, !.commands = 2] >>

\* The same in the browser, with reloads and sign-out.
InBrowser == <<
    [Base EXCEPT !.mode = "browser", !.writes = 2, !.faults = {"close", "crash"}],
    [Base EXCEPT !.mode = "browser", !.writes = 2, !.faults = {"crash", "refuse"}],
    [Base EXCEPT !.mode = "browser", !.writes = 2, !.faults = {"clear", "subscribe"}],
    [Base EXCEPT !.mode = "browser", !.keys = {1, 2}, !.writes = 2, !.faults = {"crash"},
                 !.sockets = 0, !.ttls = {0, 1}, !.ticks = 1, !.compactAt = 0] >>

AllScenarios == Embedded \o InBrowser

\* Two tabs of one origin, nothing goes wrong.
TabScenarios == <<[Base EXCEPT !.mode = "browser", !.writes = 2, !.sockets = 2, !.mishaps = 0]>>

\* One client, whose writes the server refuses for a while, loses its socket.
RefusedScenarios == <<
    [Base EXCEPT !.writes = 2, !.faults = {"close", "refuse"}],
    [Base EXCEPT !.mode = "browser", !.writes = 2, !.faults = {"close", "refuse"}] >>

\* A reload between a write with a lifetime and its deadline.
LifetimeScenarios ==
    <<[Base EXCEPT !.mode = "browser", !.writes = 1, !.sockets = 0, !.faults = {"crash"},
                   !.ttls = {2}, !.ticks = 1]>>
=============================================================================
