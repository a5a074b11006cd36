--------------------------- MODULE MCHostCommands ---------------------------
EXTENDS HostCommands, TLC

CONSTANTS p1, p2, p3

Plain(kind, root) ==
  [kind |-> kind, root |-> root, auto |-> FALSE, selector |-> FALSE, ipv4 |-> FALSE,
   ipv6 |-> FALSE, interval |-> "positive", filter |-> TRUE]

Attach == [Plain("attach", TRUE) EXCEPT !.selector = TRUE]
AttachAuto == [Plain("attach", TRUE) EXCEPT !.auto = TRUE]

CommandLines ==
  {Attach, AttachAuto, Plain("attach", TRUE),
   [Attach EXCEPT !.root = FALSE], [Attach EXCEPT !.auto = TRUE],
   [Attach EXCEPT !.ipv4 = TRUE, !.ipv6 = TRUE], [Attach EXCEPT !.filter = FALSE],
   [AttachAuto EXCEPT !.interval = "not positive"],
   [AttachAuto EXCEPT !.interval = "no duration"]}
    \cup {Plain(k, r) : k \in {"serve", "prepare", "serve prepare"}, r \in BOOLEAN}
    \cup {Plain("unbind", FALSE), Plain("detach", TRUE), Plain("list", FALSE),
          Plain("ports", FALSE)}

AllModules == Modules

ProcSymmetry == Permutations(Procs)
=============================================================================
