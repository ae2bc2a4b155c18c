---------------------------- MODULE MCSshDaemon ----------------------------
(* Instances of SshDaemon for TLC. *)
EXTENDS SshDaemon

CONSTANTS c1, c2, p1, p2, p3, f1, f2

OneContainer == {c1}
TwoContainers == {c1, c2}
SecondContainer == {c2}
TwoPids == {p1, p2}
ThreePids == {p1, p2, p3}
Nobody == {}
AnyGarbage == {0, 22, 4096}
SomeStepsFail == {"keys", "pidfile", "ssh"}
NoStepFails == {}

Paths == {f1, f2}
FirstIsAnnotated == [c \in Containers |-> IF c = c1 THEN f1 ELSE None]
SecondIsAnnotated == [c \in Containers |-> IF c = c2 THEN f2 ELSE None]
NobodyIsAnnotated == [c \in Containers |-> None]
NoOldFile == {}
OldFileOfSecond == {f2}
InnerPids == [c \in Joining |-> p1]
=============================================================================
