------------------------------ MODULE MCSendme ------------------------------
(* Instances of Sendme for TLC. *)
EXTENDS Sendme

CONSTANTS s1, s2

\* The hypotheses of the theorems of SendmeProofs hold of every instance.
ASSUME Honest == InStep /\ VersionsAgree /\ QueueSuffices

\* Cells the applications write: more than a window, or a short second stream.
BothSend    == [e \in Ends |-> [s \in Streams |-> IF e = "client" THEN 5 ELSE 2]]
ClientSends == [e \in Ends |-> [s \in Streams |->
                  IF e = "exit" THEN 0 ELSE IF s = s1 THEN 4 ELSE 3]]
LongAndShort == [e \in Ends |-> [s \in Streams |->
                   IF e = "exit" THEN 0 ELSE IF s = s1 THEN 5 ELSE 4]]

\* The exit sends a CONNECTED cell, or nothing but DATA and SENDMEs is sent.
OneOther == [e \in Ends |-> IF e = "client" THEN 0 ELSE 1]
NoOther  == [e \in Ends |-> 0]

\* Both edges use version 1, or the client's consensus is older and it still
\* emits version 0.
Version1  == [e \in Ends |-> 1]
MixedEmit == [e \in Ends |-> IF e = "client" THEN 0 ELSE 1]
AcceptAny == [e \in Ends |-> 0]
=============================================================================
