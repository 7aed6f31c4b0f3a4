--------------------------- MODULE MCQmonMonitor ---------------------------
(* Two polls: the second one meets what the first one left behind.         *)
EXTENDS QmonMonitor

TwoPolls == 2
AnyAnswer == {"rows", "norows", "notable", "blank"}
=============================================================================
