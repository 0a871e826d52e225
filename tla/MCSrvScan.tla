---- MODULE MCSrvScan ----
(***************************************************************************)
(* Answer sections of up to three records, with the fields at their limits.*)
(***************************************************************************)
EXTENDS SrvLibraries

Limits == {0, 1, 65535}
SomeAnswer ==
  [form : {"srv"}, priority : Limits, weight : Limits, expands : BOOLEAN]
    \cup [form : {"bare", "cut", "other"}, priority : {0}, weight : {65535}, expands : {TRUE}]

SectionsOf(n) == [1..n -> SomeAnswer]

MCResponse == SectionsOf(0) \cup SectionsOf(1) \cup SectionsOf(2) \cup SectionsOf(3)
====
