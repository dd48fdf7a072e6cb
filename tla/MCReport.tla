------------------------------ MODULE MCReport ------------------------------
(* Small instances of Report: what performance.timing may say *)
EXTENDS Report, TLC

Events == NAVIGATION_TIMING_MARKS \cup {"navigationStart"}
Early == {"fetchStart", "domainLookupStart", "connectStart", "requestStart"}

(* A page that is complete, one that is not, and one with a known bug: the  *)
(* response before the request                                              *)
Complete == [e \in Events |->
    CASE e = "navigationStart" -> 1
      [] e \in Early \ {"requestStart"} -> 2
      [] e \in {"domainLookupEnd", "connectEnd", "requestStart"} -> 3
      [] e \in {"responseStart", "domLoading"} -> 4
      [] e \in {"loadEventStart", "loadEventEnd"} -> 6
      [] OTHER -> 5]
Loading == [e \in Events |->
    IF e \in {"domComplete", "loadEventStart", "loadEventEnd"} THEN 0
    ELSE Complete[e]]
Buggy == [Complete EXCEPT !["responseStart"] = 1]
TwoTimings == {Loading, Buggy}

StartCalls == {<<"page-load", TRUE>>, <<"page-load", FALSE>>,
               <<"route-change", TRUE>>, <<"custom", TRUE>>}

(* Entries that meet each other *)
None == [sort \in Sorts |-> 0]
MeetingMixes ==
    {[None EXCEPT !["app"] = 2],
     [None EXCEPT !["external"] = 1, !["app"] = 1],
     [None EXCEPT !["longtask"] = 2],
     [None EXCEPT !["longtask"] = 1, !["vital"] = 1],
     [None EXCEPT !["app"] = 1, !["mark"] = 1],
     [None EXCEPT !["app"] = 1, !["longtask"] = 1],
     [None EXCEPT !["request"] = 1, !["app"] = 1],
     [None EXCEPT !["measure"] = 1, !["app"] = 1]}
=============================================================================
