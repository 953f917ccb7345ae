------------------------------- MODULE MCWebDemo -------------------------------
(* A job and a master's degree in the wallet, a bachelor's degree that may be *)
(* issued, and the question whether somebody has at least a master's.         *)
EXTENDS WebDemo

CONSTANTS employment, education, s1, s2

Masters == [category |-> education, field |-> "degree_rank"]
MCRequest == {Masters}

Job == [category |-> employment, fields |-> {"employer"}, meets |-> {}]
Degree(meets) ==
    [category |-> education, fields |-> {"credential", "degree_rank"}, meets |-> meets]

MCSeeded == <<Job, Degree({Masters})>>
MCIssuable == {Degree({})}
===============================================================================
