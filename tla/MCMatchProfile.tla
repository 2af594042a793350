------------------------- MODULE MCMatchProfile -------------------------
(* Small instances of MatchProfile: every sequence of up to three of a few *)
(* profiles, among them one for every way to fail and one for every way    *)
(* the severity can be given.                                              *)
EXTENDS MatchProfile, TLC

CONSTANTS sg, host, base, lab, u, v

Elem(i, x) == [id |-> i, value |-> x]

\* A profile that matches, with the value v for the host.
Good(severity, message, format) ==
  [service_group |-> Elem(sg, u), host |-> Elem(host, v), logbasename |-> Elem(base, u),
   severity |-> severity, message |-> message, format |-> format,
   labels |-> <<Elem(lab, ""), Elem(lab, u)>>]

MCProfile ==
  { [Good("ERROR", "m", "message") EXCEPT !.service_group = Elem(sg, "")],
    [Good("ERROR", "m", "message") EXCEPT !.host = Elem(lab, "")],
    [Good("ERROR", "m", "message") EXCEPT !.logbasename = Elem(base, "")],
    Good("", "m", "message"),
    Good("ERROR", "", "event"),
    [Good(NoSeverity, "", "event") EXCEPT !.host = Elem(lab, u)],
    Good(NoSeverity, "m", "event"),
    Good("WARN", "m2", "event"),
    Good("404", "m3", "container"),
    \* host and logbasename under one id
    [Good("no such severity", "m4", "") EXCEPT !.host = Elem(base, v), !.labels = <<>>] }

MCProfiles == UNION {[1..n -> MCProfile] : n \in 0..3}
MCTwoProfiles == [1..2 -> MCProfile]
=========================================================================
