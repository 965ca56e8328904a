----------------------------- MODULE MCService -----------------------------
(***************************************************************************)
(* Command lines that leave a working one in one respect: every            *)
(* combination of credentials, TLS files and -metrics-allow-insecure;      *)
(* modes and allowlists; targets files; hosts of up to five characters;    *)
(* intervals and timeouts; log flags.  Names and labels have at most two   *)
(* characters, hosts four, lists and allowlists two entries.               *)
(***************************************************************************)
EXTENDS Service

Host(h) == [splits |-> TRUE, ip |-> FALSE, host |-> h, port |-> 4000]
Good == Host(<<"a">>)
Named(n, a) == [name |-> n, address |-> a]

Client ==
  [mode |-> "client", allow |-> {}, file |-> "", list |-> <<>>, target |-> <<Good>>,
   interval |-> 1, timeout |-> 1, source |-> <<>>,
   userFlag |-> "", passFlag |-> "", userEnv |-> "", passEnv |-> "",
   cert |-> FALSE, key |-> FALSE, pairLoads |-> FALSE, allowInsecure |-> FALSE,
   rotation |-> "unset", logFile |-> ""]

ip1 == [text |-> "ip1", ip |-> "ip1"]
Allowlists ==
  {{}, {ip1}, {ip1, [text |-> "ip1 in IPv6", ip |-> "ip1"], [text |-> "ip2", ip |-> "ip2"]},
   {ip1, [text |-> "ip2", ip |-> "ip2"], [text |-> "ip3", ip |-> "ip3"]},
   {ip1, [text |-> "host", ip |-> "bad"]}}

WithCredentials ==
  {[Client EXCEPT !.userFlag = uf, !.passFlag = pf, !.userEnv = ue, !.passEnv = pe,
                  !.cert = c, !.key = k, !.pairLoads = l, !.allowInsecure = i] :
     uf \in {"", "flag"}, pf \in {"", "flag"}, ue \in {"", "env"}, pe \in {"", "env"},
     c \in BOOLEAN, k \in BOOLEAN, l \in BOOLEAN, i \in BOOLEAN}

WithMode ==
  {[Client EXCEPT !.mode = m, !.allow = a, !.target = t] :
     m \in Modes \cup {"other"}, a \in Allowlists, t \in {<<>>, <<Good>>}}

Lists ==
  {<<>>, <<Named(<<"a">>, Good), Named(<<"-", "_">>, Host(<<"a", ".", "a">>))>>,
   <<Named(<<"a">>, Good), Named(<<"a">>, Host(<<"a", ".", "a">>))>>,
   <<Named(<<"a">>, Good), Named(<<"-">>, Good)>>,
   <<Named(<<"a">>, Good), Named(<<"-">>, Good), Named(<<"_">>, Good)>>,
   <<Named(<<>>, Good)>>, <<Named(<<"a", "a", "a">>, Good)>>,
   <<Named(<<"a", ".">>, Good)>>, <<Named(<<"a">>, Host(<<"-">>))>>}

WithFile ==
  {[Client EXCEPT !.mode = m, !.allow = {ip1}, !.file = "list", !.list = l] :
     m \in Modes, l \in Lists}
  \cup {[Client EXCEPT !.file = f] : f \in {"unreadable", "tooLarge", "notJson"}}

Hosts == UNION {[1 .. n -> {"a", "-", ".", "*"}] : n \in 0 .. 5}

WithTarget ==
  {[Client EXCEPT !.target = <<Host(h)>>] : h \in Hosts}
  \cup {[Client EXCEPT !.target = <<[Good EXCEPT !.port = p]>>] : p \in {0, 1, 65535, 65536}}
  \cup {[Client EXCEPT !.target = <<[Good EXCEPT !.splits = FALSE]>>],
        [Client EXCEPT !.target = <<[Host(<<"*", "*">>) EXCEPT !.ip = TRUE]>>]}

WithTimes ==
  {[Client EXCEPT !.interval = i, !.timeout = t, !.source = n] :
     i \in -1 .. 1, t \in -1 .. 1, n \in {<<>>, <<"a", "-">>, <<"a", ".">>}}

WithLogs ==
  {[Client EXCEPT !.rotation = r, !.logFile = f] :
     r \in {"unset", "default", "zero", "number", "negative", "text"},
     f \in {"", "writable", "unwritable"}}

MCCommandLines ==
  WithCredentials \cup WithMode \cup WithFile \cup WithTarget \cup WithTimes \cup WithLogs

=============================================================================
