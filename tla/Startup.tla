------------------------------ MODULE Startup -------------------------------
(***************************************************************************)
(* What the process does with its command line and its environment before  *)
(* it measures anything: the checks of main and run of main.go, the        *)
(* credentials, the targets and their addresses (validate.go, prober.go,   *)
(* client.go of internal/prober), the allowlist (server.go), and what the  *)
(* installer records of a command line for the service.                    *)
(*                                                                         *)
(* A command line is a record.  A credential is "", or "flag" or "env" for *)
(* where it comes from; a name or a host is a sequence of characters, one  *)
(* for each class the code tells apart: "a" for letters and digits, "-",   *)
(* "_", "." and "*" for any other.  Lengths are limited as in the code,    *)
(* with the limits as constants.                                           *)
(***************************************************************************)
EXTENDS Integers, Sequences, FiniteSets

CONSTANTS
  MaxTargetsCount,   \* 1000
  MaxNameLen,        \* 63
  MaxHostLen,        \* 253
  MaxLabelLen,       \* 63
  MaxAllow           \* 256

ASSUME StartupAssumption ==
  {MaxTargetsCount, MaxNameLen, MaxHostLen, MaxLabelLen, MaxAllow} \subseteq Nat

Modes == {"server", "client", "both"}

Characters == {"a", "-", "_", ".", "*"}

\* `splits`: net.SplitHostPort takes the string apart; `ip`: net.ParseIP takes
\* the host.  A port that is no number is 0.
Address == [splits : BOOLEAN, ip : BOOLEAN, host : Seq(Characters), port : Int]

Target == [name : Seq(Characters), address : Address]

\* The flags and the environment variables of a process.  `file` is what
\* -targets names, `list` its JSON; `target` is -target, <<>> if not given;
\* `rotation` stands for the three flags of log rotation.
CommandLine ==
  [mode : STRING, allow : SUBSET [text : STRING, ip : STRING],
   file : {"", "unreadable", "tooLarge", "notJson", "list"}, list : Seq(Target),
   target : Seq(Address), interval : Int, timeout : Int, source : Seq(Characters),
   userFlag : {"", "flag"}, passFlag : {"", "flag"},
   userEnv : {"", "env"}, passEnv : {"", "env"},
   cert : BOOLEAN, key : BOOLEAN, pairLoads : BOOLEAN, allowInsecure : BOOLEAN,
   rotation : {"unset", "default", "zero", "number", "negative", "text"},
   logFile : {"", "writable", "unwritable"}]

-----------------------------------------------------------------------------
(* Names and addresses.                                                    *)

ValidateTargetName(name) ==
  /\ Len(name) \in 1 .. MaxNameLen
  /\ \A i \in DOMAIN name : name[i] \in {"a", "-", "_"}

\* strings.Split: what stands between two neighbouring cuts.
Cuts(host) == {0, Len(host) + 1} \cup {i \in DOMAIN host : host[i] = "."}

Labels(host) ==
  {SubSeq(host, c[1] + 1, c[2] - 1) :
     c \in {d \in Cuts(host) \X Cuts(host) :
              d[1] < d[2] /\ ~\E e \in Cuts(host) : d[1] < e /\ e < d[2]}}

\* Plausible bug: only the first character of a label is looked at.
HyphenInside(label) == label[1] # "-"

NoHyphenAtTheEnds(label) == label[1] # "-" /\ label[Len(label)] # "-"

isValidHost(address) ==
  \/ address.ip
  \/ /\ Len(address.host) <= MaxHostLen
     /\ \A label \in Labels(address.host) :
          /\ Len(label) \in 1 .. MaxLabelLen
          /\ NoHyphenAtTheEnds(label)
          /\ \A i \in DOMAIN label : label[i] \in {"a", "-"}

ValidateTarget(address) ==
  /\ address.splits
  /\ address.host # <<>>
  /\ address.port >= 1 /\ address.port <= 65535
  /\ isValidHost(address)

SameName(t, u) == t.name = u.name

validateTargets(targets) ==
  /\ \A i \in DOMAIN targets :
       ValidateTarget(targets[i].address) /\ ValidateTargetName(targets[i].name)
  /\ \A i, j \in DOMAIN targets : i # j => ~SameName(targets[i], targets[j])

-----------------------------------------------------------------------------
(* The targets and the client's configuration.                             *)

LoadTargetsOK(cmd) ==
  /\ cmd.file = "list"
  /\ Len(cmd.list) <= MaxTargetsCount
  /\ validateTargets(cmd.list)

DefaultName == <<"a">>

\* -targets wins over -target.
Listed(cmd) ==
  IF cmd.file # "" THEN cmd.list
  ELSE IF cmd.target # <<>> THEN <<[name |-> DefaultName, address |-> cmd.target[1]]>>
  ELSE <<>>

buildConfigOK(cmd) ==
  /\ cmd.file # "" => LoadTargetsOK(cmd)
  /\ cmd.file = "" /\ cmd.target # <<>> => ValidateTarget(cmd.target[1])
  /\ cmd.source # <<>> => ValidateTargetName(cmd.source)

\* Config.Validate, which RunClient asks when the metrics are already served.
Validate(cmd) ==
  /\ DOMAIN Listed(cmd) # {}
  /\ cmd.interval > 0 /\ cmd.timeout > 0
  /\ validateTargets(Listed(cmd))

-----------------------------------------------------------------------------
(* Credentials, allowlist, and the checks of run in their order.           *)

\* Plausible bug: user and password are looked up one by one.
ResolveEach(cmd) ==
  [user |-> IF cmd.userFlag # "" THEN cmd.userFlag ELSE cmd.userEnv,
   pass |-> IF cmd.passFlag # "" THEN cmd.passFlag ELSE cmd.passEnv]

resolveMetricsAuth(cmd) ==
  IF cmd.userFlag # "" \/ cmd.passFlag # ""
  THEN [user |-> cmd.userFlag, pass |-> cmd.passFlag]
  ELSE [user |-> cmd.userEnv, pass |-> cmd.passEnv]

\* The handler around /metrics: does it serve this request?  `given`: the
\* request has an Authorization header.
MetricsAuth(auth, request) ==
  auth.user = "" \/ request = [given |-> TRUE, user |-> auth.user, pass |-> auth.pass]

MetricsAuthOK(cmd) ==
  LET auth == resolveMetricsAuth(cmd)
  IN  /\ (auth.user = "") = (auth.pass = "")
      /\ cmd.cert = cmd.key
      /\ cmd.cert => cmd.pairLoads
      /\ auth.user # "" /\ ~cmd.cert => cmd.allowInsecure

\* A set, by the canonical form of each entry; "bad" is not an address.
Allowed(cmd) == {entry.ip : entry \in cmd.allow}

ParseAllowlistOK(cmd) ==
  /\ "bad" \notin Allowed(cmd)
  /\ Cardinality(Allowed(cmd)) <= MaxAllow

RunAccepts(cmd) ==
  /\ cmd.mode \in Modes
  /\ MetricsAuthOK(cmd)
  /\ cmd.mode # "server" => buildConfigOK(cmd)
  /\ cmd.source # <<>> => ValidateTargetName(cmd.source)
  /\ ParseAllowlistOK(cmd)
  /\ cmd.mode \in {"server", "both"} => Allowed(cmd) # {}

-----------------------------------------------------------------------------
(* main and the installer.                                                 *)

Parses(cmd) == cmd.rotation # "text"

LogFlagsOK(cmd) ==
  /\ cmd.rotation # "negative"
  /\ cmd.logFile = "" => cmd.rotation \in {"unset", "default"}
  /\ cmd.logFile = "unwritable" => cmd.rotation # "zero"

MainAccepts(cmd) == Parses(cmd) /\ LogFlagsOK(cmd)

\* The credentials are left out.  The values of the rotation flags that were
\* given are taken for relative paths and made absolute.
Recorded(cmd) ==
  [cmd EXCEPT !.userFlag = "", !.passFlag = "",
              !.rotation = IF @ = "unset" THEN @ ELSE "text"]

=============================================================================
