------------------------------- MODULE Startup -------------------------------
(***************************************************************************)
(* How the two commands arrive at a configuration: loadConfig of both      *)
(* main packages, LoadTransportConfig and TransportConfig.Validate of      *)
(* pkg/bootstrap, Config.Validate of both drivers.  Pure operators.        *)
(*                                                                         *)
(* A text is named for what it says.  "name" stands for the settings that  *)
(* are required and have a format (AMI, namespace, gateway ID, ...),       *)
(* "gateway-cert" for the paths of the three TLS files, "storage-label"    *)
(* for the label and the annotation of the KubeVirt command.  Of the two   *)
(* durations the poll interval is here; the maximum age is looked up and   *)
(* validated the same way, up to thirty days instead of one hour.          *)
(***************************************************************************)
EXTENDS Integers, FiniteSets

CONSTANT DiskBits   \* width of the disk size of EC2; 32 in the code

ASSUME DiskBitsHoldTheRange == DiskBits \in 16..32

Settings == {"bind-address", "gateway-endpoint", "gateway-cert", "insecure", "name",
             "poll-interval", "max-instances", "disk-size", "storage-label"}
Drivers == {"kubevirt", "ec2"}

Unset == "unset"
Rejected == [s \in Settings |-> "rejected"]

\* One past the width: the conversion of loadConfig makes it 1.
WrapsToOne == 2^DiskBits + 1
Int32(n) == ((n + 2^(DiskBits - 1)) % 2^DiskBits) - 2^(DiskBits - 1)

\* What a text says, of the texts that are numbers.
Value == [t \in {"0", "1", "10", "200", "1000", "1001", "16384", "16385", "huge"} |->
    CASE t = "0" -> 0 [] t = "1" -> 1 [] t = "10" -> 10 [] t = "200" -> 200 [] t = "1000" -> 1000
      [] t = "1001" -> 1001 [] t = "16384" -> 16384 [] t = "16385" -> 16385 [] t = "huge" -> WrapsToOne]

Default(d) == [s \in Settings |->
    CASE s = "insecure" -> "false" [] s = "poll-interval" -> "15s" [] s = "max-instances" -> "10"
      [] s = "disk-size" -> (IF d = "ec2" THEN "200" ELSE "100Gi") [] OTHER -> ""]

Typed(d) == {"insecure", "poll-interval", "max-instances"} \cup (IF d = "ec2" THEN {"disk-size"} ELSE {})
HasEnvironment(s) == s # "storage-label"

Readable(d, s, text) == s \in Typed(d) => text # "junk"

\* A line is what the operator gave: the flags of the command line and the
\* environment, where an empty variable is an unset one.
FromEnvironment(line, s) == line.flag[s] = Unset /\ HasEnvironment(s) /\ line.env[s] # ""

\* flag.Parse, then applyString, applyDuration, applyInt and applyBool.
Effective(d, line) == [s \in Settings |->
    IF line.flag[s] # Unset THEN line.flag[s]
    ELSE IF FromEnvironment(line, s) THEN line.env[s] ELSE Default(d)[s]]

Parses(d, line) ==
    \A s \in Settings : /\ line.flag[s] # Unset => Readable(d, s, line.flag[s])
                        /\ FromEnvironment(line, s) => Readable(d, s, line.env[s])

\* The certificate files are read unless the transport is insecure.
ReadRequiredFile(e) == e["gateway-cert"] \notin {"", "unreadable"}

ValidateTransport_AnyScheme(e) ==
    /\ e["gateway-endpoint"] \in {"https", "http"}
    /\ e["insecure"] = "true" \/ e["gateway-cert"] = "matching"
ValidateTransport(e) ==
    /\ e["gateway-endpoint"] = IF e["insecure"] = "true" THEN "http" ELSE "https"
    /\ e["insecure"] = "true" \/ e["gateway-cert"] = "matching"

LoadTransportConfig(e) == (e["insecure"] = "true" \/ ReadRequiredFile(e)) /\ ValidateTransport(e)

\* Config.Validate of the two drivers.
CommonValid(e) == /\ e["name"] = "valid" /\ ValidateTransport(e)
                  /\ e["poll-interval"] \in {"15s", "1h"}
                  /\ Value[e["max-instances"]] \in 1..1000
KubeVirtValid(e) == CommonValid(e) /\ e["disk-size"] \in {"1Gi", "100Gi"}
EC2Valid(e) == CommonValid(e) /\ Int32(Value[e["disk-size"]]) \in 1..16384

KubeVirtLoad(line) ==
    LET e == Effective("kubevirt", line)
    IN  IF /\ Parses("kubevirt", line) /\ LoadTransportConfig(e)
           /\ e["storage-label"] \in {"", "key=value"} /\ KubeVirtValid(e)
        THEN e ELSE Rejected

EC2Load(line) ==
    LET e == Effective("ec2", line)
    IN  IF /\ line.flag["storage-label"] = Unset   \* not a flag of this command
           /\ Parses("ec2", line) /\ LoadTransportConfig(e) /\ EC2Valid(e)
        THEN e ELSE Rejected

Load(d, line) == IF d = "ec2" THEN EC2Load(line) ELSE KubeVirtLoad(line)

-----------------------------------------------------------------------------
(* Inputs: one setting, or the three of the transport, given in every way,  *)
(* the others as in a configuration that loads, secure or not.              *)

Texts(d, s) ==
    CASE s = "bind-address" -> {"loopback", "routable", "malformed"}
      [] s = "gateway-endpoint" -> {"https", "http", "unusable"}
      [] s = "gateway-cert" -> {"matching", "unreadable", "untrusted"}
      [] s = "insecure" -> {"true", "false", "junk"}
      [] s = "name" -> {"valid", "invalid"}
      [] s = "poll-interval" -> {"0", "1h", "2h", "junk"}
      [] s = "max-instances" -> {"0", "1", "1000", "1001", "junk"}
      [] s = "disk-size" -> (IF d = "ec2" THEN {"0", "16384", "16385", "huge", "junk"}
                             ELSE {"1Mi", "1Gi", "17Ti", "junk"})
      [] s = "storage-label" -> {"key=value", "key"}

Given(d, s) == (Texts(d, s) \cup {Unset} \cup (IF s \in Typed(d) THEN {} ELSE {""}))
               \X (IF s = "storage-label" THEN {""} ELSE Texts(d, s) \cup {""})

Base(insecure) ==
    [flag |-> [s \in Settings |-> CASE s = "gateway-endpoint" -> (IF insecure THEN "http" ELSE "https")
                                    [] s = "gateway-cert" /\ ~insecure -> "matching"
                                    [] s = "insecure" /\ insecure -> "true"
                                    [] s = "name" -> "valid" [] OTHER -> Unset],
     env  |-> [s \in Settings |-> ""]]

Give(line, s, given) == [flag |-> [line.flag EXCEPT ![s] = given[1]], env |-> [line.env EXCEPT ![s] = given[2]]]

Transport(line, t) ==
    Give(Give(Give(line, "gateway-endpoint", t[1]), "gateway-cert", t[2]), "insecure", t[3])

SingleLines(d, s) == {Give(Base(insecure), s, x) : insecure \in BOOLEAN, x \in Given(d, s)}
TransportLines(d) ==
    {Transport(Base(TRUE), t) : t \in Given(d, "gateway-endpoint") \X Given(d, "gateway-cert") \X Given(d, "insecure")}
Lines(d) == TransportLines(d) \cup UNION {SingleLines(d, s) : s \in Settings}

-----------------------------------------------------------------------------
(* What a property of the commands asks of one line.                        *)

InsecureAsked(line) ==
    line.flag["insecure"] = "true" \/ (line.flag["insecure"] = Unset /\ line.env["insecure"] = "true")
Protected(c) == c["gateway-endpoint"] = "https" /\ c["gateway-cert"] = "matching"
===============================================================================
