------------------------------- MODULE LinkLocal -------------------------------
(***************************************************************************)
(* LinkLocalSubnet of src/src/ext/link_local.rs: the subnets of            *)
(* 169.254.0.0/16 by their length and index, in the integer types of the   *)
(* code.  An address is its third and fourth octet; a result is            *)
(* [ok |-> value] or [err |-> error], a panic being an error here.         *)
(***************************************************************************)
EXTENDS Integers, Sequences

LINK_LOCAL_IP_AMOUNT == 65536

Ok(v) == [ok |-> v]
Err(e) == [err |-> e]
IsOk(r) == "ok" \in DOMAIN r

Subnet(index, length) == [subnet_index |-> index, network_length |-> length]

get_ip_amount(length) == 2 ^ (32 - length)

\* Mutant: the bound is one too large.
ValidateOffByOne(length, index) ==
    /\ length \in 17..30
    /\ index <= LINK_LOCAL_IP_AMOUNT \div get_ip_amount(length)

Valid(length, index) ==
    /\ length \in 17..30
    /\ index < LINK_LOCAL_IP_AMOUNT \div get_ip_amount(length)

ValidationError(length) ==
    IF length \in 17..30 THEN "SubnetIndexDoesNotFit" ELSE "NetworkLengthDoesNotFit"

New(index, length) ==
    IF Valid(length, index) THEN Ok(Subnet(index, length)) ELSE Err(ValidationError(length))

\* The index that from_inet computes in u16, with or without overflow checks: the modulo
\* binds tighter than the subtraction, and the divisor is the length of the prefix.
InetIndex(octet3, octet4, length) ==
    LET dividend == (256 * octet3 - (octet4 % length)) % 65536
    IN  dividend \div length + (IF dividend % length > 0 THEN 1 ELSE 0)

InetPanics(octet3, octet4, length, overflowChecks) ==
    \/ length = 0
    \/ overflowChecks /\ 256 * octet3 < (octet4 % length)

\* isLinkLocal: the first two octets are 169.254.
FromInet(isLinkLocal, octet3, octet4, length, overflowChecks) ==
    IF ~isLinkLocal THEN Err("NotLinkLocal")
    ELSE IF InetPanics(octet3, octet4, length, overflowChecks) THEN Err("panic")
    ELSE New(InetIndex(octet3, octet4, length), length)

ip_amount(s) == get_ip_amount(s.network_length)
host_ip_amount(s) == ip_amount(s) - 2

\* The quotient must fit in an octet; the u32 arithmetic of the callers cannot overflow for
\* a valid subnet.
GetIpImp(x) ==
    IF x \div 256 < 256 THEN Ok(<<x \div 256, x % 256>>) ELSE Err("UnexpectedOverflow")

GetIp(s, i) ==
    IF i < ip_amount(s)
    THEN GetIpImp(ip_amount(s) * s.subnet_index + i)
    ELSE Err("IpIndexDoesNotFit")

\* Mutant: the bound of get_ip.
GetHostIpUnbounded(s, i) ==
    IF i < ip_amount(s)
    THEN GetIpImp(ip_amount(s) * s.subnet_index + i + 1)
    ELSE Err("IpIndexDoesNotFit")

GetHostIp(s, i) ==
    IF i < host_ip_amount(s)
    THEN GetIpImp(ip_amount(s) * s.subnet_index + i + 1)
    ELSE Err("IpIndexDoesNotFit")

\* The loops of get_ips and get_host_ips stop at the first error.
Collect(results) ==
    IF \A i \in DOMAIN results : IsOk(results[i])
    THEN Ok([i \in DOMAIN results |-> results[i].ok])
    ELSE Err("UnexpectedOverflow")

GetIps(s) == Collect([i \in 1..ip_amount(s) |-> GetIp(s, i - 1)])
GetHostIps(s) == Collect([i \in 1..host_ip_amount(s) |-> GetHostIp(s, i - 1)])

-----------------------------------------------------------------------------
(***************************************************************************)
(* What they should compute, by the arithmetic of CIDR prefixes.           *)
(***************************************************************************)

Offset(ip) == 256 * ip[1] + ip[2]

IndexOf(ip, length) == Offset(ip) \div get_ip_amount(length)

InSubnet(ip, s) == IndexOf(ip, s.network_length) = s.subnet_index

\* Neither the address of the network nor that of its broadcasts.
IsHost(ip, length) == Offset(ip) % get_ip_amount(length) \notin {0, get_ip_amount(length) - 1}

=============================================================================
