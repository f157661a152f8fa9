------------------------------ MODULE PureCalls ------------------------------
(***************************************************************************)
(* One call at a time of each function of LinkLocal and CommandLine, over  *)
(* operands that include the boundaries, with its result.                  *)
(***************************************************************************)
EXTENDS Integers, LinkLocal, CommandLine

VARIABLE call   \* the operation, its operands and its result

Idle == [op |-> "none"]

Init == call = Idle

-----------------------------------------------------------------------------
(***************************************************************************)
(* LinkLocalSubnet                                                         *)
(***************************************************************************)
Lengths == {0, 1, 16, 31, 32, 255} \union 17..30

Indexes ==
    {0, 1, 2, 127, 128, 255, 256, 8191, 8192, 16382, 16383, 16384, 65535}

Subnets == {Subnet(n, length) : n \in Indexes, length \in 17..30}
ValidSubnets == {s \in Subnets : IsOk(New(s.subnet_index, s.network_length))}

IpIndexes(s) ==
    {0, 1, 2, ip_amount(s) \div 2, ip_amount(s) - 3, ip_amount(s) - 2, ip_amount(s) - 1,
     ip_amount(s), 65535}

NewSubnet ==
    \E n \in Indexes, length \in Lengths :
        call' = [op |-> "new", index |-> n, length |-> length, result |-> New(n, length)]

ConvertInet ==
    \E isLinkLocal, overflowChecks \in BOOLEAN, octet3 \in {0, 1, 2, 128, 255},
       octet4 \in {0, 1, 4, 30, 127, 128, 255}, length \in Lengths \ {255} :
        call' = [op |-> "from_inet", ip |-> <<octet3, octet4>>, length |-> length,
                 result |-> FromInet(isLinkLocal, octet3, octet4, length, overflowChecks)]

LookUpIp ==
    \E s \in ValidSubnets : \E i \in IpIndexes(s) :
        \/ call' = [op |-> "get_ip", subnet |-> s, i |-> i, result |-> GetIp(s, i)]
        \/ call' = [op |-> "get_host_ip", subnet |-> s, i |-> i, result |-> GetHostIp(s, i)]

ListIps ==
    \E s \in {s \in ValidSubnets : s.network_length >= 28} :
        \/ call' = [op |-> "get_ips", subnet |-> s, result |-> GetIps(s)]
        \/ call' = [op |-> "get_host_ips", subnet |-> s, result |-> GetHostIps(s)]

-----------------------------------------------------------------------------
(***************************************************************************)
(* Commands                                                                *)
(***************************************************************************)
Sock == <<"sock">>
Config == <<"config">>
Overrides == {NoOverride, Disable, <<"override">>}

\* Arguments as a builder makes them; a level is set twice.
Vmms ==
    LET options == {VmmArguments(sock, config) : sock \in {None, Sock}, config \in {None, Config}}
    IN  options
        \union {Set(Set(a, "level", <<<<"Off">>>>), "level", <<<<"Info">>>>) : a \in options}
        \union {Set(a, "boot-timer", << >>) : a \in options}

Jailers ==
    LET j == JailerArguments(<<"0">>, <<"0">>, <<"jail">>)
    IN  {j, Set(j, "daemonize", << >>),
         SetCgroup(SetCgroup(SetCgroup(j, "cpu", "0"), "mem", "1"), "cpu", "2"),
         SetResourceLimit(SetResourceLimit(j, "fsize", "1"), "no-file", "2")}

Netns == [kind |-> "Netns", iproute2_path |-> <<"ip">>, netns_name |-> <<"ns">>]
AppendGlued == [kind |-> "Append", appended_command |-> <<"glued">>]
AppendSpaced == [kind |-> "Append", appended_command |-> <<" ", "--", "appended", " ", "x">>]
Rewrite == [kind |-> "Rewrite", new_command |-> <<"rewritten">>]

Chains ==
    {<< >>, <<Netns>>, <<AppendSpaced>>, <<Netns, AppendSpaced>>, <<AppendGlued>>, <<Rewrite>>,
     <<Rewrite, Netns>>, <<AppendGlued, Rewrite>>}

\* The modifiers that leave the arguments as they are, and what they add to them.
KeepsArguments(m) == m \in {Netns, AppendSpaced}
Appended(chain) ==
    IF \E i \in DOMAIN chain : chain[i] = AppendSpaced THEN {<<"appended", <<"x">>>>} ELSE {}

Spawn(executor, command, vmm, override, jailer, chain, id) ==
    call' = [op |-> "invoke", executor |-> executor, result |-> command, vmm |-> vmm,
             override |-> override, jailer |-> jailer, chain |-> chain, id |-> id]

SpawnUnrestricted ==
    \E vmm \in Vmms, override \in Overrides, chain \in Chains, id \in {None, <<"vmm-id">>} :
      \E order \in SetToSeqs(DOMAIN VmmArgs(vmm, override)) :
        Spawn("unrestricted",
              InvokeUnrestricted(<<"fc">>, join_args(VmmArgs(vmm, override), order), chain, id),
              vmm, override, None, chain, id)

SpawnJailed ==
    \E vmm \in {VmmArguments(Sock, Config)}, jailer \in Jailers,
       override \in Overrides, chain \in {<< >>, <<Netns, AppendSpaced>>, <<AppendGlued>>} :
      \E cgroups \in SetToSeqs(DOMAIN jailer.cgroup_values),
         limits \in SetToSeqs(DOMAIN jailer.resource_limits),
         order \in SetToSeqs(DOMAIN VmmArgs(vmm, override)) :
        LET args == JailerArgs(jailer, <<"fc">>, cgroups, limits)
        IN  \E jailerOrder \in SetToSeqs(DOMAIN args) :
              Spawn("jailed",
                    InvokeJailed(<<"jl">>, join_args(args, jailerOrder),
                                 join_args(VmmArgs(vmm, override), order), chain),
                    vmm, override, jailer, chain, None)

\* A command of three texts, and up to two replacements of one or two texts by up to two.
Commands == [1..3 -> {"a", "b", "c"}]
Originals == {<<"a">>, <<"b">>, <<"a", "b">>, <<"b", "c">>}
News == {<< >>, <<"a">>, <<"x">>, <<"x", "x">>}

ReplaceTexts ==
    \E c \in Commands, originals \in {o \in SUBSET Originals : Cardinality(o) <= 2} :
      \E replacements \in [originals -> News], order \in SetToSeqs(originals) :
        call' = [op |-> "replace", command |-> c, replacements |-> replacements,
                 result |-> modify_command(c, [kind |-> "Replace", order |-> order,
                                               replacements |-> replacements])]

FcnetOptions ==
    UNION {[names -> {<< >>, <<"v">>}] :
              names \in SUBSET {"iface", "tap", "netns", "veth1", "guest-ip"}}

RunFcnet ==
    \E type \in {"simple", "netns"}, options \in FcnetOptions,
       operation \in {"add", "check", "del"} :
        call' = [op |-> "fcnet", type |-> type, options |-> options, operation |-> operation,
                 result |-> FcnetExec(<<"fcnet">>, operation, type, options)]

-----------------------------------------------------------------------------
Call ==
    \/ NewSubnet \/ ConvertInet \/ LookUpIp \/ ListIps
    \/ SpawnUnrestricted \/ SpawnJailed \/ ReplaceTexts \/ RunFcnet

Next ==
    \/ call = Idle /\ Call
    \/ call # Idle /\ call' = Idle

Spec == Init /\ [][Next]_call

-----------------------------------------------------------------------------
\* new and from_inet return no subnet that reaches out of 169.254.0.0/16.
SubnetsFit ==
    call.op \in {"new", "from_inet"} /\ IsOk(call.result) =>
        LET s == call.result.ok
        IN  s.network_length \in 17..30 /\ (s.subnet_index + 1) * ip_amount(s) <= 65536

\* Every index below the amount has an address: it is in the subnet, at its place, and, for
\* host addresses, neither the network's nor its broadcast's.  UnexpectedOverflow "should
\* never happen", and get_ips and get_host_ips "should not return an error".
AddressesStayInSubnet ==
    /\ call.op \in {"get_ip", "get_host_ip"} =>
        IF call.i < (IF call.op = "get_ip" THEN ip_amount(call.subnet)
                                          ELSE host_ip_amount(call.subnet))
        THEN LET ip == call.result.ok
                 shift == IF call.op = "get_ip" THEN 0 ELSE 1
             IN  /\ InSubnet(ip, call.subnet)
                 /\ Offset(ip) % ip_amount(call.subnet) = call.i + shift
                 /\ call.op = "get_host_ip" => IsHost(ip, call.subnet.network_length)
        ELSE call.result = Err("IpIndexDoesNotFit")
    /\ call.op = "get_ips" =>
        {call.result.ok[k] : k \in DOMAIN call.result.ok}
            = {ip \in (0..255) \X (0..255) : InSubnet(ip, call.subnet)}
    /\ call.op = "get_host_ips" =>
        {call.result.ok[k] : k \in DOMAIN call.result.ok}
            = {ip \in (0..255) \X (0..255) :
                 InSubnet(ip, call.subnet) /\ IsHost(ip, call.subnet.network_length)}

\* "Try to convert an Ipv4Inet into a link-local subnet": the subnet that the address is in.
FromInetFindsSubnet ==
    call.op = "from_inet" /\ IsOk(call.result) => InSubnet(call.ip, call.result.ok)

-----------------------------------------------------------------------------
AskedOfFirecracker(vmm, override, id) ==
    LET config == CASE override = NoOverride -> vmm.config_path
                    [] override = Disable -> None
                    [] OTHER -> override
        paths == {<<"config-file", config>>, <<"id", id>>, <<"api-sock", vmm.api_socket>>}
    IN  {p \in paths : p[2] # None}
        \union {<<"no-api", << >>>> : n \in {vmm.api_socket} \intersect {None}}
        \union {<<k, FlattenSeq(vmm.options[k])>> : k \in DOMAIN vmm.options}

AskedOfJailer(j) ==
    {<<"exec-file", <<"fc">>>>, <<"uid", j.uid>>, <<"gid", j.gid>>, <<"id", j.jail_id>>}
    \union {<<k, << >>>> : k \in DOMAIN j.options}
    \union {<<"cgroup", <<n, "=", j.cgroup_values[n]>>>> : n \in DOMAIN j.cgroup_values}
    \union {<<"resource-limit", <<n, "=", j.resource_limits[n]>>>> :
              n \in DOMAIN j.resource_limits}

\* In whatever order the HashMaps are iterated, Firecracker and the jailer read what was
\* asked for: the options as they were last set, each under its program, with the
\* configuration file overridden, and nothing else.  The identity gets through any chain.
CommandSaysArguments ==
    call.op = "invoke" =>
        LET words == Words(call.result)
            asked == AskedOfFirecracker(call.vmm, call.override, call.id)
                       \union Appended(call.chain)
        IN  IF \A i \in DOMAIN call.chain : KeepsArguments(call.chain[i])
            THEN IF call.executor = "jailed"
                 THEN /\ ReadArguments(BeforeSeparator(words)) = AskedOfJailer(call.jailer)
                      /\ ReadArguments(AfterSeparator(words)) = asked
                 ELSE ReadArguments(words) = asked
            ELSE call.id # None => <<"id", call.id>> \in ReadArguments(words)

Texts(s) == {s[i] : i \in DOMAIN s}

\* The replacements of one modifier are a HashMap: their order does not matter, and none of
\* the originals is left, as long as no original has a text of another original or of a
\* replacement, and a text that is removed leaves no new neighbours to be replaced.
ReplaceOrderIrrelevant ==
    call.op = "replace" =>
        LET r == call.replacements
            apart == /\ \A o, p \in DOMAIN r : /\ o # p => Texts(o) \intersect Texts(p) = {}
                                               /\ Texts(o) \intersect Texts(r[p]) = {}
                     /\ (\A o \in DOMAIN r : r[o] # << >>) \/ (\A o \in DOMAIN r : Len(o) = 1)
        IN  apart =>
              /\ \A order \in SetToSeqs(DOMAIN r) : call.result = Replace(call.command, r, order)
              /\ \A o \in DOMAIN r : Replaced(call.result, o, r[o]) = call.result

\* fcnet is given the operation, one type, and each option that was set, those of a network
\* namespace under the type netns only, unless a name was set to the empty string, which
\* turns an option into the name of a type.
FcnetSaysConfiguration ==
    call.op = "fcnet" /\ (\A n \in DOMAIN call.options : call.options[n] # << >>) =>
        LET words == Words(call.result)
            names == Texts(FcnetNames)
                       \union (IF call.type = "netns" THEN Texts(NetnsNames) ELSE {})
            set == {<<n, call.options[n]>> : n \in names \intersect DOMAIN call.options}
            values == {p[2] : p \in set}
        IN  /\ \E p \in ReadArguments(words) : p[1] = call.operation
            /\ {p \in ReadArguments(words) : p[1] # call.operation} = set
            /\ {i \in 2..Len(words) : ~IsFlag(words[i]) /\ words[i] \notin values}
                 = {i \in DOMAIN words : words[i] = <<call.type>>}
            /\ Cardinality({i \in DOMAIN words : words[i] = <<call.type>>}) = 1

=============================================================================
