----------------------------- MODULE CommandLine -----------------------------
(***************************************************************************)
(* The commands that the executors and fcnet give to the shell:            *)
(* executor/arguments.rs, executor/command_modifier.rs, the beginnings of  *)
(* the two invoke, and exec of ext/fcnet.rs.                               *)
(*                                                                         *)
(* A command is a sequence of texts, a space being one of them: texts      *)
(* without a space between them are one word.  An argument maps its key to *)
(* the sequence of its values, each of them a word; that of a switch is    *)
(* empty.  The iteration order of a HashMap is an operand.                 *)
(***************************************************************************)
EXTENDS Naturals, Sequences, SequencesExt, TLC

CONSTANTS
    None,                  \* an Option without a value
    NoOverride, Disable    \* the overrides without a path

ASSUME OverridesAssumption == NoOverride # Disable

Space == <<" ">>

Spaced(seqs) == FlattenSeq([i \in DOMAIN seqs |-> IF i = 1 THEN seqs[i] ELSE Space \o seqs[i]])

Flag(key) == <<"--", key>>

ArgValue(key, values) ==
    IF values = << >> THEN Flag(key)
    ELSE Spaced([i \in DOMAIN values |-> Spaced(<<Flag(key), values[i]>>)])

join_args(args, order) == Spaced([i \in DOMAIN order |-> ArgValue(order[i], args[order[i]])])

-----------------------------------------------------------------------------
\* HashMap::insert
Insert(map, key, value) ==
    [k \in DOMAIN map \union {key} |-> IF k = key THEN value ELSE map[k]]

\* VmmArguments: the API socket, the configuration file, and the arguments that the
\* other methods of the builder set.  What is set twice keeps its last value.
VmmArguments(api_socket, config_path) ==
    [api_socket |-> api_socket, config_path |-> config_path, options |-> << >>]

Set(a, key, values) == [a EXCEPT !.options = Insert(@, key, values)]

InsertApi(map, a) ==
    IF a.api_socket = None THEN Insert(map, "no-api", << >>)
    ELSE Insert(map, "api-sock", <<a.api_socket>>)

\* Mutant: Disable is taken for NoOverride.
VmmArgsDisableIgnored(a, override) ==
    InsertApi(CASE override \in {NoOverride, Disable} /\ a.config_path # None ->
                     Insert(a.options, "config-file", <<a.config_path>>)
                [] override \notin {NoOverride, Disable} ->
                     Insert(a.options, "config-file", <<override>>)
                [] OTHER -> a.options, a)

\* The override is NoOverride, Disable or the path that it enables.
VmmArgs(a, override) ==
    InsertApi(CASE override = NoOverride /\ a.config_path # None ->
                     Insert(a.options, "config-file", <<a.config_path>>)
                [] override \notin {NoOverride, Disable} ->
                     Insert(a.options, "config-file", <<override>>)
                [] OTHER -> a.options, a)

\* JailerArguments: cgroups and limits are maps from names to values.
JailerArguments(uid, gid, jail_id) ==
    [uid |-> uid, gid |-> gid, jail_id |-> jail_id,
     cgroup_values |-> << >>, resource_limits |-> << >>, options |-> << >>]

SetCgroup(j, name, value) == [j EXCEPT !.cgroup_values = Insert(@, name, value)]

SetResourceLimit(j, name, value) ==
    [j EXCEPT !.resource_limits = Insert(@, name, value)]

Many(key, values, order) ==
    IF DOMAIN values = {} THEN << >>
    ELSE key :> [i \in DOMAIN order |-> <<order[i], "=", values[order[i]]>>]

JailerArgs(j, firecracker, cgroups, limits) ==
    "exec-file" :> <<firecracker>> @@ "uid" :> <<j.uid>> @@ "gid" :> <<j.gid>>
    @@ "id" :> <<j.jail_id>>
    @@ Many("cgroup", j.cgroup_values, cgroups)
    @@ Many("resource-limit", j.resource_limits, limits)
    @@ j.options

-----------------------------------------------------------------------------
\* str::replace: the occurrences from the left that do not overlap.
Replaced(c, original, new) ==
    LET from[i \in 1..(Len(c) + 1)] ==
            IF i > Len(c) THEN << >>
            ELSE IF IsPrefix(original, SubSeq(c, i, Len(c)))
                 THEN new \o from[i + Len(original)]
                 ELSE <<c[i]>> \o from[i + 1]
    IN  from[1]

\* Mutant: the loop ends with the first replacement.
ReplaceFirstOnly(c, replacements, order) ==
    IF order = << >> THEN c ELSE Replaced(c, order[1], replacements[order[1]])

\* The replacements are a map from originals to what is put in their place.
Replace(c, replacements, order) ==
    FoldLeft(LAMBDA d, original : Replaced(d, original, replacements[original]), c, order)

modify_command(c, m) ==
    CASE m.kind = "Netns" -> Spaced(<<m.iproute2_path, <<"netns">>, <<"exec">>, m.netns_name, c>>)
      [] m.kind = "Append" -> c \o m.appended_command
      [] m.kind = "Rewrite" -> m.new_command
      [] m.kind = "Replace" -> Replace(c, m.replacements, m.order)

apply_command_modifier_chain(c, modifiers) == FoldLeft(modify_command, c, modifiers)

-----------------------------------------------------------------------------
InvokeUnrestricted(firecracker, arguments, modifiers, id) ==
    apply_command_modifier_chain(Spaced(<<firecracker, arguments>>), modifiers)
        \o IF id = None THEN << >> ELSE Space \o Spaced(<<Flag("id"), id>>)

InvokeJailed(jailer, jailer_args, firecracker_args, modifiers) ==
    apply_command_modifier_chain(
        Spaced(<<jailer, jailer_args, <<"--">>, firecracker_args>>), modifiers)

-----------------------------------------------------------------------------
\* FcnetConfiguration: what its Options hold, in the order of exec.  The options of
\* FcnetNetnsOptions are only there with the type netns.
FcnetNames == <<"iptables-path", "iface", "tap", "tap-ip">>
NetnsNames ==
    <<"netns", "veth1", "veth2", "veth1-ip", "veth2-ip", "guest-ip", "forwarded-guest-ip">>

push_arg(name, value) == IF value = << >> THEN <<name>> ELSE Spaced(<<Flag(name), value>>)

\* Mutant: options of the network namespace are written for the simple type, too.
FcnetExecMixed(fcnet_path, operation, type, options) ==
    LET given(names) == SelectSeq(names, LAMBDA n : n \in DOMAIN options)
        push(names) == [i \in DOMAIN given(names) |->
                            push_arg(given(names)[i], options[given(names)[i]])]
    IN  Spaced(<<fcnet_path, Flag(operation)>>
                 \o push(FcnetNames) \o <<push_arg(type, << >>)>> \o push(NetnsNames))

FcnetExec(fcnet_path, operation, type, options) ==
    LET given(names) == SelectSeq(names, LAMBDA n : n \in DOMAIN options)
        push(names) == [i \in DOMAIN given(names) |->
                            push_arg(given(names)[i], options[given(names)[i]])]
    IN  Spaced(<<fcnet_path, Flag(operation)>>
                 \o push(FcnetNames) \o <<push_arg(type, << >>)>>
                 \o IF type = "netns" THEN push(NetnsNames) ELSE << >>)

-----------------------------------------------------------------------------
(***************************************************************************)
(* How the programs read a command: the shell splits it into words, and a  *)
(* flag is followed by its value, if it has one.                           *)
(***************************************************************************)
Words(c) ==
    FoldLeft(LAMBDA ws, t : IF t = " " THEN Append(ws, << >>)
                            ELSE [ws EXCEPT ![Len(ws)] = Append(@, t)],
             << << >> >>, c)

IsFlag(w) == Len(w) = 2 /\ w[1] = "--"

ReadArguments(words) ==
    {<<words[i][2],
       IF i < Len(words) /\ ~IsFlag(words[i + 1]) THEN words[i + 1] ELSE << >> >> :
        i \in {j \in DOMAIN words : IsFlag(words[j])}}

\* The arguments before and after the separator.
BeforeSeparator(words) == SubSeq(words, 1, SelectInSeq(words, LAMBDA w : w = <<"--">>) - 1)
AfterSeparator(words) ==
    SubSeq(words, SelectInSeq(words, LAMBDA w : w = <<"--">>) + 1, Len(words))

=============================================================================
