----------------------------- MODULE ConfigFileMC -----------------------------
(***************************************************************************)
(* ConfigLoad with small sets of configurations and environments.          *)
(***************************************************************************)
EXTENDS ConfigLoad

Env(provider, compute, flags) == [provider |-> provider, compute |-> compute, flags |-> flags]

SomeEnvs ==
    {Env("aws", "eks", {}), Env("aws", "fargate", {"docker"}), Env("gcp", "gke", {}),
     Env("vultr", "vultr", {}), Env("on-prem", "kubernetes", {"openshift"}),
     Env("on-prem", "bare_metal", {"docker", "consul"})}

Pipeline(name, receiver, processors) ==
    <<"service", "pipelines", name>> :> MapNode
        @@ ReceiversOf(name) :> List(<<"otlp", receiver>>)
        @@ ProcessorsOf(name) :> processors

Base ==
    <<"exporters">> :> MapNode @@ <<"exporters", "debug">> :> Null
        @@ Processors :> MapNode
        @@ <<"service">> :> MapNode @@ <<"service", "pipelines">> :> MapNode

\* configs/host-col-config.yaml: nothing on resource detection.
HostConfig ==
    Base @@ <<"processors", "batch">> :> Null
         @@ Pipeline("metrics", "hostmetrics", List(<<"resource", "batch">>))
         @@ Pipeline("logs", "filelog", List(<<"batch">>))

\* configs/docker-col-config.yaml, with settings of the user's own.
DockerConfig ==
    Base @@ Processor :> MapNode
         @@ Setting("detectors") :> List(<<"env", "system", "docker">>)
         @@ Setting("override") :> Scalar("true") @@ Setting("timeout") :> Scalar("30s")
         @@ Enabled("system", {"host.arch"})
         @@ Setting("ec2") :> MapNode
         @@ <<"processors", ProcessorKey, "ec2", "tags">> :> List(<<"owner">>)
         @@ Pipeline("metrics", "hostmetrics", List(<<ProcessorKey, "batch">>))
         @@ Pipeline("logs", "hostmetrics", Null)

\* Entries that are there and hold nothing, or not what the code looks for.
OddConfig ==
    Base @@ Processor :> Null
         @@ Pipeline("metrics", "hostmetrics", MapNode)
         @@ Append(ProcessorsOf("metrics"), "batch") :> Null
         @@ <<"service", "pipelines", "logs">> :> Null

\* Marshalled maps are sorted; a cut leaves the first keys, the last perhaps
\* without its value.
CutAt(c) ==
    LET order == SelectSeq(<<"exporters", "processors", "service">>,
                           LAMBDA key : <<key>> \in DOMAIN c)
        First(n) == Restrict(c, {p \in DOMAIN c : \E i \in 1 .. n : p[1] = order[i]})
    IN  UNION {{First(n), Overlay(First(n), Leaf(<<order[n + 1]>>, Null))}
               : n \in 0 .. Len(order) - 1}

WithPatches(S) == S \cup {PatchCollectorConfig(c, e) : c \in S, e \in SomeEnvs}
WithCuts(S) == S \cup UNION {CutAt(c) : c \in S}

NothingSet == <<>>
SomeInitial == {HostConfig, DockerConfig, OddConfig}
SomeDelivered == {HostConfig, DockerConfig}
SomeConfigs ==
    WithCuts(WithPatches(WithCuts(WithPatches({NothingSet} \cup SomeInitial \cup SomeDelivered))))
=============================================================================
